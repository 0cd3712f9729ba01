------------------------------- MODULE KeySet -------------------------------
(* What the page and the MCP clients may rely on: a set of keys that changes *)
(* one whole change at a time.  A change is tried, and then it happens and   *)
(* the caller is told, or it does not and the caller is told that.  Only a   *)
(* crash in its middle leaves open which of the two.  A kill of the process  *)
(* takes nothing back; a power loss leaves a set that was written as a whole.*)
CONSTANTS Contents, Callers, Refusals

VARIABLES
  keys,       \* the keys in force, or, while the process is down, those of its next start
  change,     \* the keys after the change that is tried; the same keys when none is
  survivors,  \* what a power loss can leave
  told        \* what each caller was told last

setVars == <<keys, change, survivors, told>>

Init == /\ keys \in Contents
        /\ change = keys
        /\ survivors = {keys}
        /\ told \in [Callers -> {"none"}]

Try == /\ change = keys
       /\ change' \in Contents
       /\ UNCHANGED <<keys, survivors, told>>

\* Writes and the disk settle what survives, always some set that was meant.
Settle == /\ survivors' \in SUBSET (survivors \cup {change})
          /\ survivors' # {}
          /\ UNCHANGED <<keys, change, told>>

\* The change is on the disk before its caller is told.
Do(c) == /\ change \in survivors
         /\ keys' = change
         /\ told' = [told EXCEPT ![c] = "ok"]
         /\ UNCHANGED <<change, survivors>>

\* Nothing changed: the set is the same, now and after a kill.
Refuse(c, why) == /\ change' = keys
                  /\ told' = [told EXCEPT ![c] = why]
                  /\ UNCHANGED <<keys, survivors>>

Kill == /\ keys' \in {keys, change}
        /\ change' = keys'
        /\ told' = [c \in Callers |-> "none"]
        /\ UNCHANGED survivors

PowerLoss == /\ keys' \in survivors
             /\ change' = keys'
             /\ survivors' = {keys'}
             /\ told' = [c \in Callers |-> "none"]

Next == \/ Try \/ Settle \/ Kill \/ PowerLoss
        \/ \E c \in Callers : Do(c) \/ \E why \in Refusals : Refuse(c, why)

Spec == Init /\ [][Next]_setVars
=============================================================================
