----------------------------- MODULE RunPromise -----------------------------
(* What a run promises to those who watch it: the page that started it, the *)
(* streams that read its rows and the registry of the runs.  Of the five    *)
(* kinds of threads, the queue, the attempts and the mutex there is nothing *)
(* left: a run is started once and ends once, and counts what it makes.     *)
EXTENDS Naturals

CONSTANT Limit   \* how many rows a preview has at most; 0 is no limit

VARIABLES
  state,     \* the status of the run
  canceled,  \* somebody asked for its end
  told,      \* the end that the registry was told
  made,      \* the rows that the run made
  taken      \* those of them that streams took

promiseVars == <<state, canceled, told, made, taken>>

Ends == {"Finished", "Error", "Canceled", "ResultLimitReached"}

RunInit == state = "Created" /\ canceled = FALSE /\ told = "none" /\ made = 0 /\ taken = 0

IsAsked == /\ ~canceled
           /\ canceled' = TRUE
           /\ UNCHANGED <<state, told, made, taken>>

\* A run that was cancelled before its start never runs.
Runs == /\ state = "Created" /\ ~canceled /\ told = "none"
        /\ state' = "Running"
        /\ UNCHANGED <<canceled, told, made, taken>>

AtItsLimit == Limit > 0 /\ made = Limit

\* The one end of a run.  Nothing ends a run as canceled that nobody cancelled,
\* and a cancelled run has no error; a run whose end was told has no other.
Stops(end) == /\ state \in (IF end = "Canceled" THEN {"Created", "Running"} ELSE {"Running"})
              /\ end = "Canceled" => canceled
              /\ end # "Canceled" => told = "none"
              /\ end = "Error" => ~canceled
              /\ end = "ResultLimitReached" => AtItsLimit
              /\ state' = end
              /\ UNCHANGED <<canceled, told, made, taken>>

\* The limit was reached although the run was cancelled meanwhile.
LimitStands == /\ state = "Canceled" /\ AtItsLimit
               /\ state' = "ResultLimitReached"
               /\ UNCHANGED <<canceled, told, made, taken>>

\* The registry is told once, and what it is told holds: the run has this end,
\* or it is canceled and can have no other but the limit.
Tells(end) == /\ told = "none"
              /\ end = state \/ (end = "Canceled" /\ canceled /\ state \notin {"Finished", "Error"})
              /\ told' = end
              /\ UNCHANGED <<state, canceled, made, taken>>

\* Rows are made while the run runs, or is being cancelled, and within the limit.
Makes == /\ state \in {"Running", "Canceled"}
         /\ made' \in Nat /\ made' > made
         /\ Limit > 0 => made' <= Limit
         /\ UNCHANGED <<state, canceled, told, taken>>

\* Streams take no more rows than were made, also after the end.
Takes == /\ taken' \in Nat /\ taken' > taken
         /\ taken' <= made
         /\ UNCHANGED <<state, canceled, told, made>>

RunNext == \/ IsAsked \/ Runs \/ LimitStands \/ Makes \/ Takes
           \/ \E end \in Ends : Stops(end) \/ Tells(end)

RunSpec == RunInit /\ [][RunNext]_promiseVars
=============================================================================
