------------------------------- MODULE MCParts ------------------------------
(* Small instances of the parts that share no state: each behaviour is one   *)
(* of the part `which`, and the variables of the others keep their values.   *)
EXTENDS PolicyAccess, McpKeys, ClientPool, McpUsage, QueryLibrary, FlushGate, Exports, DeepAnalysis, BlockEncoder,
        TLC

CONSTANTS t1, t2, t3, u1, u2, u3

\* What each part has two or three of, as threads, keys or names: the first two
\* can be exchanged, where the part tells none of them from the other.
Two      == {t1, t2}
Three    == {t1, t2, t3}
Pair     == {u1, u2}
Triple   == {u1, u2, u3}
SymParts == {p @@ q : p \in Permutations(Two), q \in Permutations(Pair)}

VARIABLE which

partVars == <<which, policyVars, keyVars, poolVars, usageVars, libraryVars, gateVars, exportVars, deepVars,
              encoderVars>>

\* Bound of the instance: the policy changes while an answer from before it is on its
\* way, decided on or kept, or while the use waits that comes after it; and the first
\* request is a call of a tool.
Goals         == {thread[r].goal : r \in {t \in Requests : ~At(t, "idle")}}
InUse(t)      == t.pc \in {"use", "useMetadata", "useSent", "useAnswered"}
Remembered    == \/ kept.left > 0 \/ \E k \in CacheKeys : cache[k].left > 0
                 \/ \E r \in Requests : ~At(r, "idle") /\ (At(r, "answered") \/ InUse(thread[r]) \/ thread[r].out # Fails)
PolicyIsSmall == (policy' # policy => Remembered) /\ (count.requests = 0 => Goals' \subseteq {"state"})

\* Bound of the instance: two starts of one process with two keys, or three with one
\* key; or two processes with one key, and a third start of one while none is deleted.
WithBoots    == {p \in Processes : usage[p].boots > 0}
KnownKeys    == (IF file = NoFile THEN {} ELSE Entered(file.entries))
                  \cup UNION {usage[p].live \cup Entered(usage[p].entries) : p \in Processes}
NoneDeleted  == \A p \in WithBoots : usage[p].mode # "identity" /\ DeletedOf(usage[p].entries) = {}
UsageIsSmall == \/ Cardinality(WithBoots) <= 1 /\ Starts <= 2
                \/ Cardinality(KnownKeys) <= 1 /\ (Cardinality(WithBoots) <= 1 \/ Starts <= 2 \/ NoneDeleted)

\* Bound of the instance: two folders and a query, or three folders, two of these at
\* the start; and an edit that comes while a change is written is a removal, or leaves
\* the file as it is or unreadable.
Trees          == {library} \cup ({onDisk} \ {Unreadable}) \cup (IF Unlocked THEN {} ELSE {change.next})
Holds(l)       == Cardinality(Folders(l)) + Cardinality(Queries(l))
LibraryIsSmall == \A l \in Trees : Holds(l) <= 3
EditIsSmall    == events' # events /\ ~Unlocked => onDisk' \in {onDisk, NoLibrary, Unreadable}

PartsInit == /\ PolicyInit /\ KeysInit /\ PoolInit /\ UsageInit /\ LibraryInit /\ FlushInit
             /\ ExportsInit /\ DeepInit /\ EncoderInit
             /\ Holds(library) <= 2
             /\ which \in {"policy", "keys", "pool", "usage", "library", "flush", "exports", "deep", "encoder"}

PolicyPart  == /\ which = "policy" /\ PolicyNext /\ PolicyIsSmall
               /\ UNCHANGED <<which, keyVars, poolVars, usageVars, libraryVars, gateVars, exportVars, deepVars, encoderVars>>
KeysPart    == /\ which = "keys" /\ KeysNext
               /\ UNCHANGED <<which, policyVars, poolVars, usageVars, libraryVars, gateVars, exportVars, deepVars, encoderVars>>
PoolPart    == /\ which = "pool" /\ PoolNext
               /\ UNCHANGED <<which, policyVars, keyVars, usageVars, libraryVars, gateVars, exportVars, deepVars, encoderVars>>
UsagePart   == /\ which = "usage" /\ UsageNext /\ UsageIsSmall'
               /\ UNCHANGED <<which, policyVars, keyVars, poolVars, libraryVars, gateVars, exportVars, deepVars, encoderVars>>
LibraryPart == /\ which = "library" /\ LibraryNext /\ LibraryIsSmall' /\ EditIsSmall
               /\ UNCHANGED <<which, policyVars, keyVars, poolVars, usageVars, gateVars, exportVars, deepVars, encoderVars>>
FlushPart   == /\ which = "flush" /\ FlushNext
               /\ UNCHANGED <<which, policyVars, keyVars, poolVars, usageVars, libraryVars, exportVars, deepVars, encoderVars>>
ExportsPart == /\ which = "exports" /\ ExportsNext
               /\ UNCHANGED <<which, policyVars, keyVars, poolVars, usageVars, libraryVars, gateVars, deepVars, encoderVars>>
DeepPart    == /\ which = "deep" /\ DeepNext
               /\ UNCHANGED <<which, policyVars, keyVars, poolVars, usageVars, libraryVars, gateVars, exportVars, encoderVars>>
EncoderPart == /\ which = "encoder" /\ EncoderNext
               /\ UNCHANGED <<which, policyVars, keyVars, poolVars, usageVars, libraryVars, gateVars, exportVars, deepVars>>

PartsNext == \/ PolicyPart \/ KeysPart \/ PoolPart \/ UsagePart \/ LibraryPart
             \/ FlushPart \/ ExportsPart \/ DeepPart \/ EncoderPart

PartsSpec == PartsInit /\ [][PartsNext]_partVars

(* Only the part that moves is of interest.  Of the policy, nothing is after  *)
(* the last request, and before it what no step that is still to come reads, *)
(* and no property of one, is left out: caches, the kept state and ages that *)
(* no request asks for, and of a wait and its deadline all but their         *)
(* difference.  What a request told its caller is read in action properties, *)
(* which TLC checks on each step.                                            *)
More == count.requests < MaxRequests

\* The cached answers that a request reads from here on.
MayRead(t) ==
  CASE t.pc = "idle"                                  -> {}
    [] t.pc = "state" \/ (t.pc = "decide" /\ t.goal # "others") -> CacheKeys
    [] t.goal = "state" \/ t.pc = "decide"            -> CacheKeys \ {UseQuestion}
    [] t.goal = "others"                              -> {Use}
    [] OTHER                                          -> {}

CacheView == IF More THEN cache
             ELSE LET read == UNION {MayRead(thread[r]) : r \in Requests}
                  IN [k \in CacheKeys |-> IF k \in read THEN cache[k] ELSE NoAnswer]

SinceView == LET goals == IF More THEN {"state"} ELSE Goals
             IN <<IF goals \cap {"state", "adopt"} = {} THEN 0 ELSE Min({AnswerAge + TTL + 1, since["gone"]}),
                  IF goals \cap {"state", "others"} = {} THEN {} ELSE {<<q, since[q]>> : q \in Asked}>>

ThreadView(t) ==
  IF t.pc = "idle" THEN Idle("none")
  ELSE LET more == t.split /\ t.todo # {}
       IN [t EXCEPT !.waited = 0, !.limit = IF InFlight(t) THEN t.limit - t.waited ELSE 0,
                    !.total = IF t.goal = "others" THEN 0 ELSE Min({TTL, t.total}),
                    !.split = more, !.meta = IF more THEN Asking(t) ELSE 0,
                    !.out = IF InUse(t) THEN Fails ELSE IF t.pc = "conclude" THEN {@[q] : q \in Asked} ELSE @]

PolicyView ==
  IF Awake THEN <<policy, SinceView, CacheView, IF More \/ \E r \in Requests : At(r, "state") THEN kept ELSE NoState,
                  [r \in Requests |-> ThreadView(thread[r])], count>>
           ELSE <<>>

\* Of the headers of a file only what a save compares, and of the time of the last
\* save that it was before now: a boot saves at most once in a minute, so no header
\* comes back.
UsageView ==
  <<now, Starts,
    IF file = NoFile THEN NoFile
    ELSE [file EXCEPT !.header.boot = <<@[1], @[2] = usage[@[1]].boots>>],
    [p \in Processes |-> [usage[p] EXCEPT !.boots = @ > 0, !.last = @ < now, !.seen = file # NoFile /\ @ = file.header]]>>

PartsView == CASE which = "policy"  -> <<which, PolicyView>>
               [] which = "keys"    -> <<which, keyVars>>
               [] which = "pool"    -> <<which, poolVars>>
               [] which = "usage"   -> <<which, UsageView>>
               [] which = "library" -> <<which, libraryVars>>
               [] which = "flush"   -> <<which, gateVars>>
               [] which = "exports" -> <<which, exportVars>>
               [] which = "deep"    -> <<which, deepVars>>
               [] which = "encoder" -> <<which, encoderVars>>

\* The type invariant of each part, where it moves.
PartsTypeOK == CASE which = "policy"  -> PolicyTypeOK
                 [] which = "keys"    -> KeyTypeOK
                 [] which = "pool"    -> PoolTypeOK
                 [] which = "usage"   -> UsageTypeOK
                 [] which = "library" -> LibraryTypeOK
                 [] which = "flush"   -> FlushTypeOK
                 [] which = "exports" -> ExportTypeOK
                 [] which = "deep"    -> DeepTypeOK
                 [] which = "encoder" -> EncoderTypeOK
=============================================================================
