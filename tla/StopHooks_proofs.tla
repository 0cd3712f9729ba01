-------------------------- MODULE StopHooks_proofs --------------------------
(* Threads that take a place and that the stop of the server must find: the  *)
(* downloads of exports and the jobs of Deep Analyze, for any number.        *)
EXTENDS Exports, DeepAnalysis, FiniteSetTheorems, TLAPS

-----------------------------------------------------------------------------
(* Exports.                                                                  *)

(* A set that changes by one element at most.                                *)
LEMMA OneCounted ==
  ASSUME NEW S, IsFiniteSet(S), NEW T, NEW p, S \ {p} = T \ {p}
  PROVE  /\ (p \in S <=> p \in T) => Cardinality(T) = Cardinality(S)
         /\ p \notin S /\ p \in T => Cardinality(T) = Cardinality(S) + 1
         /\ p \in S /\ p \notin T => Cardinality(T) = Cardinality(S) - 1
<1>1. (p \in S <=> p \in T) => T = S
  OBVIOUS
<1>2. p \notin S /\ p \in T => T = S \cup {p}
  OBVIOUS
<1>3. p \in S /\ p \notin T => T = S \ {p}
  OBVIOUS
<1> QED BY <1>1, <1>2, <1>3, FS_AddElement, FS_RemoveElement

DownloadSteps == {"new", "over"} \cup Refusable \cup Streaming
DownloadOf    == [step : DownloadSteps, export : ExportIds \cup {NoExport}, index : Nat, kill : {"none", "early", "killed"}]
Unpaid        == {"preflight", "use", "puts_back"}
WithSlot      == {"consumes", "preflight", "use"} \cup Streaming
Claims(d)     == download[d].step \in Unpaid \cup Streaming
Holders       == {d \in Downloads : download[d].step \in WithSlot}

ExportTypes ==
  /\ pending \subseteq ExportIds /\ made \subseteq ExportIds
  /\ download \in [Downloads -> DownloadOf]
  /\ ran \in [ExportIds -> SUBSET Downloads]
  /\ stop = [step |-> stop.step, todo |-> stop.todo]

(* An export is in the store, or one download has it, or it is gone.         *)
OwnPlaces ==
  /\ pending \subseteq made
  /\ \A d \in Downloads : Claims(d) => JobOf(d) \in made \ pending
  /\ \A c, d \in Downloads : Claims(c) /\ Claims(d) /\ JobOf(c) = JobOf(d) => c = d
  /\ \A e \in ExportIds : \A d \in ran[e] :
       /\ e \in made \ pending
       /\ \A c \in Downloads : Claims(c) /\ JobOf(c) = e => c = d /\ download[c].step \notin Unpaid
       /\ \A c \in ran[e] : c = d

Slots == active = Cardinality(Holders) /\ active <= MaxActive

(* A statement for which no KILL was sent yet has a hook that the stop will  *)
(* still find.                                                               *)
Found(d) ==
  \/ download[d].kill # "none"
  \/ HookOf(d) \in hooks /\ stop.step \in {"up", "flagged"}
  \/ HookOf(d) \in stop.todo /\ stop.step = "calls"

NoneIsMissed == \A d \in Downloads : download[d].step \in {"connects", "runs"} => Found(d)

ExportInv == ExportTypes /\ OwnPlaces /\ Slots /\ NoneIsMissed
-----------------------------------------------------------------------------
LEMMA ExportInvStarts == ExportsInit => ExportInv
<1> SUFFICES ASSUME ExportsInit PROVE ExportInv
  OBVIOUS
<1>1. /\ pending = {} /\ made = {} /\ active = 0 /\ \A d \in Downloads : download[d].step = "new"
      /\ \A e \in ExportIds : ran[e] = {}
  BY DEF ExportsInit
<1>2. [step |-> "new", export |-> NoExport, index |-> 1, kill |-> "none"] \in DownloadOf
  BY DEF DownloadOf, DownloadSteps
<1>3. ExportTypes
  BY <1>2 DEF ExportsInit, ExportTypes
<1>4. OwnPlaces
  BY <1>1 DEF OwnPlaces, Claims, Unpaid, Streaming
<1>5. Slots
  <2>1. Holders = {}
    BY <1>1 DEF Holders, WithSlot, Streaming
  <2> QED BY <1>1, <2>1, FS_EmptySet, ExportAssumption DEF Slots
<1>6. NoneIsMissed
  BY <1>1 DEF NoneIsMissed
<1> QED BY <1>3, <1>4, <1>5, <1>6 DEF ExportInv

(* What a step alone changes of a download.                                  *)
LEMMA MovesOnly ==
  ASSUME NEW d \in Downloads, ExportTypes, NEW s \in DownloadSteps, MovesTo(d, s)
  PROVE  /\ download' \in [Downloads -> DownloadOf] /\ \A c \in Downloads \ {d} : download'[c] = download[c]
         /\ download'[d].step = s /\ download'[d].export = download[d].export
         /\ download'[d].index = download[d].index /\ download'[d].kill = download[d].kill
BY DEF MovesTo, ExportTypes, DownloadOf

(* A step after which no other download, and no other export, is claimed.    *)
LEMMA OwnerStays ==
  ASSUME NEW d \in Downloads, \A c \in Downloads \ {d} : download'[c] = download[c],
         ExportTypes, OwnPlaces, pending' \subseteq pending, made' = made, ran' = ran,
         download'[d].step \in Unpaid \cup Streaming =>
           /\ Claims(d) /\ download'[d].export = download[d].export
           /\ download'[d].step \in Unpaid => download[d].step \in Unpaid
  PROVE  OwnPlaces'
<1>1. \A c \in Downloads : Claims(c)' => /\ Claims(c) /\ JobOf(c)' = JobOf(c)
                                         /\ download'[c].step \in Unpaid => download[c].step \in Unpaid
  BY DEF Claims, JobOf
<1> QED BY <1>1 DEF OwnPlaces, ExportTypes

(* A step takes a slot with its count, gives one back, or does neither.      *)
LEMMA SlotsOf ==
  ASSUME NEW d \in Downloads, \A c \in Downloads \ {d} : download'[c] = download[c], Slots,
         \/ (download[d].step \in WithSlot <=> download'[d].step \in WithSlot) /\ active' = active
         \/ download[d].step \notin WithSlot /\ download'[d].step \in WithSlot /\ active' = active + 1 /\ active < MaxActive
         \/ download[d].step \in WithSlot /\ download'[d].step \notin WithSlot /\ active' = active - 1
  PROVE  Slots'
<1>1. Holders \ {d} = Holders' \ {d} /\ (d \in Holders <=> download[d].step \in WithSlot) /\ (d \in Holders' <=> download'[d].step \in WithSlot)
  BY DEF Holders
<1>2. IsFiniteSet(Holders)
  BY ExportAssumption, FS_Subset DEF Holders
<1>3. /\ (d \in Holders <=> d \in Holders') => Cardinality(Holders') = Cardinality(Holders)
      /\ d \notin Holders /\ d \in Holders' => Cardinality(Holders') = Cardinality(Holders) + 1
      /\ d \in Holders /\ d \notin Holders' => Cardinality(Holders') = Cardinality(Holders) - 1
  BY <1>1, <1>2, OneCounted
<1>4. active' = Cardinality(Holders')
  BY <1>1, <1>3 DEF Slots
<1>5. active' <= MaxActive
  <2>1. Cardinality(Holders) \in Nat /\ MaxActive \in Nat
    BY <1>2, FS_CardinalityType, ExportAssumption
  <2> QED BY <2>1 DEF Slots
<1> QED BY <1>4, <1>5 DEF Slots

(* A download takes away no hook but its own.                                *)
LEMMA FoundStays ==
  ASSUME NEW d \in Downloads, \A c \in Downloads \ {d} : download'[c] = download[c],
         NoneIsMissed, stop' = stop, \A h \in hooks : h \in hooks' \/ h = HookOf(d),
         download'[d].step \in {"connects", "runs"} => Found(d)'
  PROVE  NoneIsMissed'
<1>1. ASSUME NEW c \in Downloads \ {d}, download'[c].step \in {"connects", "runs"} PROVE Found(c)'
  <2>1. Found(c) /\ HookOf(c) # HookOf(d) /\ HookOf(c)' = HookOf(c)
    BY <1>1 DEF NoneIsMissed, HookOf
  <2> QED BY <2>1 DEF Found
<1> QED BY <1>1 DEF NoneIsMissed

(* A download that moves from one step to another, while the store, the      *)
(* hooks and the stop stay.                                                  *)
LEMMA PlainStep ==
  ASSUME NEW d \in Downloads, ExportInv, NEW s \in DownloadSteps, MovesTo(d, s),
         pending' \subseteq pending, made' = made, ran' = ran, stop' = stop,
         \A h \in hooks : h \in hooks' \/ h = HookOf(d),
         s \in Unpaid \cup Streaming => Claims(d),
         s \in Unpaid => download[d].step \in Unpaid,
         s \notin {"connects", "runs"},
         \/ (download[d].step \in WithSlot <=> s \in WithSlot) /\ active' = active
         \/ download[d].step \notin WithSlot /\ s \in WithSlot /\ active' = active + 1 /\ active < MaxActive
         \/ download[d].step \in WithSlot /\ s \notin WithSlot /\ active' = active - 1
  PROVE  ExportInv'
<1>1. ExportTypes /\ OwnPlaces /\ Slots /\ NoneIsMissed
  BY DEF ExportInv
<1>2. /\ download' \in [Downloads -> DownloadOf] /\ \A c \in Downloads \ {d} : download'[c] = download[c]
      /\ download'[d].step = s /\ download'[d].export = download[d].export
  BY <1>1, MovesOnly
<1>3. ExportTypes'
  BY <1>1, <1>2 DEF ExportTypes
<1>4. OwnPlaces'
  BY <1>1, <1>2, OwnerStays
<1>5. Slots'
  BY <1>1, <1>2, SlotsOf
<1>6. NoneIsMissed'
  BY <1>1, <1>2, FoundStays
<1> QED BY <1>3, <1>4, <1>5, <1>6 DEF ExportInv

LEMMA ConsumesJobStep ==
  ASSUME ExportInv, NEW d \in Downloads, Doing(d, "consumes"), JobOf(d) \in pending,
         pending' = pending \ {JobOf(d)}, MovesTo(d, "preflight"), UNCHANGED <<made, active, hooks, stop, ran>>
  PROVE  ExportInv'
<1>1. ExportTypes /\ OwnPlaces /\ Slots /\ NoneIsMissed
  BY DEF ExportInv
<1>2. /\ download' \in [Downloads -> DownloadOf] /\ \A c \in Downloads \ {d} : download'[c] = download[c]
      /\ download'[d].step = "preflight" /\ download'[d].export = download[d].export
  <2>1. "preflight" \in DownloadSteps
    BY DEF DownloadSteps, Refusable
  <2> QED BY <1>1, <2>1, MovesOnly
<1>3. ExportTypes'
  BY <1>1, <1>2 DEF ExportTypes
<1>4. ~Claims(d) /\ JobOf(d)' = JobOf(d)
  BY <1>2 DEF Doing, Claims, Unpaid, Streaming, JobOf
<1>5. \A c \in Downloads \ {d} : (Claims(c)' <=> Claims(c)) /\ JobOf(c)' = JobOf(c)
  BY <1>2 DEF Claims, JobOf
<1>6. OwnPlaces'
  <2>1. JobOf(d) \in ExportIds /\ JobOf(d) \in made /\ ran[JobOf(d)] = {}
    BY <1>1 DEF ExportTypes, OwnPlaces
  <2>2. \A c \in Downloads \ {d} : Claims(c) => JobOf(c) # JobOf(d) /\ JobOf(c) \in made \ pending
    BY <1>1 DEF OwnPlaces
  <2>3. \A c, b \in Downloads : Claims(c)' /\ Claims(b)' /\ JobOf(c)' = JobOf(b)' => c = b
    BY <1>1, <1>4, <1>5, <2>2 DEF OwnPlaces
  <2>4. ASSUME NEW e \in ExportIds, NEW b \in ran[e]
        PROVE  /\ e \in made' \ pending'
               /\ \A c \in Downloads : Claims(c)' /\ JobOf(c)' = e => c = b /\ download'[c].step \notin Unpaid
               /\ \A c \in ran[e] : c = b
    BY <1>1, <1>2, <1>4, <1>5, <2>1, <2>4 DEF OwnPlaces
  <2>5. pending' \subseteq made' /\ \A c \in Downloads : Claims(c)' => JobOf(c)' \in made' \ pending'
    BY <1>1, <1>4, <1>5, <2>1, <2>2 DEF OwnPlaces
  <2> QED BY <2>3, <2>4, <2>5 DEF OwnPlaces
<1>7. Slots'
  <2>1. download[d].step \in WithSlot /\ download'[d].step \in WithSlot
    BY <1>2 DEF Doing, WithSlot
  <2> QED BY <1>1, <1>2, <2>1, SlotsOf
<1>8. NoneIsMissed'
  BY <1>1, <1>2, FoundStays
<1> QED BY <1>3, <1>6, <1>7, <1>8 DEF ExportInv

LEMMA PutsBackStep ==
  ASSUME ExportInv, NEW d \in Downloads, PutsBack(d)
  PROVE  ExportInv'
<1>1. ExportTypes /\ OwnPlaces /\ Slots /\ NoneIsMissed
  BY DEF ExportInv
<1>2. /\ download' \in [Downloads -> DownloadOf] /\ \A c \in Downloads \ {d} : download'[c] = download[c]
      /\ download'[d].step = "over" /\ download'[d].export = download[d].export
  <2>1. "over" \in DownloadSteps
    BY DEF DownloadSteps
  <2> QED BY <1>1, <2>1, MovesOnly DEF PutsBack
<1>3. Claims(d) /\ download[d].step \in Unpaid /\ ~Claims(d)' /\ download[d].step \notin WithSlot /\ download'[d].step \notin WithSlot
  BY <1>2 DEF PutsBack, Doing, Claims, Unpaid, Streaming, WithSlot
<1>4. pending \subseteq pending' /\ pending' \subseteq pending \cup {JobOf(d)} /\ made' = made /\ ran' = ran /\ hooks' = hooks /\ stop' = stop /\ active' = active
  BY DEF PutsBack, PutJob
<1>5. JobOf(d) \in made /\ JobOf(d) \in ExportIds /\ ran[JobOf(d)] = {}
  <2>1. JobOf(d) \in made /\ JobOf(d) \in ExportIds
    BY <1>1, <1>3 DEF OwnPlaces, ExportTypes
  <2> QED BY <1>1, <1>3, <2>1 DEF OwnPlaces
<1>6. ExportTypes'
  BY <1>1, <1>2, <1>4, <1>5 DEF ExportTypes
<1>7. \A c \in Downloads \ {d} : (Claims(c)' <=> Claims(c)) /\ JobOf(c)' = JobOf(c)
  BY <1>2 DEF Claims, JobOf
<1>8. OwnPlaces'
  <2>1. \A c \in Downloads : Claims(c)' => c # d /\ Claims(c) /\ JobOf(c)' = JobOf(c) /\ JobOf(c) # JobOf(d) /\ download'[c] = download[c]
    BY <1>1, <1>2, <1>3, <1>7 DEF OwnPlaces
  <2>2. \A e \in ExportIds : \A b \in ran[e] : e \in made' \ pending'
    BY <1>1, <1>4, <1>5 DEF OwnPlaces
  <2> QED BY <1>1, <1>4, <1>5, <2>1, <2>2 DEF OwnPlaces
<1>9. Slots'
  BY <1>1, <1>2, <1>3, <1>4, SlotsOf
<1>10. NoneIsMissed'
  BY <1>1, <1>2, <1>4, FoundStays
<1> QED BY <1>6, <1>8, <1>9, <1>10 DEF ExportInv

LEMMA AsksStreamStep ==
  ASSUME ExportInv, NEW d \in Downloads, NEW e \in ExportIds, AsksStream(d, e)
  PROVE  ExportInv'
<1>1. ExportTypes /\ OwnPlaces /\ Slots /\ NoneIsMissed
  BY DEF ExportInv
<1>2. /\ download' \in [Downloads -> DownloadOf] /\ \A c \in Downloads \ {d} : download'[c] = download[c]
      /\ download'[d].step = "peeks"
  BY <1>1 DEF AsksStream, ExportTypes, DownloadOf, DownloadSteps, Refusable
<1>3. /\ download[d].step = "new" /\ pending' = pending /\ made' = made /\ active' = active /\ hooks' = hooks /\ stop' = stop /\ ran' = ran
  BY DEF AsksStream, Doing
<1>4. ExportTypes'
  BY <1>1, <1>2, <1>3 DEF ExportTypes
<1>5. OwnPlaces'
  BY <1>1, <1>2, <1>3, OwnerStays DEF Unpaid, Streaming
<1>6. Slots'
  BY <1>1, <1>2, <1>3, SlotsOf DEF WithSlot, Streaming
<1>7. NoneIsMissed'
  BY <1>1, <1>2, <1>3, FoundStays
<1> QED BY <1>4, <1>5, <1>6, <1>7 DEF ExportInv

LEMMA AddsHookStep ==
  ASSUME ExportInv, NEW d \in Downloads, AddsHook(d)
  PROVE  ExportInv'
<1>1. ExportTypes /\ OwnPlaces /\ Slots /\ NoneIsMissed
  BY DEF ExportInv
<1>0. /\ download[d].step = "hook" /\ pending' = pending /\ made' = made /\ active' = active /\ stop' = stop /\ ran' = ran
      /\ hooks \subseteq hooks'
  BY DEF AddsHook, Doing
<1>2. /\ download' \in [Downloads -> DownloadOf] /\ \A c \in Downloads \ {d} : download'[c] = download[c]
      /\ download'[d].step = "connects" /\ download'[d].export = download[d].export /\ download'[d].index = download[d].index
      /\ \/ HookOf(d) \in hooks' /\ stop.step = "up"
         \/ download'[d].kill = "early"
  <2>1. CASE ~ServerStops /\ hooks' = hooks \cup {HookOf(d)} /\ MovesTo(d, "connects")
    <3>1. "connects" \in DownloadSteps
      BY DEF DownloadSteps, Streaming
    <3> QED BY <1>1, <2>1, <3>1, MovesOnly DEF ServerStops
  <2>2. CASE download' = [download EXCEPT ![d].step = "connects", ![d].kill = "early"]
    BY <1>1, <2>2 DEF ExportTypes, DownloadOf, DownloadSteps, Streaming
  <2> QED BY <2>1, <2>2 DEF AddsHook
<1>3. ExportTypes'
  BY <1>0, <1>1, <1>2 DEF ExportTypes
<1>4. OwnPlaces'
  BY <1>0, <1>1, <1>2, OwnerStays DEF Claims, Streaming, Unpaid
<1>5. Slots'
  BY <1>0, <1>1, <1>2, SlotsOf DEF WithSlot, Streaming
<1>6. HookOf(d)' = HookOf(d)
  BY <1>2 DEF HookOf
<1>7. NoneIsMissed'
  <2>1. Found(d)'
    BY <1>0, <1>2, <1>6 DEF Found
  <2> QED BY <1>0, <1>1, <1>2, <2>1, FoundStays
<1> QED BY <1>3, <1>4, <1>5, <1>7 DEF ExportInv

LEMMA ConnectsRunnerStep ==
  ASSUME ExportInv, NEW d \in Downloads, Doing(d, "connects"), MovesTo(d, "runs"), ran' = [ran EXCEPT ![JobOf(d)] = @ \cup {d}],
         UNCHANGED <<pending, made, active, hooks, stop>>
  PROVE  ExportInv'
<1>1. ExportTypes /\ OwnPlaces /\ Slots /\ NoneIsMissed
  BY DEF ExportInv
<1>2. /\ download' \in [Downloads -> DownloadOf] /\ \A c \in Downloads \ {d} : download'[c] = download[c]
      /\ download'[d].step = "runs" /\ download'[d].export = download[d].export
      /\ download'[d].index = download[d].index /\ download'[d].kill = download[d].kill
  <2>1. "runs" \in DownloadSteps
    BY DEF DownloadSteps, Streaming
  <2> QED BY <1>1, <2>1, MovesOnly
<1>3. Claims(d) /\ download[d].step = "connects"
  BY DEF Doing, Claims, Streaming
<1>4. JobOf(d) \in ExportIds /\ JobOf(d) \in made \ pending
  BY <1>1, <1>3 DEF OwnPlaces, ExportTypes
<1>5. \A e \in ExportIds : ran'[e] = IF e = JobOf(d) THEN ran[e] \cup {d} ELSE ran[e]
  BY <1>1 DEF ExportTypes
<1>6. ExportTypes'
  BY <1>1, <1>2, <1>4 DEF ExportTypes
<1>7. \A c \in Downloads : (Claims(c)' <=> Claims(c)) /\ JobOf(c)' = JobOf(c) /\ (download'[c].step \in Unpaid <=> download[c].step \in Unpaid)
  BY <1>2, <1>3 DEF Claims, JobOf, Streaming, Unpaid
<1>8. OwnPlaces'
  <2>1. \A b \in ran[JobOf(d)] : b = d
    BY <1>1, <1>3, <1>4 DEF OwnPlaces
  <2>2. \A c \in Downloads : Claims(c) /\ JobOf(c) = JobOf(d) => c = d /\ download[c].step \notin Unpaid
    BY <1>1, <1>3 DEF OwnPlaces, Unpaid
  <2>3. ASSUME NEW e \in ExportIds, NEW b \in ran'[e]
        PROVE  /\ e \in made \ pending
               /\ \A c \in Downloads : Claims(c) /\ JobOf(c) = e => c = b /\ download[c].step \notin Unpaid
               /\ \A c \in ran'[e] : c = b
    <3>1. CASE e = JobOf(d)
      BY <3>1, <1>4, <1>5, <2>1, <2>2, <2>3
    <3>2. CASE e # JobOf(d)
      BY <3>2, <1>1, <1>5, <2>3 DEF OwnPlaces
    <3> QED BY <3>1, <3>2
  <2> QED BY <1>1, <1>7, <2>3 DEF OwnPlaces
<1>9. Slots'
  BY <1>1, <1>2, <1>3, SlotsOf DEF WithSlot, Streaming
<1>10. NoneIsMissed'
  <2>1. HookOf(d)' = HookOf(d) /\ Found(d)
    BY <1>1, <1>2, <1>3 DEF HookOf, NoneIsMissed
  <2>2. Found(d)'
    BY <1>2, <2>1 DEF Found
  <2> QED BY <1>1, <1>2, <2>2, FoundStays
<1> QED BY <1>6, <1>8, <1>9, <1>10 DEF ExportInv

(* The next statement of an archive: it has a hook of its own.               *)
LEMMA LoggedStep ==
  ASSUME ExportInv, NEW d \in Downloads, Doing(d, "logs"), hooks' = hooks \ {HookOf(d)},
         download' = [download EXCEPT ![d].step = "next", ![d].index = @ + 1, ![d].kill = "none"],
         UNCHANGED <<pending, made, active, stop, ran>>
  PROVE  ExportInv'
<1>1. ExportTypes /\ OwnPlaces /\ Slots /\ NoneIsMissed
  BY DEF ExportInv
<1>0. download[d].step = "logs"
  BY DEF Doing
<1>2. /\ download' \in [Downloads -> DownloadOf] /\ \A c \in Downloads \ {d} : download'[c] = download[c]
      /\ download'[d].step = "next" /\ download'[d].export = download[d].export
  <2>1. download[d] \in DownloadOf /\ download[d].index + 1 \in Nat
    BY <1>1 DEF ExportTypes, DownloadOf
  <2> DEFINE f == [step |-> "next", export |-> download[d].export, index |-> download[d].index + 1, kill |-> "none"]
  <2>2. f \in DownloadOf
    BY <2>1 DEF DownloadOf, DownloadSteps, Streaming
  <2>3. download' = [download EXCEPT ![d] = f]
    BY <1>1, <2>1 DEF ExportTypes, DownloadOf
  <2>4. f.step = "next" /\ f.export = download[d].export
    OBVIOUS
  <2>5. download \in [Downloads -> DownloadOf]
    BY <1>1 DEF ExportTypes
  <2> HIDE DEF f
  <2> QED BY <2>2, <2>3, <2>4, <2>5
<1>3. ExportTypes'
  BY <1>1, <1>2 DEF ExportTypes
<1>4. OwnPlaces'
  BY <1>0, <1>1, <1>2, OwnerStays DEF Claims, Streaming, Unpaid
<1>5. Slots'
  BY <1>0, <1>1, <1>2, SlotsOf DEF WithSlot, Streaming
<1>6. NoneIsMissed'
  BY <1>1, <1>2, FoundStays
<1> QED BY <1>3, <1>4, <1>5, <1>6 DEF ExportInv

LEMMA CallsHookStep ==
  ASSUME ExportInv, CallsHook
  PROVE  ExportInv'
<1>1. ExportTypes /\ OwnPlaces /\ Slots /\ NoneIsMissed
  BY DEF ExportInv
<1>0. stop.step = "calls" /\ UNCHANGED <<pending, made, active, hooks, ran>>
  BY DEF CallsHook
<1>2. CASE stop.todo = {} /\ stop' = [stop EXCEPT !.step = "called"] /\ download' = download
  <2>1. ExportTypes' /\ OwnPlaces' /\ Slots'
    BY <1>0, <1>1, <1>2 DEF ExportTypes, OwnPlaces, Slots, Claims, JobOf, Holders
  <2>2. NoneIsMissed'
    BY <1>0, <1>1, <1>2 DEF NoneIsMissed, Found, HookOf
  <2> QED BY <2>1, <2>2 DEF ExportInv
<1>3. ASSUME NEW h \in stop.todo, stop' = [stop EXCEPT !.todo = @ \ {h}], download' = KillSent(h)
      PROVE  ExportInv'
  <2>1. ASSUME NEW d \in Downloads
        PROVE  /\ download'[d] \in DownloadOf /\ download'[d].step = download[d].step /\ download'[d].export = download[d].export
               /\ download'[d].index = download[d].index
               /\ download[d].kill # "none" => download'[d].kill # "none"
               /\ h = HookOf(d) /\ download[d].step \in {"connects", "runs"} => download'[d].kill # "none"
    <3>1. download[d] \in DownloadOf
      BY <1>1 DEF ExportTypes
    <3> QED BY <1>3, <3>1 DEF KillSent, Doing, DownloadOf
  <2>2. ExportTypes'
    <3>1. download' \in [Downloads -> DownloadOf]
      BY <1>3, <2>1 DEF KillSent
    <3>2. stop' = [step |-> stop'.step, todo |-> stop'.todo]
      BY <1>1, <1>3 DEF ExportTypes
    <3> QED BY <1>0, <1>1, <3>1, <3>2 DEF ExportTypes
  <2>3. OwnPlaces'
    <3>1. \A d \in Downloads : (Claims(d)' <=> Claims(d)) /\ JobOf(d)' = JobOf(d) /\ download'[d].step = download[d].step
      BY <2>1 DEF Claims, JobOf
    <3> QED BY <1>0, <1>1, <3>1 DEF OwnPlaces
  <2>4. Slots'
    <3>1. Holders' = Holders
      BY <2>1 DEF Holders
    <3> QED BY <1>0, <1>1, <3>1 DEF Slots
  <2>5. NoneIsMissed'
    <3>1. ASSUME NEW d \in Downloads, download'[d].step \in {"connects", "runs"} PROVE Found(d)'
      <4>1. download[d].step \in {"connects", "runs"} /\ Found(d) /\ HookOf(d)' = HookOf(d)
        BY <1>1, <2>1, <3>1 DEF NoneIsMissed, HookOf
      <4>2. CASE h = HookOf(d) \/ download[d].kill # "none"
        BY <4>1, <4>2, <2>1 DEF Found
      <4>3. CASE h # HookOf(d) /\ download[d].kill = "none"
        <5>1. HookOf(d) \in stop.todo
          BY <4>1, <4>3, <1>0 DEF Found
        <5>2. HookOf(d) \in stop'.todo /\ stop'.step = "calls"
          <6>1. stop'.step = "calls" /\ stop'.todo = stop.todo \ {h}
            BY <1>0, <1>3, <1>1 DEF ExportTypes
          <6> QED BY <5>1, <4>3, <6>1
        <5> QED BY <4>1, <5>2 DEF Found
      <4> QED BY <4>2, <4>3
    <3> QED BY <3>1 DEF NoneIsMissed
  <2> QED BY <2>2, <2>3, <2>4, <2>5 DEF ExportInv
<1> QED BY <1>2, <1>3 DEF CallsHook

LEMMA ExportInvSteps == ExportInv /\ [ExportsNext]_exportVars => ExportInv'
<1> SUFFICES ASSUME ExportInv, [ExportsNext]_exportVars PROVE ExportInv'
  OBVIOUS
<1>i. ExportTypes /\ OwnPlaces /\ Slots /\ NoneIsMissed
  BY DEF ExportInv
<1>s. DownloadSteps = {"new", "over"} \cup Refusable \cup Streaming
  BY DEF DownloadSteps
<1> USE DEF Refusable, Streaming, Unpaid, WithSlot, Doing
<1>1. ASSUME NEW e \in ExportIds, Handshake(e) PROVE ExportInv'
  <2>1. /\ pending' = pending \cup {e} /\ e \notin made /\ made' = made \cup {e}
        /\ UNCHANGED <<download, active, hooks, stop, ran>>
    BY <1>1 DEF Handshake, PutJob
  <2>2. ExportTypes' /\ Slots' /\ NoneIsMissed'
    BY <1>i, <2>1 DEF ExportTypes, Slots, Holders, NoneIsMissed, Found, HookOf
  <2>3. OwnPlaces'
    BY <1>i, <2>1 DEF OwnPlaces, Claims, JobOf
  <2> QED BY <2>2, <2>3 DEF ExportInv
<1>2. ASSUME NEW e \in ExportIds, JobExpires(e) PROVE ExportInv'
  <2>1. pending' = pending \ {e} /\ UNCHANGED <<made, download, active, hooks, stop, ran>>
    BY <1>2 DEF JobExpires
  <2>2. ExportTypes' /\ Slots' /\ NoneIsMissed'
    BY <1>i, <2>1 DEF ExportTypes, Slots, Holders, NoneIsMissed, Found, HookOf
  <2>3. OwnPlaces'
    BY <1>i, <2>1 DEF OwnPlaces, Claims, JobOf
  <2> QED BY <2>2, <2>3 DEF ExportInv
<1>3. ASSUME NEW d \in Downloads, NEW e \in ExportIds, AsksStream(d, e) PROVE ExportInv'
  BY <1>3, AsksStreamStep
<1>4. ASSUME NEW d \in Downloads, PeeksJob(d) PROVE ExportInv'
  BY <1>4, <1>s, PlainStep DEF PeeksJob
<1>5. ASSUME NEW d \in Downloads, TakesSlot(d) PROVE ExportInv'
  BY <1>5, <1>s, PlainStep DEF TakesSlot
<1>6. ASSUME NEW d \in Downloads, ConsumesJob(d) PROVE ExportInv'
  <2>1. CASE JobOf(d) \in pending /\ pending' = pending \ {JobOf(d)} /\ MovesTo(d, "preflight") /\ UNCHANGED active
    BY <1>6, <2>1, ConsumesJobStep DEF ConsumesJob
  <2>2. CASE active' = active - 1 /\ MovesTo(d, "over") /\ UNCHANGED pending
    BY <1>6, <2>2, <1>s, PlainStep DEF ConsumesJob
  <2> QED BY <1>6, <2>1, <2>2 DEF ConsumesJob
<1>7. ASSUME NEW d \in Downloads, Preflight(d) PROVE ExportInv'
  BY <1>7, <1>s, PlainStep DEF Preflight, Claims
<1>8. ASSUME NEW d \in Downloads, TakesUse(d) PROVE ExportInv'
  BY <1>8, <1>s, PlainStep DEF TakesUse, Claims
<1>9. ASSUME NEW d \in Downloads, PutsBack(d) PROVE ExportInv'
  BY <1>9, PutsBackStep
<1>10. ASSUME NEW d \in Downloads, NextStatement(d) PROVE ExportInv'
  BY <1>10, <1>s, PlainStep DEF NextStatement, Claims
<1>11. ASSUME NEW d \in Downloads, AddsHook(d) PROVE ExportInv'
  BY <1>11, AddsHookStep
<1>12. ASSUME NEW d \in Downloads, ConnectsRunner(d) PROVE ExportInv'
  <2>1. CASE MovesTo(d, "runs") /\ ran' = [ran EXCEPT ![JobOf(d)] = @ \cup {d}]
    BY <1>12, <2>1, ConnectsRunnerStep DEF ConnectsRunner
  <2>2. CASE MovesTo(d, "logs") /\ UNCHANGED ran
    BY <1>12, <2>2, <1>s, PlainStep DEF ConnectsRunner, Claims
  <2> QED BY <1>12, <2>1, <2>2 DEF ConnectsRunner
<1>13. ASSUME NEW d \in Downloads, StatementEnds(d) PROVE ExportInv'
  BY <1>13, <1>s, PlainStep DEF StatementEnds, Claims
<1>14. ASSUME NEW d \in Downloads, Logged(d) PROVE ExportInv'
  <2>1. CASE download' = [download EXCEPT ![d].step = "next", ![d].index = @ + 1, ![d].kill = "none"]
    BY <1>14, <2>1, LoggedStep DEF Logged
  <2>2. CASE MovesTo(d, "closes")
    BY <1>14, <2>2, <1>s, PlainStep DEF Logged, Claims
  <2> QED BY <1>14, <2>1, <2>2 DEF Logged
<1>15. ASSUME NEW d \in Downloads, Disconnects(d) PROVE ExportInv'
  BY <1>15, <1>s, PlainStep DEF Disconnects, Claims
<1>16. ASSUME NEW d \in Downloads, ReleasesSlot(d) PROVE ExportInv'
  BY <1>16, <1>s, PlainStep DEF ReleasesSlot
<1>17. CASE StopBegins \/ CopiesHooks
  <2>1. /\ UNCHANGED <<pending, made, download, active, hooks, ran>>
        /\ stop' = [step |-> stop'.step, todo |-> stop'.todo]
        /\ \/ stop.step = "up" /\ stop'.step = "flagged"
           \/ stop.step = "flagged" /\ stop'.step = "calls" /\ stop'.todo = hooks
    BY <1>17, <1>i DEF StopBegins, CopiesHooks, ExportTypes
  <2>2. ExportTypes' /\ Slots' /\ OwnPlaces'
    BY <1>i, <2>1 DEF ExportTypes, Slots, Holders, OwnPlaces, Claims, JobOf
  <2>3. NoneIsMissed'
    BY <1>i, <2>1 DEF NoneIsMissed, Found, HookOf
  <2> QED BY <2>2, <2>3 DEF ExportInv
<1>18. CASE CallsHook
  BY <1>18, CallsHookStep
<1>19. CASE UNCHANGED exportVars
  BY <1>i, <1>19 DEF exportVars, ExportInv, ExportTypes, Slots, Holders, OwnPlaces, Claims, JobOf, NoneIsMissed, Found, HookOf
<1> QED BY <1>1, <1>2, <1>3, <1>4, <1>5, <1>6, <1>7, <1>8, <1>9, <1>10, <1>11, <1>12, <1>13, <1>14, <1>15, <1>16, <1>17, <1>18, <1>19 DEF ExportsNext

(* OneDownloadPerExport: the SQL of an export runs for one download at most, *)
(* for any number of exports, downloads, statements and places in the store. *)
THEOREM ExportRunsOnce == ExportsSpec => []OneDownloadPerExport
<1>1. ExportInv => OneDownloadPerExport
  <2> SUFFICES ASSUME ExportInv, NEW e \in ExportIds PROVE Cardinality(ran[e]) <= 1
    BY DEF OneDownloadPerExport
  <2>1. CASE ran[e] = {}
    BY <2>1, FS_EmptySet
  <2>2. ASSUME NEW d \in ran[e] PROVE Cardinality(ran[e]) <= 1
    <3>1. ran[e] = {d}
      BY <2>2 DEF ExportInv, OwnPlaces
    <3> QED BY <3>1, FS_Singleton
  <2> QED BY <2>1, <2>2
<1> QED BY <1>1, ExportInvStarts, ExportInvSteps, PTL DEF ExportsSpec

(* SlotsAreCounted: active_exports_ is the number of downloads between the   *)
(* slot and the release, whichever way they end, and within its limit.       *)
THEOREM SlotsComeBack == ExportsSpec => []SlotsAreCounted
<1>1. ExportInv => SlotsAreCounted
  BY DEF ExportInv, Slots, Holders, WithSlot, SlotsAreCounted
<1> QED BY <1>1, ExportInvStarts, ExportInvSteps, PTL DEF ExportsSpec

(* StopMissesNoStatement: whenever a statement adds its hook, the stop calls *)
(* it or the statement was told at once.                                     *)
THEOREM StopFindsEveryStatement == ExportsSpec => []StopMissesNoStatement
<1>1. ExportInv => StopMissesNoStatement
  BY DEF ExportInv, NoneIsMissed, Found, StopMissesNoStatement
<1> QED BY <1>1, ExportInvStarts, ExportInvSteps, PTL DEF ExportsSpec

-----------------------------------------------------------------------------
(* Deep Analyze.                                                             *)

Owes(b)   == {b[i] : i \in 1..Len(b)}
DebtLists == {b \in Seq(Debts) : \A i, j \in 1..Len(b) : b[i] = b[j] => i = j}
WorkSteps == {"new", "start", "place", "group", "hook", "analyses", "gives_back", "over"}
WorkOf    == [step : WorkSteps, run : Replayed \cup {NoRun}, own : BOOLEAN, back : DebtLists]

(* What a thread is: it owes something exactly while it gives back, and the  *)
(* thread of a job leaves the group as its last act.                         *)
Honest(f) ==
  /\ f \in WorkOf
  /\ f.step = "gives_back" <=> f.back # <<>>
  /\ f.step \in Analysing => f.own
  /\ f.step \in {"new"} \cup Requesting => ~f.own
  /\ f.step = "gives_back" /\ f.own => "group" \in Owes(f.back) /\ f.back[Len(f.back)] = "group"

HasJob(f)    == f.step \in {"place", "group", "hook", "analyses"}
HoldsPlace(f) == f.step \in {"group", "hook", "analyses"} \/ "place" \in Owes(f.back)
IsWorker(f)  == f.step \in {"hook", "analyses"} \/ "group" \in Owes(f.back)

Placed  == {p \in Posts : HoldsPlace(work[p])}
Grouped == {p \in Posts : IsWorker(work[p])}

DeepTypes ==
  /\ table \in [running : SUBSET Posts, ended : Nat]
  /\ work \in [Posts -> WorkOf] /\ \A p \in Posts : Honest(work[p])
  /\ jobHooks \subseteq Posts
  /\ server \in [step : {"up", "flagged", "calls", "called", "waits", "destroyed", "exited"}, todo : SUBSET Posts]

(* The table has the jobs that threads have, and one for each run.           *)
OneJobPerRun ==
  /\ \A p \in Posts : HasJob(work[p]) => p \in table.running
  /\ \A p \in table.running : HasJob(work[p]) \/ "discard" \in Owes(work[p].back)
  /\ \A p, q \in table.running : work[p].run = work[q].run => p = q

(* The two counters count, and a hook is there while its job can use it.     *)
Counters ==
  /\ inUse = Cardinality(Placed) /\ workers = Cardinality(Grouped)
  /\ \A p \in jobHooks : work[p].step = "analyses" \/ "unhook" \in Owes(work[p].back)

(* A job that analyses was told of the stop, or still will be.               *)
ToldOfStop(p) ==
  \/ p \in canceled
  \/ p \in jobHooks /\ server.step \in {"up", "flagged"}
  \/ p \in server.todo /\ server.step = "calls"
  \/ server.step = "exited"

Stops ==
  /\ \A p \in Posts : work[p].step = "analyses" => ToldOfStop(p)
  /\ server.step \in {"waits", "destroyed"} => \A p \in Posts : ~InRequest(p)
  /\ server.step = "destroyed" => \A p \in Posts : work[p].step \in {"new", "over"}

DeepInv == DeepTypes /\ OneJobPerRun /\ Counters /\ Stops
-----------------------------------------------------------------------------
(* Lists of debts: none, those that the code makes, and what is left when    *)
(* the first is paid.                                                        *)
LEMMA NoDebts == <<>> \in DebtLists /\ Owes(<<>>) = {}
<1>1. <<>> \in Seq(Debts) /\ Len(<<>>) = 0 /\ (\A i \in 1..Len(<<>>) : FALSE)
  <2>1. Len(<<>>) = 0
    OBVIOUS
  <2> QED BY <2>1
<1> QED BY <1>1 DEF DebtLists, Owes

LEMMA DebtsOf ==
  /\ <<"discard">> \in DebtLists /\ Owes(<<"discard">>) = {"discard"}
  /\ \A b \in {<<"discard", "group", "place">>, <<"place", "group", "discard">>} :
       b \in DebtLists /\ b # <<>> /\ Owes(b) = {"discard", "group", "place"}
  /\ LastDebts \in DebtLists /\ LastDebts # <<>> /\ Owes(LastDebts) = {"unhook", "place", "group"}
  /\ LastDebts[Len(LastDebts)] = "group"
<1>1. \A a, b, c \in Debts : /\ <<a, b, c>> \in Seq(Debts) /\ Len(<<a, b, c>>) = 3
                             /\ <<a, b, c>>[1] = a /\ <<a, b, c>>[2] = b /\ <<a, b, c>>[3] = c
  OBVIOUS
<1>2. 1..3 = {1, 2, 3} /\ 1..1 = {1}
  OBVIOUS
<1>3. ASSUME NEW a \in Debts, NEW b \in Debts, NEW c \in Debts, a # b, b # c, a # c
      PROVE  /\ <<a, b, c>> \in DebtLists /\ <<a, b, c>> # <<>> /\ Owes(<<a, b, c>>) = {a, b, c}
             /\ <<a, b, c>>[Len(<<a, b, c>>)] = c
  <2>1. <<a, b, c>> # <<>>
    OBVIOUS
  <2>2. Owes(<<a, b, c>>) = {a, b, c}
    BY <1>1, <1>2 DEF Owes
  <2>3. <<a, b, c>> \in DebtLists
    BY <1>1, <1>2, <1>3 DEF DebtLists
  <2> QED BY <1>1, <2>1, <2>2, <2>3
<1>4. <<"discard">> \in Seq(Debts) /\ Len(<<"discard">>) = 1 /\ <<"discard">>[1] = "discard"
  BY DEF Debts
<1>5. <<"discard">> \in DebtLists /\ Owes(<<"discard">>) = {"discard"}
  BY <1>2, <1>4 DEF DebtLists, Owes
<1>6. "discard" \in Debts /\ "group" \in Debts /\ "place" \in Debts /\ "unhook" \in Debts
  BY DEF Debts
<1>7. \A b \in {<<"discard", "group", "place">>, <<"place", "group", "discard">>} :
        b \in DebtLists /\ b # <<>> /\ Owes(b) = {"discard", "group", "place"}
  BY <1>3, <1>6
<1>8. /\ LastDebts \in DebtLists /\ LastDebts # <<>> /\ Owes(LastDebts) = {"unhook", "place", "group"}
      /\ LastDebts[Len(LastDebts)] = "group"
  BY <1>3, <1>6 DEF LastDebts
<1> QED BY <1>5, <1>7, <1>8

LEMMA DebtPaid ==
  ASSUME NEW b \in DebtLists, b # <<>>
  PROVE  /\ Tail(b) \in DebtLists /\ Head(b) \in Debts
         /\ Owes(b) = Owes(Tail(b)) \cup {Head(b)} /\ Head(b) \notin Owes(Tail(b))
         /\ Len(b) = 1 <=> Tail(b) = <<>>
         /\ Len(b) # 1 => Tail(b)[Len(Tail(b))] = b[Len(b)]
<1>1. /\ b \in Seq(Debts) /\ Len(b) \in Nat /\ Len(b) > 0 /\ Tail(b) \in Seq(Debts) /\ Len(Tail(b)) = Len(b) - 1
      /\ Head(b) = b[1] /\ \A i \in 1..Len(Tail(b)) : Tail(b)[i] = b[i + 1]
  BY DEF DebtLists
<1>2. \A i, j \in 1..Len(b) : b[i] = b[j] => i = j
  BY DEF DebtLists
<1>3. Tail(b) \in DebtLists
  <2>1. ASSUME NEW i \in 1..Len(Tail(b)), NEW j \in 1..Len(Tail(b)), Tail(b)[i] = Tail(b)[j] PROVE i = j
    <3>1. i + 1 \in 1..Len(b) /\ j + 1 \in 1..Len(b) /\ b[i + 1] = b[j + 1]
      BY <1>1, <2>1
    <3>2. i + 1 = j + 1
      BY <1>2, <3>1
    <3> QED BY <3>2
  <2> QED BY <1>1, <2>1 DEF DebtLists
<1>4. Head(b) \in Debts
  BY <1>1
<1>5. ASSUME NEW d PROVE d \in Owes(b) <=> d \in Owes(Tail(b)) \cup {Head(b)}
  <2>1. ASSUME NEW i \in 1..Len(b), d = b[i] PROVE d \in Owes(Tail(b)) \cup {Head(b)}
    <3>1. CASE i = 1
      BY <3>1, <2>1, <1>1
    <3>2. CASE i # 1
      <4>1. i - 1 \in 1..Len(Tail(b)) /\ Tail(b)[i - 1] = b[i]
        BY <3>2, <1>1
      <4> QED BY <4>1, <2>1 DEF Owes
    <3> QED BY <3>1, <3>2
  <2>2. ASSUME NEW i \in 1..Len(Tail(b)), d = Tail(b)[i] PROVE d \in Owes(b)
    <3>1. i + 1 \in 1..Len(b) /\ d = b[i + 1]
      BY <2>2, <1>1
    <3> QED BY <3>1 DEF Owes
  <2>3. Head(b) \in Owes(b)
    <3>1. 1 \in 1..Len(b)
      BY <1>1
    <3> QED BY <3>1, <1>1 DEF Owes
  <2> QED BY <2>1, <2>2, <2>3 DEF Owes
<1>6. Head(b) \notin Owes(Tail(b))
  <2>1. ASSUME NEW i \in 1..Len(Tail(b)), Head(b) = Tail(b)[i] PROVE FALSE
    <3>1. i + 1 \in 1..Len(b) /\ 1 \in 1..Len(b) /\ b[1] = b[i + 1]
      BY <2>1, <1>1
    <3>2. i + 1 = 1
      BY <1>2, <3>1
    <3> QED BY <3>2
  <2> QED BY <2>1 DEF Owes
<1>7. Len(b) = 1 <=> Tail(b) = <<>>
  BY <1>1
<1>8. Len(b) # 1 => Tail(b)[Len(Tail(b))] = b[Len(b)]
  BY <1>1
<1> QED BY <1>3, <1>4, <1>5, <1>6, <1>7, <1>8

(* The record of a thread with one field changed, and with two.              *)
Stepped(f, s) == [f EXCEPT !.step = s]
AskedFor(f, r) == [f EXCEPT !.run = r]
Started(f)    == [f EXCEPT !.own = TRUE]
Owing(f, b)   == [f EXCEPT !.back = b]

LEMMA Fields ==
  ASSUME NEW f \in WorkOf
  PROVE  /\ \A s \in WorkSteps : /\ Stepped(f, s) \in WorkOf /\ Stepped(f, s).step = s /\ Stepped(f, s).run = f.run
                                 /\ Stepped(f, s).own = f.own /\ Stepped(f, s).back = f.back
         /\ \A r \in Replayed \cup {NoRun} : /\ AskedFor(f, r) \in WorkOf /\ AskedFor(f, r).step = f.step /\ AskedFor(f, r).run = r
                                             /\ AskedFor(f, r).own = f.own /\ AskedFor(f, r).back = f.back
         /\ /\ Started(f) \in WorkOf /\ Started(f).step = f.step /\ Started(f).run = f.run
            /\ Started(f).own /\ Started(f).back = f.back
         /\ \A b \in DebtLists : /\ Owing(f, b) \in WorkOf /\ Owing(f, b).step = f.step /\ Owing(f, b).run = f.run
                                 /\ Owing(f, b).own = f.own /\ Owing(f, b).back = b
BY DEF WorkOf, Stepped, AskedFor, Started, Owing

LEMMA TwoFields ==
  ASSUME NEW f \in WorkOf, NEW s \in WorkSteps
  PROVE  /\ \A r \in Replayed \cup {NoRun} :
              /\ AskedFor(Stepped(f, s), r) \in WorkOf /\ AskedFor(Stepped(f, s), r).step = s /\ AskedFor(Stepped(f, s), r).run = r
              /\ AskedFor(Stepped(f, s), r).own = f.own /\ AskedFor(Stepped(f, s), r).back = f.back
         /\ \A b \in DebtLists :
              /\ Owing(Stepped(f, s), b) \in WorkOf /\ Owing(Stepped(f, s), b).step = s /\ Owing(Stepped(f, s), b).run = f.run
              /\ Owing(Stepped(f, s), b).own = f.own /\ Owing(Stepped(f, s), b).back = b
         /\ /\ Started(Stepped(f, s)) \in WorkOf /\ Started(Stepped(f, s)).step = s /\ Started(Stepped(f, s)).run = f.run
            /\ Started(Stepped(f, s)).own /\ Started(Stepped(f, s)).back = f.back
<1> DEFINE e == Stepped(f, s)
<1>1. e \in WorkOf /\ e.step = s /\ e.run = f.run /\ e.own = f.own /\ e.back = f.back
  BY Fields
<1> HIDE DEF e
<1>2. \A r \in Replayed \cup {NoRun} : /\ AskedFor(e, r) \in WorkOf /\ AskedFor(e, r).step = e.step /\ AskedFor(e, r).run = r
                                      /\ AskedFor(e, r).own = e.own /\ AskedFor(e, r).back = e.back
  BY <1>1, Fields
<1>3. \A b \in DebtLists : /\ Owing(e, b) \in WorkOf /\ Owing(e, b).step = e.step /\ Owing(e, b).run = e.run
                          /\ Owing(e, b).own = e.own /\ Owing(e, b).back = b
  BY <1>1, Fields
<1>4. /\ Started(e) \in WorkOf /\ Started(e).step = e.step /\ Started(e).run = e.run /\ Started(e).own /\ Started(e).back = e.back
  BY <1>1, Fields
<1> QED BY <1>1, <1>2, <1>3, <1>4 DEF e

(* A thread changes each of the two counted sets by itself at most.          *)
LEMMA CountsOf ==
  ASSUME NEW p \in Posts, \A q \in Posts \ {p} : work'[q] = work[q]
  PROVE  /\ (HoldsPlace(work[p]) <=> HoldsPlace(work'[p])) => Cardinality(Placed') = Cardinality(Placed)
         /\ ~HoldsPlace(work[p]) /\ HoldsPlace(work'[p]) => Cardinality(Placed') = Cardinality(Placed) + 1
         /\ HoldsPlace(work[p]) /\ ~HoldsPlace(work'[p]) => Cardinality(Placed') = Cardinality(Placed) - 1
         /\ (IsWorker(work[p]) <=> IsWorker(work'[p])) => Cardinality(Grouped') = Cardinality(Grouped)
         /\ ~IsWorker(work[p]) /\ IsWorker(work'[p]) => Cardinality(Grouped') = Cardinality(Grouped) + 1
         /\ IsWorker(work[p]) /\ ~IsWorker(work'[p]) => Cardinality(Grouped') = Cardinality(Grouped) - 1
<1>1. Placed \ {p} = Placed' \ {p} /\ (p \in Placed <=> HoldsPlace(work[p])) /\ (p \in Placed' <=> HoldsPlace(work'[p]))
  BY DEF Placed
<1>2. Grouped \ {p} = Grouped' \ {p} /\ (p \in Grouped <=> IsWorker(work[p])) /\ (p \in Grouped' <=> IsWorker(work'[p]))
  BY DEF Grouped
<1>3. IsFiniteSet(Placed) /\ IsFiniteSet(Grouped)
  BY DeepAssumption, FS_Subset DEF Placed, Grouped
<1>4. /\ (p \in Placed <=> p \in Placed') => Cardinality(Placed') = Cardinality(Placed)
      /\ p \notin Placed /\ p \in Placed' => Cardinality(Placed') = Cardinality(Placed) + 1
      /\ p \in Placed /\ p \notin Placed' => Cardinality(Placed') = Cardinality(Placed) - 1
  BY <1>1, <1>3, OneCounted
<1>5. /\ (p \in Grouped <=> p \in Grouped') => Cardinality(Grouped') = Cardinality(Grouped)
      /\ p \notin Grouped /\ p \in Grouped' => Cardinality(Grouped') = Cardinality(Grouped) + 1
      /\ p \in Grouped /\ p \notin Grouped' => Cardinality(Grouped') = Cardinality(Grouped) - 1
  BY <1>2, <1>3, OneCounted
<1> QED BY <1>1, <1>2, <1>4, <1>5

(* A thread leaves the table as it is, or takes its own job out of it.       *)
LEMMA TableOf ==
  ASSUME NEW p \in Posts, \A q \in Posts \ {p} : work'[q] = work[q],
         OneJobPerRun, table.running \subseteq Posts,
         table'.running \subseteq table.running, table.running \ {p} \subseteq table'.running,
         HasJob(work'[p]) => p \in table'.running,
         p \in table'.running => /\ HasJob(work'[p]) \/ "discard" \in Owes(work'[p].back)
                                 /\ work'[p].run = work[p].run
  PROVE  OneJobPerRun'
<1>1. \A q \in table'.running : work'[q].run = work[q].run
  OBVIOUS
<1>2. \A q \in Posts : HasJob(work'[q]) => q \in table'.running
  BY DEF OneJobPerRun
<1>3. \A q \in table'.running : HasJob(work'[q]) \/ "discard" \in Owes(work'[q].back)
  BY DEF OneJobPerRun
<1>4. \A q, s \in table'.running : work'[q].run = work'[s].run => q = s
  BY <1>1 DEF OneJobPerRun
<1> QED BY <1>2, <1>3, <1>4 DEF OneJobPerRun

(* A thread of a job that the stop has told, or will tell, whatever the      *)
(* others do.                                                                *)
LEMMA StopsOf ==
  ASSUME NEW p \in Posts, \A q \in Posts \ {p} : work'[q] = work[q],
         Stops, server' = server,
         canceled \ {p} \subseteq canceled', jobHooks \ {p} \subseteq jobHooks',
         work'[p].step = "analyses" => ToldOfStop(p)',
         server.step \in {"waits", "destroyed"} => ~InRequest(p)',
         server.step = "destroyed" => work'[p].step \in {"new", "over"}
  PROVE  Stops'
<1>1. ASSUME NEW q \in Posts, work'[q].step = "analyses" PROVE ToldOfStop(q)'
  <2>1. CASE q = p
    BY <2>1, <1>1
  <2>2. CASE q # p
    <3>1. ToldOfStop(q)
      BY <2>2, <1>1 DEF Stops
    <3> QED BY <3>1, <2>2 DEF ToldOfStop
  <2> QED BY <2>1, <2>2
<1>2. ASSUME server.step \in {"waits", "destroyed"}, NEW q \in Posts PROVE ~InRequest(q)'
  BY <1>2 DEF Stops, InRequest
<1>3. ASSUME server.step = "destroyed", NEW q \in Posts PROVE work'[q].step \in {"new", "over"}
  BY <1>3 DEF Stops
<1> QED BY <1>1, <1>2, <1>3 DEF Stops

-----------------------------------------------------------------------------
LEMMA DeepInvStarts == DeepInit => DeepInv
<1> SUFFICES ASSUME DeepInit PROVE DeepInv
  OBVIOUS
<1>1. \A p \in Posts : work[p] = [step |-> "new", run |-> NoRun, own |-> FALSE, back |-> <<>>]
  BY DEF DeepInit
<1>2. /\ table = [running |-> {}, ended |-> 0] /\ inUse = 0 /\ workers = 0 /\ jobHooks = {}
      /\ server = [step |-> "up", todo |-> {}] /\ work = [p \in Posts |-> [step |-> "new", run |-> NoRun, own |-> FALSE, back |-> <<>>]]
  BY DEF DeepInit
<1>3. [step |-> "new", run |-> NoRun, own |-> FALSE, back |-> <<>>] \in WorkOf
  BY NoDebts DEF WorkOf, WorkSteps
<1>4. DeepTypes
  BY <1>1, <1>2, <1>3 DEF DeepTypes, Honest, Analysing
<1>5. OneJobPerRun
  BY <1>1, <1>2 DEF OneJobPerRun, HasJob
<1>6. Placed = {} /\ Grouped = {}
  BY <1>1, NoDebts DEF Placed, Grouped, HoldsPlace, IsWorker
<1>7. Counters
  BY <1>2, <1>6, FS_EmptySet DEF Counters
<1>8. Stops
  BY <1>1, <1>2 DEF Stops, ToldOfStop
<1> QED BY <1>4, <1>5, <1>7, <1>8 DEF DeepInv

(* What an action of p leaves of the invariant when it only moves the record *)
(* of p: the parts that are about the other threads.                         *)
LEMMA TypesOf ==
  ASSUME NEW p \in Posts, DeepTypes, server' = server, jobHooks' \subseteq Posts,
         table' \in [running : SUBSET Posts, ended : Nat],
         NEW f \in WorkOf, work' = [work EXCEPT ![p] = f], Honest(f)
  PROVE  DeepTypes' /\ work'[p] = f /\ \A q \in Posts \ {p} : work'[q] = work[q]
<1>1. work' \in [Posts -> WorkOf] /\ work'[p] = f /\ \A q \in Posts \ {p} : work'[q] = work[q]
  BY DEF DeepTypes
<1>2. \A q \in Posts : Honest(work'[q])
  BY <1>1 DEF DeepTypes
<1> QED BY <1>1, <1>2 DEF DeepTypes

LEMMA AsksStep ==
  ASSUME DeepInv, NEW p \in Posts, NEW r \in Replayed, AsksAnalysis(p, r)
  PROVE  DeepInv'
<1> DEFINE f == AskedFor(Stepped(work[p], "start"), r)
<1>i. DeepTypes /\ OneJobPerRun /\ Counters /\ Stops
  BY DEF DeepInv
<1>0. work[p] \in WorkOf /\ Honest(work[p])
  BY <1>i DEF DeepTypes
<1>1. f \in WorkOf /\ f.step = "start" /\ f.run = r /\ f.own = work[p].own /\ f.back = work[p].back
  <2>1. "start" \in WorkSteps /\ r \in Replayed \cup {NoRun}
    BY DEF WorkSteps
  <2> QED BY <1>0, <2>1, TwoFields
<1>2. work' = [work EXCEPT ![p] = f]
  BY <1>i DEF AsksAnalysis, DeepTypes, AskedFor, Stepped
<1> HIDE DEF f
<1>3. /\ work[p].step = "new" /\ server.step = "up" /\ server' = server /\ table' = table /\ canceled' = canceled
      /\ inUse' = inUse /\ workers' = workers /\ jobHooks' = jobHooks
  BY DEF AsksAnalysis, IsAt, StopFlag
<1>4. Honest(f) /\ work[p].back = <<>> /\ f.back = <<>>
  BY <1>0, <1>1, <1>3 DEF Honest, Analysing, Requesting
<1>5. DeepTypes' /\ work'[p] = f /\ \A q \in Posts \ {p} : work'[q] = work[q]
  BY <1>i, <1>1, <1>2, <1>3, <1>4, TypesOf DEF DeepTypes
<1>6. p \notin table.running
  BY <1>i, <1>3, <1>4, NoDebts DEF OneJobPerRun, HasJob
<1>7. OneJobPerRun'
  <2>1. ~HasJob(f) /\ table.running \subseteq Posts
    BY <1>i, <1>1 DEF HasJob, DeepTypes
  <2> QED BY <1>i, <1>3, <1>5, <1>6, <2>1, TableOf
<1>8. Counters'
  <2>1. ~HoldsPlace(work[p]) /\ ~HoldsPlace(f) /\ ~IsWorker(work[p]) /\ ~IsWorker(f)
    BY <1>1, <1>3, <1>4, NoDebts DEF HoldsPlace, IsWorker
  <2>2. Cardinality(Placed') = Cardinality(Placed) /\ Cardinality(Grouped') = Cardinality(Grouped)
    BY <1>5, <2>1, CountsOf
  <2>3. p \notin jobHooks
    BY <1>i, <1>3, <1>4, NoDebts DEF Counters
  <2> QED BY <1>i, <1>3, <1>5, <2>2, <2>3 DEF Counters, DeepTypes
<1>9. Stops'
  BY <1>i, <1>1, <1>3, <1>5, StopsOf
<1> QED BY <1>5, <1>7, <1>8, <1>9 DEF DeepInv

LEMMA StartJobStep ==
  ASSUME DeepInv, NEW p \in Posts, StartJob(p)
  PROVE  DeepInv'
<1>i. DeepTypes /\ OneJobPerRun /\ Counters /\ Stops
  BY DEF DeepInv
<1>0. work[p] \in WorkOf /\ Honest(work[p]) /\ table \in [running : SUBSET Posts, ended : Nat]
  BY <1>i DEF DeepTypes
<1>1. /\ work[p].step = "start" /\ server' = server /\ canceled' = canceled /\ inUse' = inUse /\ workers' = workers
      /\ jobHooks' = jobHooks /\ jobHooks \subseteq Posts
  BY <1>i DEF StartJob, IsAt, DeepTypes
<1>2. work[p].back = <<>> /\ ~work[p].own
  BY <1>0, <1>1 DEF Honest, Requesting
<1>3. p \notin table.running /\ p \notin jobHooks
  BY <1>i, <1>1, <1>2, NoDebts DEF OneJobPerRun, Counters, HasJob
<1>4. server.step \notin {"waits", "destroyed"}
  BY <1>i, <1>1 DEF Stops, InRequest, Requesting
<1>5. ASSUME NEW f \in WorkOf, f.back = <<>>, f.step \in {"over", "place"}, work' = [work EXCEPT ![p] = f], ~f.own,
             table' \in [running : SUBSET Posts, ended : Nat]
      PROVE  /\ DeepTypes' /\ work'[p] = f /\ \A q \in Posts \ {p} : work'[q] = work[q]
             /\ Counters' /\ Stops'
  <2>1. Honest(f)
    BY <1>5 DEF Honest, Analysing
  <2>2. DeepTypes' /\ work'[p] = f /\ \A q \in Posts \ {p} : work'[q] = work[q]
    BY <1>i, <1>1, <1>5, <2>1, TypesOf
  <2>3. ~HoldsPlace(work[p]) /\ ~HoldsPlace(f) /\ ~IsWorker(work[p]) /\ ~IsWorker(f)
    BY <1>1, <1>2, <1>5, NoDebts DEF HoldsPlace, IsWorker
  <2>4. Cardinality(Placed') = Cardinality(Placed) /\ Cardinality(Grouped') = Cardinality(Grouped)
    BY <2>2, <2>3, CountsOf
  <2>5. Counters'
    BY <1>i, <1>1, <1>3, <2>2, <2>4 DEF Counters, DeepTypes
  <2>6. Stops'
    BY <1>i, <1>1, <1>4, <1>5, <2>2, StopsOf
  <2> QED BY <2>2, <2>5, <2>6
<1>6. CASE table' \in Pruned(table) /\ work' = [work EXCEPT ![p].step = "over", ![p].run = NoRun]
  <2> DEFINE f == AskedFor(Stepped(work[p], "over"), NoRun)
  <2>1. f \in WorkOf /\ f.step = "over" /\ f.run = NoRun /\ f.own = work[p].own /\ f.back = work[p].back
    <3>1. "over" \in WorkSteps /\ NoRun \in Replayed \cup {NoRun}
      BY DEF WorkSteps
    <3> QED BY <1>0, <3>1, TwoFields
  <2>2. work' = [work EXCEPT ![p] = f]
    BY <1>i, <1>6 DEF DeepTypes, AskedFor, Stepped
  <2> HIDE DEF f
  <2>3. table' \in [running : SUBSET Posts, ended : Nat] /\ table'.running = table.running
    BY <1>0, <1>6 DEF Pruned
  <2>4. /\ DeepTypes' /\ work'[p] = f /\ \A q \in Posts \ {p} : work'[q] = work[q]
        /\ Counters' /\ Stops'
    BY <1>2, <1>5, <2>1, <2>2, <2>3
  <2>5. OneJobPerRun'
    <3>1. ~HasJob(f) /\ table.running \subseteq Posts
      BY <1>0, <2>1 DEF HasJob
    <3> QED BY <1>i, <1>3, <2>3, <2>4, <3>1, TableOf
  <2> QED BY <2>4, <2>5 DEF DeepInv
<1>7. CASE /\ SameRun(p) = {}
           /\ \E ended \in RoomMade(table.running, table.ended) : table' = [running |-> table.running \cup {p}, ended |-> ended]
           /\ Proceeds(p, "place")
  <2> DEFINE f == Stepped(work[p], "place")
  <2>1. f \in WorkOf /\ f.step = "place" /\ f.run = work[p].run /\ f.own = work[p].own /\ f.back = work[p].back
    <3>1. "place" \in WorkSteps
      BY DEF WorkSteps
    <3> QED BY <1>0, <3>1, Fields
  <2>2. work' = [work EXCEPT ![p] = f]
    BY <1>i, <1>7 DEF Proceeds, Stepped
  <2> HIDE DEF f
  <2>3. table' \in [running : SUBSET Posts, ended : Nat] /\ table'.running = table.running \cup {p}
    <3>1. PICK ended \in RoomMade(table.running, table.ended) : table' = [running |-> table.running \cup {p}, ended |-> ended]
      BY <1>7
    <3>2. ended \in Nat
      BY <1>0 DEF RoomMade
    <3> QED BY <1>0, <3>1, <3>2
  <2>4. /\ DeepTypes' /\ work'[p] = f /\ \A q \in Posts \ {p} : work'[q] = work[q]
        /\ Counters' /\ Stops'
    BY <1>2, <1>5, <2>1, <2>2, <2>3
  <2>5. \A j \in table.running : work[j].run # work[p].run
    BY <1>7 DEF SameRun, RunOf
  <2>6. OneJobPerRun'
    <3>1. \A q \in Posts : HasJob(work'[q]) => q \in table'.running
      BY <1>i, <2>3, <2>4 DEF OneJobPerRun
    <3>2. \A q \in table'.running : HasJob(work'[q]) \/ "discard" \in Owes(work'[q].back)
      <4>1. HasJob(f) /\ table.running \subseteq Posts
        BY <1>0, <2>1 DEF HasJob
      <4> QED BY <1>i, <1>3, <2>3, <2>4, <4>1 DEF OneJobPerRun
    <3>3. \A q \in table'.running : work'[q].run = work[q].run
      BY <1>0, <2>1, <2>3, <2>4
    <3>4. \A q, s \in table'.running : work[q].run = work[s].run => q = s
      BY <1>i, <2>3, <2>5 DEF OneJobPerRun
    <3> QED BY <3>1, <3>2, <3>3, <3>4 DEF OneJobPerRun
  <2> QED BY <2>4, <2>6 DEF DeepInv
<1> QED BY <1>6, <1>7 DEF StartJob

(* A step after which the job is in the table as before.                     *)
LEMMA KeepsJob ==
  ASSUME DeepInv, NEW p \in Posts, NEW f \in WorkOf, work' = [work EXCEPT ![p] = f], Honest(f), f.run = work[p].run,
         table' = table, server' = server, jobHooks' \subseteq Posts,
         HasJob(work[p]), HasJob(f) \/ "discard" \in Owes(f.back)
  PROVE  DeepTypes' /\ OneJobPerRun' /\ work'[p] = f /\ \A q \in Posts \ {p} : work'[q] = work[q]
<1>1. DeepTypes /\ OneJobPerRun /\ table \in [running : SUBSET Posts, ended : Nat]
  BY DEF DeepInv, DeepTypes
<1>2. DeepTypes' /\ work'[p] = f /\ \A q \in Posts \ {p} : work'[q] = work[q]
  BY <1>1, TypesOf
<1>3. p \in table.running
  BY <1>1 DEF OneJobPerRun
<1>4. OneJobPerRun'
  BY <1>1, <1>2, <1>3, TableOf
<1> QED BY <1>2, <1>4

LEMMA AdmitsStep ==
  ASSUME DeepInv, NEW p \in Posts, Admits(p)
  PROVE  DeepInv'
<1>i. DeepTypes /\ OneJobPerRun /\ Counters /\ Stops
  BY DEF DeepInv
<1>0. work[p] \in WorkOf /\ Honest(work[p])
  BY <1>i DEF DeepTypes
<1>1. /\ work[p].step = "place" /\ server' = server /\ canceled' = canceled /\ table' = table /\ workers' = workers
      /\ jobHooks' = jobHooks /\ jobHooks \subseteq Posts
  BY <1>i DEF Admits, IsAt, DeepTypes
<1>2. work[p].back = <<>> /\ ~work[p].own /\ HasJob(work[p])
  BY <1>0, <1>1 DEF Honest, Requesting, HasJob
<1>3. server.step \notin {"waits", "destroyed"} /\ p \notin jobHooks
  BY <1>i, <1>1, <1>2, NoDebts DEF Stops, Counters, InRequest, Requesting
<1>4. ~HoldsPlace(work[p]) /\ ~IsWorker(work[p])
  BY <1>1, <1>2, NoDebts DEF HoldsPlace, IsWorker
<1>5. CASE inUse' = inUse + 1 /\ Proceeds(p, "group")
  <2> DEFINE f == Stepped(work[p], "group")
  <2>1. f \in WorkOf /\ f.step = "group" /\ f.run = work[p].run /\ f.own = work[p].own /\ f.back = work[p].back
    <3>1. "group" \in WorkSteps
      BY DEF WorkSteps
    <3> QED BY <1>0, <3>1, Fields
  <2>2. work' = [work EXCEPT ![p] = f]
    BY <1>i, <1>5 DEF Proceeds, Stepped
  <2> HIDE DEF f
  <2>3. Honest(f) /\ HasJob(f) /\ HoldsPlace(f) /\ ~IsWorker(f)
    BY <1>2, <2>1, NoDebts DEF Honest, HasJob, HoldsPlace, IsWorker, Analysing
  <2>4. DeepTypes' /\ OneJobPerRun' /\ work'[p] = f /\ \A q \in Posts \ {p} : work'[q] = work[q]
    BY <1>1, <1>2, <2>1, <2>2, <2>3, KeepsJob
  <2>5. Cardinality(Placed') = Cardinality(Placed) + 1 /\ Cardinality(Grouped') = Cardinality(Grouped)
    BY <1>4, <2>3, <2>4, CountsOf
  <2>6. Counters'
    BY <1>i, <1>1, <1>3, <1>5, <2>4, <2>5 DEF Counters, DeepTypes
  <2>7. Stops'
    BY <1>i, <1>1, <1>3, <2>1, <2>4, StopsOf
  <2> QED BY <2>4, <2>6, <2>7 DEF DeepInv
<1>6. CASE inUse' = inUse /\ GivesBack(p, <<"discard">>)
  <2> DEFINE f == Owing(Stepped(work[p], "gives_back"), <<"discard">>)
  <2>1. f \in WorkOf /\ f.step = "gives_back" /\ f.run = work[p].run /\ f.own = work[p].own /\ f.back = <<"discard">>
    <3>1. "gives_back" \in WorkSteps
      BY DEF WorkSteps
    <3>2. <<"discard">> \in DebtLists
      BY DebtsOf
    <3> QED BY <1>0, <3>1, <3>2, TwoFields
  <2>2. work' = [work EXCEPT ![p] = f]
    BY <1>i, <1>6 DEF GivesBack, DeepTypes, Owing, Stepped
  <2> HIDE DEF f
  <2>3. f.back # <<>> /\ Owes(f.back) = {"discard"}
    BY <2>1, DebtsOf
  <2>4. Honest(f) /\ ~HoldsPlace(f) /\ ~IsWorker(f)
    BY <1>2, <2>1, <2>3 DEF Honest, HoldsPlace, IsWorker, Analysing, Requesting
  <2>5. DeepTypes' /\ OneJobPerRun' /\ work'[p] = f /\ \A q \in Posts \ {p} : work'[q] = work[q]
    BY <1>1, <1>2, <2>1, <2>2, <2>3, <2>4, KeepsJob
  <2>6. Cardinality(Placed') = Cardinality(Placed) /\ Cardinality(Grouped') = Cardinality(Grouped)
    BY <1>4, <2>4, <2>5, CountsOf
  <2>7. Counters'
    BY <1>i, <1>1, <1>3, <1>6, <2>5, <2>6 DEF Counters, DeepTypes
  <2>8. Stops'
    BY <1>i, <1>1, <1>3, <2>1, <2>5, StopsOf
  <2> QED BY <2>5, <2>7, <2>8 DEF DeepInv
<1> QED BY <1>5, <1>6 DEF Admits

LEMMA StartsThreadStep ==
  ASSUME DeepInv, NEW p \in Posts, StartsThread(p)
  PROVE  DeepInv'
<1>i. DeepTypes /\ OneJobPerRun /\ Counters /\ Stops
  BY DEF DeepInv
<1>0. work[p] \in WorkOf /\ Honest(work[p])
  BY <1>i DEF DeepTypes
<1>1. /\ work[p].step = "group" /\ server' = server /\ canceled' = canceled /\ table' = table /\ workers' = workers + 1
      /\ inUse' = inUse /\ jobHooks' = jobHooks /\ jobHooks \subseteq Posts
  BY <1>i DEF StartsThread, IsAt, DeepTypes
<1>2. work[p].back = <<>> /\ ~work[p].own /\ HasJob(work[p])
  BY <1>0, <1>1 DEF Honest, Requesting, HasJob
<1>3. server.step \notin {"waits", "destroyed"} /\ p \notin jobHooks
  BY <1>i, <1>1, <1>2, NoDebts DEF Stops, Counters, InRequest, Requesting
<1>4. HoldsPlace(work[p]) /\ ~IsWorker(work[p])
  BY <1>1, <1>2, NoDebts DEF HoldsPlace, IsWorker
<1>5. ASSUME NEW f \in WorkOf, f.run = work[p].run, f.step \in {"hook", "gives_back"}, work' = [work EXCEPT ![p] = f],
             Honest(f), HoldsPlace(f), IsWorker(f), HasJob(f) \/ "discard" \in Owes(f.back)
      PROVE  DeepInv'
  <2>1. DeepTypes' /\ OneJobPerRun' /\ work'[p] = f /\ \A q \in Posts \ {p} : work'[q] = work[q]
    BY <1>1, <1>2, <1>5, KeepsJob
  <2>2. Cardinality(Placed') = Cardinality(Placed) /\ Cardinality(Grouped') = Cardinality(Grouped) + 1
    BY <1>4, <1>5, <2>1, CountsOf
  <2>3. Counters'
    BY <1>i, <1>1, <1>3, <2>1, <2>2 DEF Counters, DeepTypes
  <2>4. Stops'
    BY <1>i, <1>1, <1>3, <1>5, <2>1, StopsOf
  <2> QED BY <2>1, <2>3, <2>4 DEF DeepInv
<1>6. CASE work' = [work EXCEPT ![p].step = "hook", ![p].own = TRUE]
  <2> DEFINE f == Started(Stepped(work[p], "hook"))
  <2>1. f \in WorkOf /\ f.step = "hook" /\ f.run = work[p].run /\ f.own /\ f.back = work[p].back
    <3>1. "hook" \in WorkSteps
      BY DEF WorkSteps
    <3> QED BY <1>0, <3>1, TwoFields
  <2>2. work' = [work EXCEPT ![p] = f]
    BY <1>i, <1>6 DEF DeepTypes, Started, Stepped
  <2> HIDE DEF f
  <2>3. Honest(f) /\ HoldsPlace(f) /\ IsWorker(f) /\ HasJob(f)
    BY <1>2, <2>1 DEF Honest, HoldsPlace, IsWorker, HasJob, Requesting
  <2> QED BY <1>5, <2>1, <2>2, <2>3
<1>7. ASSUME NEW b \in {<<"discard", "group", "place">>, <<"place", "group", "discard">>}, GivesBack(p, b)
      PROVE  DeepInv'
  <2> DEFINE f == Owing(Stepped(work[p], "gives_back"), b)
  <2>0. b \in DebtLists /\ b # <<>> /\ Owes(b) = {"discard", "group", "place"}
    BY DebtsOf
  <2>1. f \in WorkOf /\ f.step = "gives_back" /\ f.run = work[p].run /\ f.own = work[p].own /\ f.back = b
    <3>1. "gives_back" \in WorkSteps
      BY DEF WorkSteps
    <3> QED BY <1>0, <2>0, <3>1, TwoFields
  <2>2. work' = [work EXCEPT ![p] = f]
    BY <1>i, <1>7 DEF GivesBack, DeepTypes, Owing, Stepped
  <2> HIDE DEF f
  <2>3. Honest(f) /\ HoldsPlace(f) /\ IsWorker(f) /\ "discard" \in Owes(f.back)
    BY <1>2, <2>0, <2>1 DEF Honest, HoldsPlace, IsWorker, Analysing
  <2> QED BY <1>5, <2>1, <2>2, <2>3
<1> QED BY <1>6, <1>7 DEF StartsThread

LEMMA AddsJobHookStep ==
  ASSUME DeepInv, NEW p \in Posts, AddsJobHook(p)
  PROVE  DeepInv'
<1> DEFINE f == Stepped(work[p], "analyses")
<1>i. DeepTypes /\ OneJobPerRun /\ Counters /\ Stops
  BY DEF DeepInv
<1>0. work[p] \in WorkOf /\ Honest(work[p]) /\ jobHooks \subseteq Posts /\ server.step \in {"up", "flagged", "calls", "called", "waits", "destroyed", "exited"}
  BY <1>i DEF DeepTypes
<1>1. /\ work[p].step = "hook" /\ server' = server /\ table' = table /\ workers' = workers /\ inUse' = inUse
      /\ \/ server.step # "up" /\ canceled' = canceled \cup {p} /\ jobHooks' = jobHooks
         \/ server.step = "up" /\ jobHooks' = jobHooks \cup {p} /\ canceled' = canceled
  BY DEF AddsJobHook, IsAt, StopFlag
<1>2. work[p].back = <<>> /\ work[p].own /\ HasJob(work[p])
  BY <1>0, <1>1 DEF Honest, Analysing, HasJob
<1>3. server.step # "destroyed"
  BY <1>i, <1>1 DEF Stops
<1>4. f \in WorkOf /\ f.step = "analyses" /\ f.run = work[p].run /\ f.own = work[p].own /\ f.back = work[p].back
  <2>1. "analyses" \in WorkSteps
    BY DEF WorkSteps
  <2> QED BY <1>0, <2>1, Fields
<1>5. work' = [work EXCEPT ![p] = f]
  BY <1>i DEF AddsJobHook, Proceeds, Stepped
<1> HIDE DEF f
<1>6. Honest(f) /\ HasJob(f) /\ HoldsPlace(f) /\ IsWorker(f) /\ HoldsPlace(work[p]) /\ IsWorker(work[p])
  BY <1>1, <1>2, <1>4 DEF Honest, HasJob, HoldsPlace, IsWorker, Requesting
<1>7. jobHooks' \subseteq Posts
  BY <1>0, <1>1
<1>8. DeepTypes' /\ OneJobPerRun' /\ work'[p] = f /\ \A q \in Posts \ {p} : work'[q] = work[q]
  BY <1>1, <1>2, <1>4, <1>5, <1>6, <1>7, KeepsJob
<1>9. Cardinality(Placed') = Cardinality(Placed) /\ Cardinality(Grouped') = Cardinality(Grouped)
  BY <1>6, <1>8, CountsOf
<1>10. Counters'
  <2>1. \A q \in jobHooks' : work'[q].step = "analyses" \/ "unhook" \in Owes(work'[q].back)
    BY <1>i, <1>0, <1>1, <1>4, <1>8 DEF Counters
  <2> QED BY <1>i, <1>1, <1>9, <2>1 DEF Counters
<1>11. Stops'
  <2>1. ToldOfStop(p)'
    BY <1>1 DEF ToldOfStop
  <2>2. ~InRequest(p)'
    BY <1>4, <1>8 DEF InRequest, Requesting
  <2> QED BY <1>i, <1>1, <1>3, <1>8, <2>1, <2>2, StopsOf
<1> QED BY <1>8, <1>10, <1>11 DEF DeepInv

LEMMA EndsJobStep ==
  ASSUME DeepInv, NEW p \in Posts, EndsJob(p)
  PROVE  DeepInv'
<1> DEFINE f == Owing(Stepped(work[p], "gives_back"), LastDebts)
<1>i. DeepTypes /\ OneJobPerRun /\ Counters /\ Stops
  BY DEF DeepInv
<1>0. work[p] \in WorkOf /\ Honest(work[p]) /\ table \in [running : SUBSET Posts, ended : Nat] /\ jobHooks \subseteq Posts
  BY <1>i DEF DeepTypes
<1>1. /\ work[p].step = "analyses" /\ server' = server /\ inUse' = inUse /\ workers' = workers /\ jobHooks' = jobHooks
      /\ canceled' = canceled \ {p}
  BY DEF EndsJob, IsAt
<1>2. work[p].back = <<>> /\ work[p].own
  BY <1>0, <1>1 DEF Honest, Analysing
<1>3. server.step # "destroyed"
  BY <1>i, <1>1 DEF Stops
<1>d. LastDebts \in DebtLists /\ LastDebts # <<>> /\ Owes(LastDebts) = {"unhook", "place", "group"} /\ LastDebts[Len(LastDebts)] = "group"
  BY DebtsOf
<1>4. f \in WorkOf /\ f.step = "gives_back" /\ f.run = work[p].run /\ f.own = work[p].own /\ f.back = LastDebts
  <2>1. "gives_back" \in WorkSteps
    BY DEF WorkSteps
  <2> QED BY <1>0, <1>d, <2>1, TwoFields
<1>5. work' = [work EXCEPT ![p] = f]
  BY <1>i DEF EndsJob, GivesBack, DeepTypes, Owing, Stepped
<1> HIDE DEF f
<1>6. Honest(f) /\ ~HasJob(f) /\ HoldsPlace(f) /\ IsWorker(f) /\ HoldsPlace(work[p]) /\ IsWorker(work[p])
  BY <1>1, <1>2, <1>4, <1>d DEF Honest, HasJob, HoldsPlace, IsWorker, Requesting, Analysing
<1>7. table' \in [running : SUBSET Posts, ended : Nat] /\ table'.running = table.running \ {p}
  <2>1. Cardinality(table.running \cap {p}) \in Nat
    <3>1. IsFiniteSet(table.running \cap {p})
      BY <1>0, DeepAssumption, FS_Subset
    <3> QED BY <3>1, FS_CardinalityType
  <2>2. ASSUME NEW n \in Nat, table' = [running |-> table.running \ {p}, ended |-> n + Cardinality(table.running \cap {p})]
        PROVE  table' \in [running : SUBSET Posts, ended : Nat] /\ table'.running = table.running \ {p}
    BY <1>0, <2>1, <2>2
  <2>3. \E n \in Nat : table' = [running |-> table.running \ {p}, ended |-> n + Cardinality(table.running \cap {p})]
    <3>1. table.ended \in Nat
      BY <1>0
    <3>2. CASE \E ended \in RoomMade(table.running \ {p}, table.ended) :
                 table' = [running |-> table.running \ {p}, ended |-> ended + Cardinality(table.running \cap {p})]
      <4>1. \A n \in RoomMade(table.running \ {p}, table.ended) : n \in Nat
        BY <3>1 DEF RoomMade
      <4> QED BY <3>2, <4>1
    <3>3. CASE table' = [running |-> table.running \ {p}, ended |-> table.ended + Cardinality(table.running \cap {p})]
      BY <3>1, <3>3
    <3> QED BY <3>2, <3>3 DEF EndsJob
  <2> QED BY <2>2, <2>3
<1>8. DeepTypes' /\ work'[p] = f /\ \A q \in Posts \ {p} : work'[q] = work[q]
  BY <1>i, <1>0, <1>1, <1>4, <1>5, <1>6, <1>7, TypesOf
<1>9. OneJobPerRun'
  BY <1>i, <1>0, <1>6, <1>7, <1>8, TableOf
<1>10. Counters'
  <2>1. Cardinality(Placed') = Cardinality(Placed) /\ Cardinality(Grouped') = Cardinality(Grouped)
    BY <1>6, <1>8, CountsOf
  <2>2. "unhook" \in Owes(work'[p].back)
    BY <1>4, <1>8, <1>d
  <2> QED BY <1>i, <1>0, <1>1, <1>8, <2>1, <2>2 DEF Counters
<1>11. Stops'
  <2>1. ~InRequest(p)'
    BY <1>2, <1>4, <1>8 DEF InRequest, Requesting
  <2> QED BY <1>i, <1>1, <1>3, <1>4, <1>8, <2>1, StopsOf
<1> QED BY <1>8, <1>9, <1>10, <1>11 DEF DeepInv

LEMMA PaysBackStep ==
  ASSUME DeepInv, NEW p \in Posts, PaysBack(p)
  PROVE  DeepInv'
<1> DEFINE b    == work[p].back
           last == Len(b) = 1
           s    == IF last THEN "over" ELSE "gives_back"
           r    == IF last THEN NoRun ELSE work[p].run
           f    == AskedFor(Stepped(Owing(work[p], Tail(b)), s), r)
<1>i. DeepTypes /\ OneJobPerRun /\ Counters /\ Stops
  BY DEF DeepInv
<1>0. work[p] \in WorkOf /\ Honest(work[p]) /\ table \in [running : SUBSET Posts, ended : Nat] /\ jobHooks \subseteq Posts
  BY <1>i DEF DeepTypes
<1>1. work[p].step = "gives_back" /\ server' = server
  BY DEF PaysBack, IsAt
<1>2. b # <<>> /\ b \in DebtLists /\ work[p].run \in Replayed \cup {NoRun}
  BY <1>0, <1>1 DEF Honest, WorkOf
<1>d. /\ Tail(b) \in DebtLists /\ Head(b) \in Debts
      /\ Owes(b) = Owes(Tail(b)) \cup {Head(b)} /\ Head(b) \notin Owes(Tail(b))
      /\ last <=> Tail(b) = <<>>
      /\ ~last => Tail(b)[Len(Tail(b))] = b[Len(b)]
  BY <1>2, DebtPaid
<1>3. server.step # "destroyed"
  BY <1>i, <1>1 DEF Stops
<1>4. f \in WorkOf /\ f.step = s /\ f.run = r /\ f.own = work[p].own /\ f.back = Tail(b)
  <2>1. s \in WorkSteps /\ r \in Replayed \cup {NoRun}
    BY <1>2 DEF WorkSteps
  <2> DEFINE e == Owing(work[p], Tail(b))
  <2>2. e \in WorkOf /\ e.run = work[p].run /\ e.own = work[p].own /\ e.back = Tail(b)
    BY <1>0, <1>d, Fields
  <2> HIDE DEF e, s, r
  <2>3. /\ AskedFor(Stepped(e, s), r) \in WorkOf /\ AskedFor(Stepped(e, s), r).step = s /\ AskedFor(Stepped(e, s), r).run = r
        /\ AskedFor(Stepped(e, s), r).own = e.own /\ AskedFor(Stepped(e, s), r).back = e.back
    BY <2>1, <2>2, TwoFields
  <2> QED BY <2>2, <2>3 DEF e
<1>5. work' = [work EXCEPT ![p] = f]
  BY <1>i, <1>0 DEF PaysBack, DeepTypes, AskedFor, Owing, Stepped, WorkOf
<1>6. /\ table' = IF Head(b) = "discard" THEN [table EXCEPT !.running = @ \ {p}] ELSE table
      /\ canceled' = IF Head(b) = "discard" THEN canceled \ {p} ELSE canceled
      /\ jobHooks' = IF Head(b) = "unhook" THEN jobHooks \ {p} ELSE jobHooks
      /\ inUse' = IF Head(b) = "place" THEN inUse - 1 ELSE inUse
      /\ workers' = IF Head(b) = "group" THEN workers - 1 ELSE workers
  BY DEF PaysBack
<1>7. s \in {"over", "gives_back"} /\ (last <=> s = "over") /\ (~last => r = work[p].run)
  OBVIOUS
<1> HIDE DEF f, s, r, last
<1>8. Honest(f) /\ ~HasJob(f) /\ ~HasJob(work[p])
  <2>1. work[p].own => "group" \in Owes(b) /\ b[Len(b)] = "group"
    BY <1>0, <1>1 DEF Honest
  <2>2. ~last /\ work[p].own => "group" \in Owes(Tail(b)) /\ Tail(b)[Len(Tail(b))] = "group"
    <3>1. SUFFICES ASSUME ~last, work[p].own PROVE "group" \in Owes(Tail(b)) /\ Tail(b)[Len(Tail(b))] = "group"
      OBVIOUS
    <3>2. Tail(b)[Len(Tail(b))] = "group" /\ Tail(b) # <<>>
      BY <2>1, <3>1, <1>d
    <3>3. Len(Tail(b)) \in 1..Len(Tail(b))
      BY <3>2, <1>d DEF DebtLists
    <3> QED BY <3>2, <3>3 DEF Owes
  <2> QED BY <1>1, <1>4, <1>7, <1>d, <2>2 DEF Honest, HasJob, Analysing, Requesting
<1>9. table' \in [running : SUBSET Posts, ended : Nat] /\ table'.running = (IF Head(b) = "discard" THEN table.running \ {p} ELSE table.running)
  BY <1>0, <1>6
<1>10. jobHooks' \subseteq Posts
  BY <1>0, <1>6
<1>11. DeepTypes' /\ work'[p] = f /\ \A q \in Posts \ {p} : work'[q] = work[q]
  BY <1>i, <1>1, <1>4, <1>5, <1>8, <1>9, <1>10, TypesOf
<1>12. p \in table'.running => "discard" \in Owes(Tail(b)) /\ ~last
  <2>1. p \in table.running => "discard" \in Owes(b)
    BY <1>i, <1>8 DEF OneJobPerRun
  <2>2. ASSUME p \in table'.running PROVE "discard" \in Owes(Tail(b))
    BY <2>1, <2>2, <1>9, <1>d
  <2> QED BY <2>2, <1>d, NoDebts
<1>13. OneJobPerRun'
  BY <1>i, <1>0, <1>4, <1>7, <1>8, <1>9, <1>11, <1>12, TableOf
<1>14. /\ HoldsPlace(work[p]) <=> "place" \in Owes(b)
       /\ HoldsPlace(f) <=> "place" \in Owes(Tail(b))
       /\ IsWorker(work[p]) <=> "group" \in Owes(b)
       /\ IsWorker(f) <=> "group" \in Owes(Tail(b))
  BY <1>1, <1>4, <1>7 DEF HoldsPlace, IsWorker
<1>15. Counters'
  <2>1. inUse' = Cardinality(Placed')
    <3>1. CASE Head(b) = "place"
      BY <3>1, <1>i, <1>6, <1>11, <1>14, <1>d, CountsOf DEF Counters
    <3>2. CASE Head(b) # "place"
      BY <3>2, <1>i, <1>6, <1>11, <1>14, <1>d, CountsOf DEF Counters
    <3> QED BY <3>1, <3>2
  <2>2. workers' = Cardinality(Grouped')
    <3>1. CASE Head(b) = "group"
      BY <3>1, <1>i, <1>6, <1>11, <1>14, <1>d, CountsOf DEF Counters
    <3>2. CASE Head(b) # "group"
      BY <3>2, <1>i, <1>6, <1>11, <1>14, <1>d, CountsOf DEF Counters
    <3> QED BY <3>1, <3>2
  <2>3. ASSUME p \in jobHooks' PROVE "unhook" \in Owes(f.back)
    <3>1. p \in jobHooks /\ Head(b) # "unhook"
      BY <2>3, <1>6
    <3>2. "unhook" \in Owes(b)
      BY <3>1, <1>i, <1>1 DEF Counters
    <3> QED BY <3>1, <3>2, <1>4, <1>d
  <2>4. \A q \in jobHooks' : work'[q].step = "analyses" \/ "unhook" \in Owes(work'[q].back)
    BY <2>3, <1>i, <1>0, <1>6, <1>11 DEF Counters
  <2> QED BY <2>1, <2>2, <2>4 DEF Counters
<1>16. Stops'
  <2>1. server.step = "waits" => work[p].own
    BY <1>i, <1>1 DEF Stops, InRequest
  <2>2. server.step = "waits" => ~InRequest(p)'
    BY <2>1, <1>4, <1>7, <1>11 DEF InRequest, Requesting
  <2>3. canceled \ {p} \subseteq canceled' /\ jobHooks \ {p} \subseteq jobHooks'
    BY <1>6
  <2> QED BY <1>i, <1>1, <1>3, <1>4, <1>7, <1>11, <2>2, <2>3, StopsOf
<1> QED BY <1>11, <1>13, <1>15, <1>16 DEF DeepInv

LEMMA DeepInvSteps == DeepInv /\ [DeepNext]_deepVars => DeepInv'
<1> SUFFICES ASSUME DeepInv, [DeepNext]_deepVars PROVE DeepInv'
  OBVIOUS
<1>i. DeepTypes /\ OneJobPerRun /\ Counters /\ Stops
  BY DEF DeepInv
<1>w. /\ work' = work => Placed' = Placed /\ Grouped' = Grouped
      /\ work' = work => \A p \in Posts : InRequest(p)' <=> InRequest(p)
  BY DEF Placed, Grouped, InRequest
<1>1. ASSUME NEW p \in Posts, NEW r \in Replayed, AsksAnalysis(p, r) PROVE DeepInv'
  BY <1>1, AsksStep
<1>2. ASSUME NEW p \in Posts, StartJob(p) \/ Admits(p) \/ StartsThread(p) \/ AddsJobHook(p) \/ EndsJob(p) \/ PaysBack(p)
      PROVE  DeepInv'
  BY <1>2, StartJobStep, AdmitsStep, StartsThreadStep, AddsJobHookStep, EndsJobStep, PaysBackStep
<1>3. ASSUME NEW p \in Posts, CancelsJob(p) PROVE DeepInv'
  <2>1. canceled \subseteq canceled' /\ UNCHANGED <<table, work, inUse, workers, jobHooks, server>>
    BY <1>3 DEF CancelsJob
  <2> QED BY <1>i, <1>w, <2>1 DEF DeepInv, DeepTypes, OneJobPerRun, Counters, Stops, ToldOfStop
<1>4. CASE PollsJobs
  <2>1. UNCHANGED <<work, canceled, inUse, workers, jobHooks, server>>
    BY <1>4 DEF PollsJobs
  <2>2. table' \in [running : SUBSET Posts, ended : Nat] /\ table'.running = table.running
    BY <1>4, <1>i DEF PollsJobs, Pruned, DeepTypes
  <2> QED BY <1>i, <1>w, <2>1, <2>2 DEF DeepInv, DeepTypes, OneJobPerRun, Counters, Stops, ToldOfStop
<1>5. CASE FlagsStop
  <2>1. /\ UNCHANGED <<table, work, canceled, inUse, workers, jobHooks>>
        /\ server.step = "up" /\ server' = [step |-> "flagged", todo |-> {}]
    BY <1>5 DEF FlagsStop, ServerGoes
  <2>2. Stops'
    BY <1>i, <2>1 DEF Stops, ToldOfStop
  <2> QED BY <1>i, <1>w, <2>1, <2>2 DEF DeepInv, DeepTypes, OneJobPerRun, Counters
<1>6. CASE CopiesJobHooks
  <2>1. /\ UNCHANGED <<table, work, canceled, inUse, workers, jobHooks>>
        /\ server.step = "flagged" /\ server' = [step |-> "calls", todo |-> jobHooks]
    BY <1>6 DEF CopiesJobHooks, ServerGoes
  <2>2. Stops'
    BY <1>i, <2>1 DEF Stops, ToldOfStop
  <2> QED BY <1>i, <1>w, <2>1, <2>2 DEF DeepInv, DeepTypes, OneJobPerRun, Counters
<1>7. CASE CallsJobHook
  <2>1. UNCHANGED <<table, work, inUse, workers, jobHooks>> /\ server.step = "calls"
    BY <1>7 DEF CallsJobHook
  <2>2. CASE \E h \in server.todo : server' = [step |-> "calls", todo |-> server.todo \ {h}] /\ canceled' = canceled \cup {h}
    <3>1. PICK h \in server.todo : server' = [step |-> "calls", todo |-> server.todo \ {h}] /\ canceled' = canceled \cup {h}
      BY <2>2
    <3>2. \A q \in Posts : ToldOfStop(q) => ToldOfStop(q)'
      BY <2>1, <3>1 DEF ToldOfStop
    <3>3. Stops'
      BY <1>i, <2>1, <3>1, <3>2 DEF Stops
    <3> QED BY <1>i, <1>w, <2>1, <3>1, <3>3 DEF DeepInv, DeepTypes, OneJobPerRun, Counters
  <2>3. CASE server.todo = {} /\ server' = [step |-> "called", todo |-> {}] /\ canceled' = canceled
    <3>1. Stops'
      BY <1>i, <2>1, <2>3 DEF Stops, ToldOfStop
    <3> QED BY <1>i, <1>w, <2>1, <2>3, <3>1 DEF DeepInv, DeepTypes, OneJobPerRun, Counters
  <2> QED BY <1>7, <2>2, <2>3 DEF CallsJobHook, ServerGoes
<1>8. CASE ClosesGroup
  <2>1. /\ UNCHANGED <<table, work, canceled, inUse, workers, jobHooks>>
        /\ server.step = "called" /\ server' = [step |-> "waits", todo |-> {}] /\ \A p \in Posts : ~InRequest(p)
    BY <1>8 DEF ClosesGroup, ServerGoes
  <2>2. Stops'
    BY <1>i, <1>w, <2>1 DEF Stops, ToldOfStop
  <2> QED BY <1>i, <1>w, <2>1, <2>2 DEF DeepInv, DeepTypes, OneJobPerRun, Counters
<1>9. CASE WaitIsOver
  <2>1. /\ UNCHANGED <<table, work, canceled, inUse, workers, jobHooks>> /\ server.step = "waits"
        /\ server' = [step |-> IF workers = 0 THEN "destroyed" ELSE "exited", todo |-> {}]
    BY <1>9 DEF WaitIsOver, ServerGoes
  <2>2. ASSUME workers = 0, NEW p \in Posts PROVE work[p].step \in {"new", "over"}
    <3>1. Grouped = {}
      <4>1. IsFiniteSet(Grouped) /\ Cardinality(Grouped) = 0
        BY <1>i, <2>2, DeepAssumption, FS_Subset DEF Grouped, Counters
      <4> QED BY <4>1, FS_EmptySet
    <3>2. ~IsWorker(work[p]) /\ ~InRequest(p)
      BY <1>i, <2>1, <3>1 DEF Grouped, Stops
    <3>3. Honest(work[p]) /\ work[p].step \in WorkSteps
      BY <1>i DEF DeepTypes, Honest, WorkOf
    <3> QED BY <3>2, <3>3 DEF IsWorker, InRequest, Requesting, Honest, WorkSteps
  <2>3. ASSUME NEW p \in Posts, work[p].step = "analyses" PROVE ToldOfStop(p)'
    BY <1>i, <2>1, <2>2, <2>3 DEF Stops, ToldOfStop
  <2>4. Stops'
    BY <1>i, <1>w, <2>1, <2>2, <2>3 DEF Stops
  <2> QED BY <1>i, <1>w, <2>1, <2>4 DEF DeepInv, DeepTypes, OneJobPerRun, Counters
<1>10. CASE UNCHANGED deepVars
  BY <1>i, <1>w, <1>10 DEF deepVars, DeepInv, DeepTypes, OneJobPerRun, Counters, Stops, ToldOfStop
<1> QED BY <1>1, <1>2, <1>3, <1>4, <1>5, <1>6, <1>7, <1>8, <1>9, <1>10 DEF DeepNext

(* OneAnalysisPerRun: no run is analysed twice at the same time, for any     *)
(* number of requests, runs, places and jobs that are kept.                  *)
THEOREM OneAnalysisAtATime == DeepSpec => []OneAnalysisPerRun
<1>1. DeepInv => OneAnalysisPerRun
  BY DEF DeepInv, OneJobPerRun, OneAnalysisPerRun, HasJob, Analysing, RunOf
<1> QED BY <1>1, DeepInvStarts, DeepInvSteps, PTL DEF DeepSpec

(* ServerOutlivesItsJobs: every job is told of the stop, and when the        *)
(* destructor goes on no thread of a job is left and all was given back.     *)
THEOREM JobsEndBeforeServer == DeepSpec => []ServerOutlivesItsJobs
<1>1. DeepInv => ServerOutlivesItsJobs
  <2>1. SUFFICES ASSUME DeepInv PROVE ServerOutlivesItsJobs
    OBVIOUS
  <2>2. server.step \in {"called", "waits", "destroyed"} => \A p \in Posts : work[p].step \in Analysing \ {"hook"} => p \in canceled
    BY <2>1 DEF DeepInv, Stops, ToldOfStop, Analysing
  <2>3. ASSUME server.step = "destroyed"
        PROVE  /\ \A p \in Posts : work[p].step \in {"new", "over"}
               /\ table.running = {} /\ jobHooks = {} /\ inUse = 0
    <3>1. \A p \in Posts : work[p].step \in {"new", "over"}
      BY <2>1, <2>3 DEF DeepInv, Stops
    <3>2. \A p \in Posts : Owes(work[p].back) = {}
      BY <2>1, <3>1, NoDebts DEF DeepInv, DeepTypes, Honest
    <3>3. table.running = {}
      BY <2>1, <3>1, <3>2 DEF DeepInv, DeepTypes, OneJobPerRun, HasJob
    <3>4. jobHooks = {}
      BY <2>1, <3>1, <3>2 DEF DeepInv, DeepTypes, Counters
    <3>5. Placed = {}
      BY <3>1, <3>2 DEF Placed, HoldsPlace
    <3>6. inUse = 0
      BY <2>1, <3>5, FS_EmptySet DEF DeepInv, Counters
    <3> QED BY <3>1, <3>3, <3>4, <3>6
  <2> QED BY <2>2, <2>3 DEF ServerOutlivesItsJobs
<1> QED BY <1>1, DeepInvStarts, DeepInvSteps, PTL DEF DeepSpec
-----------------------------------------------------------------------------
(* A download that has or makes a hook is at one of its statements, and only *)
(* hooks of statements are added, copied and called.                         *)
AtStatement == {"hook", "connects", "runs", "logs"}
IndexOK(f)  == f.index \in 1..NStatements + 1 /\ (f.step \in AtStatement => f.index <= NStatements)
HooksInv    == /\ \A d \in Downloads : IndexOK(download[d])
               /\ hooks \subseteq Hooks
               /\ stop \in [step : {"up", "flagged", "calls", "called"}, todo : SUBSET Hooks]

LEMMA IndexStays ==
  ASSUME ExportTypes, HooksInv, NEW d \in Downloads, NEW s \in DownloadSteps, MovesTo(d, s), hooks' \subseteq Hooks, stop' = stop,
         s \in AtStatement => download[d].step \in AtStatement \/ download[d].index <= NStatements
  PROVE  HooksInv'
<1>1. /\ \A c \in Downloads \ {d} : download'[c] = download[c]
      /\ download'[d].step = s /\ download'[d].index = download[d].index
  BY MovesOnly
<1>2. IndexOK(download'[d])
  BY <1>1 DEF HooksInv, IndexOK
<1> QED BY <1>1, <1>2 DEF HooksInv

LEMMA HooksInvSteps == ExportInv /\ HooksInv /\ [ExportsNext]_exportVars => HooksInv'
<1> SUFFICES ASSUME ExportInv, HooksInv, [ExportsNext]_exportVars PROVE HooksInv'
  OBVIOUS
<1>0. /\ ExportTypes /\ hooks \subseteq Hooks /\ NStatements \in Nat
      /\ \A d \in Downloads : download[d] \in DownloadOf /\ IndexOK(download[d])
      /\ stop \in [step : {"up", "flagged", "calls", "called"}, todo : SUBSET Hooks]
  BY ExportAssumption DEF ExportInv, ExportTypes, HooksInv
<1>m. ASSUME NEW d \in Downloads, NEW s \in DownloadSteps, MovesTo(d, s), hooks' \subseteq hooks, stop' = stop,
             s \in AtStatement => download[d].step \in AtStatement
      PROVE  HooksInv'
  BY <1>0, <1>m, IndexStays
<1>s. DownloadSteps = {"new", "over"} \cup Refusable \cup Streaming
  BY DEF DownloadSteps
<1> USE DEF Refusable, Streaming, Doing, AtStatement
<1>1. ASSUME NEW e \in ExportIds, Handshake(e) \/ JobExpires(e) PROVE HooksInv'
  BY <1>1 DEF Handshake, JobExpires, HooksInv
<1>2. ASSUME NEW d \in Downloads, NEW e \in ExportIds, AsksStream(d, e) PROVE HooksInv'
  <2>1. download'[d].step = "peeks" /\ download'[d].index = download[d].index /\ \A c \in Downloads \ {d} : download'[c] = download[c]
    BY <1>0, <1>2 DEF AsksStream, ExportTypes, DownloadOf
  <2>2. IndexOK(download'[d])
    BY <1>0, <2>1 DEF IndexOK
  <2> QED BY <1>2, <2>1, <2>2 DEF HooksInv, AsksStream
<1>3. ASSUME NEW d \in Downloads, PeeksJob(d) \/ TakesSlot(d) \/ ConsumesJob(d) \/ Preflight(d) PROVE HooksInv'
  BY <1>3, <1>m, <1>s DEF PeeksJob, TakesSlot, ConsumesJob, Preflight
<1>4. ASSUME NEW d \in Downloads, TakesUse(d) \/ PutsBack(d) \/ StatementEnds(d) \/ Disconnects(d) \/ ReleasesSlot(d) PROVE HooksInv'
  BY <1>4, <1>m, <1>s DEF TakesUse, PutsBack, StatementEnds, Disconnects, ReleasesSlot
<1>5. ASSUME NEW d \in Downloads, NextStatement(d) PROVE HooksInv'
  <2>1. CASE ServerStops \/ download[d].index > NStatements
    BY <1>5, <1>m, <1>s, <2>1 DEF NextStatement
  <2>2. CASE ~(ServerStops \/ download[d].index > NStatements)
    <3>1. download[d].index <= NStatements
      BY <1>0, <2>2 DEF IndexOK
    <3>2. MovesTo(d, "hook") /\ hooks' = hooks /\ stop' = stop
      BY <1>5, <2>2 DEF NextStatement
    <3>3. "hook" \in DownloadSteps
      BY <1>s
    <3> QED BY <1>0, <3>1, <3>2, <3>3, IndexStays
  <2> QED BY <2>1, <2>2
<1>6. ASSUME NEW d \in Downloads, AddsHook(d) PROVE HooksInv'
  <2>1. HookOf(d) \in Hooks
    BY <1>0, <1>6 DEF AddsHook, IndexOK, HookOf, Hooks
  <2>2. hooks' \subseteq Hooks /\ stop' = stop /\ download[d].step = "hook"
    BY <1>0, <1>6, <2>1 DEF AddsHook
  <2>3. CASE MovesTo(d, "connects")
    <3>1. "connects" \in DownloadSteps
      BY <1>s
    <3> QED BY <1>0, <2>2, <2>3, <3>1, IndexStays
  <2>4. CASE download' = [download EXCEPT ![d].step = "connects", ![d].kill = "early"]
    <3>1. download'[d].index = download[d].index /\ \A c \in Downloads \ {d} : download'[c] = download[c]
      BY <1>0, <2>4 DEF ExportTypes, DownloadOf
    <3>2. IndexOK(download'[d])
      BY <1>0, <2>2, <3>1 DEF IndexOK
    <3> QED BY <1>0, <2>2, <3>1, <3>2 DEF HooksInv
  <2> QED BY <1>6, <2>3, <2>4 DEF AddsHook
<1>7. ASSUME NEW d \in Downloads, ConnectsRunner(d) PROVE HooksInv'
  BY <1>7, <1>m, <1>s DEF ConnectsRunner
<1>8. ASSUME NEW d \in Downloads, Logged(d) PROVE HooksInv'
  <2>1. hooks' \subseteq hooks /\ stop' = stop /\ download[d].step = "logs"
    BY <1>8 DEF Logged
  <2>2. CASE MovesTo(d, "closes")
    BY <2>1, <2>2, <1>m, <1>s
  <2>3. CASE download' = [download EXCEPT ![d].step = "next", ![d].index = @ + 1, ![d].kill = "none"]
    <3>1. download[d] \in DownloadOf /\ download[d].index \in 1..NStatements
      BY <1>0, <2>1 DEF IndexOK
    <3>2. download'[d] = [[[download[d] EXCEPT !.step = "next"] EXCEPT !.index = download[d].index + 1] EXCEPT !.kill = "none"]
          /\ \A c \in Downloads \ {d} : download'[c] = download[c]
      BY <1>0, <2>3, <3>1 DEF ExportTypes, DownloadOf
    <3>3. download'[d].step = "next" /\ download'[d].index = download[d].index + 1
      BY <3>1, <3>2 DEF DownloadOf
    <3>4. IndexOK(download'[d])
      BY <1>0, <3>1, <3>3 DEF IndexOK
    <3> QED BY <1>0, <2>1, <3>2, <3>4 DEF HooksInv
  <2> QED BY <1>8, <2>2, <2>3 DEF Logged
<1>9. CASE StopBegins \/ CopiesHooks
  <2>1. stop' \in [step : {"up", "flagged", "calls", "called"}, todo : SUBSET Hooks] /\ hooks' = hooks /\ download' = download
    BY <1>0, <1>9 DEF StopBegins, CopiesHooks
  <2> QED BY <1>0, <2>1 DEF HooksInv
<1>10. CASE CallsHook
  <2>1. stop' \in [step : {"up", "flagged", "calls", "called"}, todo : SUBSET Hooks] /\ hooks' = hooks
    BY <1>0, <1>10 DEF CallsHook
  <2>2. ASSUME NEW h, NEW d \in Downloads PROVE KillSent(h)[d].index = download[d].index /\ KillSent(h)[d].step = download[d].step
    BY <1>0 DEF KillSent, DownloadOf
  <2>3. \A d \in Downloads : download'[d].index = download[d].index /\ download'[d].step = download[d].step
    BY <1>10, <2>2 DEF CallsHook
  <2> QED BY <1>0, <2>1, <2>3 DEF HooksInv, IndexOK
<1>11. CASE UNCHANGED exportVars
  BY <1>11 DEF exportVars, HooksInv
<1> QED BY <1>1, <1>2, <1>3, <1>4, <1>5, <1>6, <1>7, <1>8, <1>9, <1>10, <1>11 DEF ExportsNext

(* The type invariant of the exports: a hook names a statement that there is *)
(* (handle_export_stream), also when the last one is over.                   *)
THEOREM ExportTypeCorrect == ExportsSpec => []ExportTypeOK
<1> DEFINE Typed == ExportInv /\ HooksInv
<1>1. ExportsInit => Typed
  <2>1. ExportsInit => HooksInv
    BY ExportAssumption DEF ExportsInit, HooksInv, IndexOK, AtStatement
  <2> QED BY <2>1, ExportInvStarts
<1>2. Typed /\ [ExportsNext]_exportVars => Typed'
  BY ExportInvSteps, HooksInvSteps
<1>3. ASSUME Typed PROVE ExportTypeOK
  <2>1. \A d \in Downloads : download[d] \in DownloadOf /\ download[d].index \in 1..NStatements + 1
    BY <1>3 DEF ExportInv, ExportTypes, HooksInv, IndexOK
  <2>2. download \in [Downloads -> [step : DownloadSteps, export : ExportIds \cup {NoExport},
                                    index : 1..NStatements + 1, kill : {"none", "early", "killed"}]]
    BY <1>3, <2>1 DEF ExportInv, ExportTypes, DownloadOf
  <2>3. IsFiniteSet(Holders)
    BY ExportAssumption, FS_Subset DEF Holders
  <2>4. active \in Nat
    BY <1>3, <2>3, FS_CardinalityType DEF ExportInv, Slots
  <2> QED BY <1>3, <2>2, <2>4 DEF ExportTypeOK, ExportInv, ExportTypes, HooksInv, DownloadSteps
<1> QED BY <1>1, <1>2, <1>3, PTL DEF ExportsSpec

(* What a job owes is one of the lists of the code, or what is left of one.  *)
Short(b) == Len(b) <= 3
ShortInv == canceled \subseteq Posts /\ \A p \in Posts : Short(work[p].back)

LEMMA ShortLists ==
  /\ Short(<<"discard">>) /\ Short(<<"discard", "group", "place">>) /\ Short(<<"place", "group", "discard">>)
  /\ Short(LastDebts)
  /\ \A b \in Seq(Debts) : b # <<>> /\ Short(b) => Short(Tail(b))
<1>1. \A b \in Seq(Debts) : b # <<>> => Len(Tail(b)) = Len(b) - 1 /\ Len(b) \in Nat
  OBVIOUS
<1>2. Len(<<"discard">>) = 1 /\ \A a, b, c : Len(<<a, b, c>>) = 3
  OBVIOUS
<1> QED BY <1>1, <1>2 DEF Short, LastDebts

LEMMA ShortStep ==
  ASSUME DeepTypes, ShortInv, NEW p \in Posts, NEW f, work' = [work EXCEPT ![p] = f], Short(f.back), canceled' \subseteq Posts
  PROVE  ShortInv'
<1>1. work'[p] = f /\ \A q \in Posts \ {p} : work'[q] = work[q]
  BY DEF DeepTypes
<1> QED BY <1>1 DEF ShortInv

LEMMA ShortInvSteps == DeepInv /\ ShortInv /\ [DeepNext]_deepVars => ShortInv'
<1> SUFFICES ASSUME DeepInv, ShortInv, [DeepNext]_deepVars PROVE ShortInv'
  OBVIOUS
<1>0. /\ DeepTypes /\ canceled \subseteq Posts /\ \A p \in Posts : work[p] \in WorkOf /\ Honest(work[p]) /\ Short(work[p].back)
      /\ server.todo \subseteq Posts /\ work \in [Posts -> WorkOf]
  BY DEF DeepInv, DeepTypes, ShortInv
<1>1. ASSUME NEW p \in Posts, NEW s \in WorkSteps, Proceeds(p, s), canceled' \subseteq Posts PROVE ShortInv'
  <2>1. work' = [work EXCEPT ![p] = Stepped(work[p], s)]
    BY <1>1 DEF Proceeds, Stepped
  <2>2. Short(Stepped(work[p], s).back)
    BY <1>0, Fields
  <2> QED BY <1>0, <1>1, <2>1, <2>2, ShortStep
<1>2. ASSUME NEW p \in Posts, NEW b \in DebtLists, GivesBack(p, b), Short(b), canceled' \subseteq Posts PROVE ShortInv'
  <2>1. work' = [work EXCEPT ![p] = Owing(Stepped(work[p], "gives_back"), b)]
    BY <1>0, <1>2 DEF GivesBack, Owing, Stepped
  <2>2. Owing(Stepped(work[p], "gives_back"), b).back = b
    BY <1>0, TwoFields DEF WorkSteps
  <2> QED BY <1>0, <1>2, <2>1, <2>2, ShortStep
<1>3. ASSUME NEW p \in Posts, NEW s \in WorkSteps, NEW r \in Replayed \cup {NoRun},
             work' = [work EXCEPT ![p].step = s, ![p].run = r], canceled' = canceled
      PROVE  ShortInv'
  <2>1. work' = [work EXCEPT ![p] = AskedFor(Stepped(work[p], s), r)]
    BY <1>0, <1>3 DEF AskedFor, Stepped
  <2>2. AskedFor(Stepped(work[p], s), r).back = work[p].back
    BY <1>0, TwoFields
  <2> QED BY <1>0, <1>3, <2>1, <2>2, ShortStep
<1>w. {"start", "over", "place", "group", "hook", "analyses"} \subseteq WorkSteps
  BY DEF WorkSteps
<1>d. /\ <<"discard">> \in DebtLists /\ LastDebts \in DebtLists
      /\ <<"discard", "group", "place">> \in DebtLists /\ <<"place", "group", "discard">> \in DebtLists
  BY DebtsOf
<1>4. ASSUME NEW p \in Posts, NEW r \in Replayed, AsksAnalysis(p, r) PROVE ShortInv'
  <2>1. work' = [work EXCEPT ![p].step = "start", ![p].run = r] /\ canceled' = canceled
    BY <1>4 DEF AsksAnalysis
  <2> QED BY <1>3, <1>w, <2>1
<1>5. ASSUME NEW p \in Posts, StartJob(p) PROVE ShortInv'
  <2>1. CASE work' = [work EXCEPT ![p].step = "over", ![p].run = NoRun]
    BY <1>3, <1>5, <1>w, <2>1 DEF StartJob
  <2>2. CASE Proceeds(p, "place")
    BY <1>0, <1>1, <1>5, <1>w, <2>2 DEF StartJob
  <2> QED BY <1>5, <2>1, <2>2 DEF StartJob
<1>6. ASSUME NEW p \in Posts, Admits(p) PROVE ShortInv'
  <2>1. canceled' = canceled /\ (Proceeds(p, "group") \/ GivesBack(p, <<"discard">>))
    BY <1>6 DEF Admits
  <2> QED BY <1>0, <1>1, <1>2, <1>d, <1>w, <2>1, ShortLists
<1>7. ASSUME NEW p \in Posts, StartsThread(p) PROVE ShortInv'
  <2>1. CASE work' = [work EXCEPT ![p].step = "hook", ![p].own = TRUE]
    <3>1. work' = [work EXCEPT ![p] = Started(Stepped(work[p], "hook"))]
      BY <1>0, <2>1 DEF Started, Stepped
    <3>2. Started(Stepped(work[p], "hook")).back = work[p].back
      BY <1>0, <1>w, TwoFields
    <3>3. canceled' \subseteq Posts
      BY <1>0, <1>7 DEF StartsThread
    <3> QED BY <1>0, <3>1, <3>2, <3>3, ShortStep
  <2>2. CASE GivesBack(p, <<"discard", "group", "place">>) \/ GivesBack(p, <<"place", "group", "discard">>)
    <3>1. canceled' \subseteq Posts
      BY <1>0, <1>7 DEF StartsThread
    <3> QED BY <1>2, <1>d, <2>2, <3>1, ShortLists
  <2> QED BY <1>7, <2>1, <2>2 DEF StartsThread
<1>8. ASSUME NEW p \in Posts, AddsJobHook(p) PROVE ShortInv'
  <2>1. canceled' \subseteq Posts /\ Proceeds(p, "analyses")
    BY <1>0, <1>8 DEF AddsJobHook
  <2> QED BY <1>1, <1>w, <2>1
<1>9. ASSUME NEW p \in Posts, EndsJob(p) PROVE ShortInv'
  <2>1. canceled' \subseteq Posts /\ GivesBack(p, LastDebts)
    BY <1>0, <1>9 DEF EndsJob
  <2> QED BY <1>2, <1>d, <2>1, ShortLists
<1>10. ASSUME NEW p \in Posts, PaysBack(p) PROVE ShortInv'
  <2> DEFINE b == work[p].back
             s == IF Len(b) = 1 THEN "over" ELSE "gives_back"
             r == IF Len(b) = 1 THEN NoRun ELSE work[p].run
  <2>1. b # <<>> /\ b \in DebtLists /\ b \in Seq(Debts) /\ work[p].run \in Replayed \cup {NoRun}
    BY <1>0, <1>10 DEF PaysBack, IsAt, Honest, WorkOf, DebtLists
  <2>2. s \in WorkSteps /\ r \in Replayed \cup {NoRun} /\ Tail(b) \in DebtLists
    BY <2>1, DebtPaid DEF WorkSteps
  <2>3. work' = [work EXCEPT ![p] = AskedFor(Stepped(Owing(work[p], Tail(b)), s), r)]
    BY <1>0, <1>10 DEF PaysBack, AskedFor, Owing, Stepped, WorkOf
  <2>4. Owing(work[p], Tail(b)) \in WorkOf /\ Owing(work[p], Tail(b)).back = Tail(b)
    BY <1>0, <2>2, Fields
  <2>5. AskedFor(Stepped(Owing(work[p], Tail(b)), s), r).back = Tail(b)
    BY <2>2, <2>4, TwoFields
  <2>6. Short(Tail(b))
    BY <1>0, <2>1, ShortLists
  <2>7. canceled' \subseteq Posts
    BY <1>0, <1>10 DEF PaysBack
  <2> HIDE DEF b, s, r
  <2> QED BY <1>0, <2>3, <2>5, <2>6, <2>7, ShortStep
<1>11. ASSUME NEW p \in Posts, CancelsJob(p) PROVE ShortInv'
  BY <1>0, <1>11 DEF CancelsJob, ShortInv
<1>12. CASE PollsJobs \/ FlagsStop \/ CopiesJobHooks \/ CallsJobHook \/ ClosesGroup \/ WaitIsOver
  BY <1>0, <1>12 DEF PollsJobs, FlagsStop, CopiesJobHooks, CallsJobHook, ClosesGroup, WaitIsOver, ShortInv
<1>13. CASE UNCHANGED deepVars
  BY <1>0, <1>13 DEF deepVars, ShortInv
<1> QED BY <1>4, <1>5, <1>6, <1>7, <1>8, <1>9, <1>10, <1>11, <1>12, <1>13 DEF DeepNext

(* The type invariant of Deep Analyze: neither counter goes below zero,      *)
(* whatever order the places and the workers come back in (Admission,        *)
(* WorkerGroup).                                                             *)
THEOREM DeepTypeCorrect == DeepSpec => []DeepTypeOK
<1> DEFINE Typed == DeepInv /\ ShortInv
<1>1. DeepInit => Typed
  <2>1. DeepInit => ShortInv
    <3>1. Len(<<>>) = 0
      OBVIOUS
    <3> QED BY <3>1 DEF DeepInit, ShortInv, Short
  <2> QED BY <2>1, DeepInvStarts
<1>2. Typed /\ [DeepNext]_deepVars => Typed'
  BY DeepInvSteps, ShortInvSteps
<1>3. ASSUME Typed PROVE DeepTypeOK
  <2>1. inUse \in Nat /\ workers \in Nat
    <3>1. IsFiniteSet(Placed) /\ IsFiniteSet(Grouped)
      BY DeepAssumption, FS_Subset DEF Placed, Grouped
    <3> QED BY <1>3, <3>1, FS_CardinalityType DEF DeepInv, Counters
  <2> DEFINE Lists == UNION {[1..n -> Debts] : n \in 0..3}
  <2>2. \A p \in Posts : work[p].back \in Lists
    <3> SUFFICES ASSUME NEW p \in Posts PROVE work[p].back \in Lists
      OBVIOUS
    <3>1. work[p].back \in Seq(Debts) /\ Len(work[p].back) <= 3
      BY <1>3 DEF DeepInv, DeepTypes, WorkOf, DebtLists, ShortInv, Short
    <3>2. \A b \in Seq(Debts) : Len(b) \in Nat /\ b \in [1..Len(b) -> Debts]
      OBVIOUS
    <3>3. PICK n \in Nat : n = Len(work[p].back)
      BY <3>1, <3>2
    <3>l. n <= 3
      BY <3>1, <3>3
    <3>5. n \in 0..3
      BY <3>l
    <3>4. work[p].back \in [1..n -> Debts]
      BY <3>1, <3>2, <3>3
    <3> QED BY <3>4, <3>5, Zenon
  <2> HIDE DEF Lists
  <2>3. work \in [Posts -> [step : WorkSteps, run : Replayed \cup {NoRun}, own : BOOLEAN, back : Lists]]
    BY <1>3, <2>2 DEF DeepInv, DeepTypes, WorkOf
  <2>4. WorkSteps = {"new", "over", "gives_back"} \cup Requesting \cup Analysing
    BY DEF WorkSteps, Requesting, Analysing
  <2>5. table \in [running : SUBSET Posts, ended : Nat] /\ canceled \subseteq Posts /\ jobHooks \subseteq Posts
        /\ server \in [step : {"up", "flagged", "calls", "called", "waits", "destroyed", "exited"}, todo : SUBSET Posts]
    BY <1>3 DEF DeepInv, DeepTypes, ShortInv
  <2>6. work \in [Posts -> [step : {"new", "over", "gives_back"} \cup Requesting \cup Analysing,
                            run : Replayed \cup {NoRun}, own : BOOLEAN, back : Lists]]
    BY <2>3, <2>4, Zenon
  <2> QED BY <2>1, <2>5, <2>6, Zenon DEF DeepTypeOK, Lists
<1> QED BY <1>1, <1>2, <1>3, PTL DEF DeepSpec
=============================================================================
