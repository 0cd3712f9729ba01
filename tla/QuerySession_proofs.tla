------------------------ MODULE QuerySession_proofs ------------------------
(* What holds of a session for every number of streams, every row limit,    *)
(* every block and every bound: its types, one consumer, the preview limit, *)
(* and that a terminal status stays; the registry hears the status that the *)
(* session keeps, a run whose status is Error has shown its error, and      *)
(* every row comes after the meta of its attempt and is accounted for.      *)
EXTENDS QuerySession, Totals, SequenceTheorems

-----------------------------------------------------------------------------
(* One consumer: an attached stream is the only one that reads.             *)
ConsumerInv ==
  /\ OneConsumer
  /\ \A s \in Streams : Reads(s) => attached

StreamTypes ==
  /\ attached \in BOOLEAN
  /\ spc \in [Streams -> {"idle", "routed", "found", "start", "start_check", "spawn", "meta", "pop", "write", "snap",
                          "cancelling", "erase", "release", "erase_again", "end", "refused", "failed"}]
  /\ back \in [Streams -> {"meta", "erase", "release", "erase_again"}]

LEMMA StreamStepsKeepTypes ==
  ASSUME StreamTypes, [Next]_vars
  PROVE  StreamTypes'
<1> USE DEF StreamTypes, streamVars, lifeVars, resultVars, workerVars, serverVars
<1>1. CASE QueryThread
  BY <1>1 DEF QueryThread, WorkerFrame, Begin, Acquire, Command, Attempt, Block, StatementEnds, StatementFails,
     Push, EncodeFails, Account, Retry, Rethrow, Catch, FinishError, FinishCanceled, FinishLimit, FinishOk,
     FinishOkCanceled, WorkerNotify, Finish, GoWorker
<1>2. CASE ApiCancel \/ StopBegin \/ StopSweep \/ ReaperPick \/ ReaperErase
  BY <1>2 DEF ApiCancel, StopBegin, StopSweep, ReaperPick, ReaperErase
<1>3. CASE \E c \in Callers : CancelStep(c)
  BY <1>3 DEF CancelStep, CancelFlag, CancelLock, CancelNotify
<1>4. CASE \E s \in Streams : StreamBegin(s) \/ SpawnThrows(s)
  BY <1>4 DEF StreamBegin, StreamRoute, StreamFind, StreamAttach, Start, StartCheck, Spawn, SpawnThrows, GoStream
<1>5. ASSUME NEW s \in Streams, StreamProvides(s) \/ ClientCut(s)
      PROVE  StreamTypes'
  <2>1. CASE WriteFails(s) \/ WriteTick(s) \/ WriteDoneFails(s)
    BY <2>1 DEF WriteFails, WriteTick, WriteDoneFails, GoStream, StreamCancels
  <2>2. CASE WriteMeta(s) \/ PopBatch(s) \/ PopNothing(s) \/ WriteBatch(s)
    BY <2>2 DEF WriteMeta, PopBatch, PopNothing, WriteBatch, GoStream
  <2>3. CASE WriteDone(s) \/ EraseAtDone(s) \/ CutNoticed(s) \/ EraseAtRelease(s)
    BY <2>3 DEF WriteDone, EraseAtDone, CutNoticed, EraseAtRelease, GoStream
  <2>4. CASE Release(s)
    BY <2>4 DEF Release, GoStream, StreamCancels
  <2>5. CASE CancelReturns(s) \/ ClientCut(s)
    BY <2>5 DEF CancelReturns, ClientCut, GoStream
  <2> QED BY <1>5, <2>1, <2>2, <2>3, <2>4, <2>5 DEF StreamProvides
<1>6. CASE UNCHANGED vars
  BY <1>6 DEF vars
<1> QED BY <1>1, <1>2, <1>3, <1>4, <1>5, <1>6 DEF Next

(* Who reads does not change when neither the places of the streams nor     *)
(* their attachment do.                                                     *)
LEMMA OtherStepsKeepConsumer ==
  ASSUME ConsumerInv, UNCHANGED <<attached, spc, back>>
  PROVE  ConsumerInv'
BY DEF ConsumerInv, OneConsumer, Reads

(* A step of one stream: the others read as before, and the stream itself   *)
(* does not begin to read.                                                  *)
LEMMA StreamStepKeepsConsumer ==
  ASSUME StreamTypes, ConsumerInv, NEW s \in Streams, UNCHANGED attached,
         \A r \in Streams \ {s} : spc'[r] = spc[r] /\ back'[r] = back[r],
         Reads(s)' => Reads(s)
  PROVE  ConsumerInv'
BY DEF ConsumerInv, OneConsumer, Reads

LEMMA ConsumerStep ==
  ASSUME StreamTypes, ConsumerInv, [Next]_vars
  PROVE  ConsumerInv'
<1> USE DEF streamVars, lifeVars, resultVars, workerVars, serverVars
<1>1. CASE QueryThread
  <2>1. UNCHANGED <<attached, spc, back>>
    BY <1>1 DEF QueryThread, WorkerFrame, Begin, Acquire, Command, Attempt, Block, StatementEnds, StatementFails,
       Push, EncodeFails, Account, Retry, Rethrow, Catch, FinishError, FinishCanceled, FinishLimit, FinishOk,
       FinishOkCanceled, WorkerNotify, Finish, GoWorker
  <2> QED BY <2>1, OtherStepsKeepConsumer
<1>2. CASE ApiCancel \/ StopBegin \/ StopSweep \/ ReaperPick \/ ReaperErase
  BY <1>2, OtherStepsKeepConsumer DEF ApiCancel, StopBegin, StopSweep, ReaperPick, ReaperErase
<1>3. CASE \E c \in Callers : CancelStep(c)
  BY <1>3, OtherStepsKeepConsumer DEF CancelStep, CancelFlag, CancelLock, CancelNotify
<1>4. ASSUME NEW s \in Streams, StreamBegin(s) \/ SpawnThrows(s)
      PROVE  ConsumerInv'
  <2>1. CASE StreamRoute(s) \/ StreamFind(s) \/ Spawn(s) \/ SpawnThrows(s)
    BY <2>1, StreamStepKeepsConsumer DEF StreamRoute, StreamFind, Spawn, SpawnThrows, GoStream, StreamTypes, Reads
  <2>2. CASE Start(s) \/ StartCheck(s)
    BY <2>2, StreamStepKeepsConsumer DEF Start, StartCheck, GoStream, StreamTypes, Reads
  <2>3. CASE StreamAttach(s)
    <3>1. CASE attached
      BY <2>3, <3>1, StreamStepKeepsConsumer DEF StreamAttach, GoStream, StreamTypes, Reads
    <3>2. CASE ~attached
      BY <2>3, <3>2 DEF StreamAttach, GoStream, StreamTypes, Reads, ConsumerInv, OneConsumer
    <3> QED BY <3>1, <3>2
  <2> QED BY <1>4, <2>1, <2>2, <2>3 DEF StreamBegin
<1>5. ASSUME NEW s \in Streams, StreamProvides(s) \/ ClientCut(s)
      PROVE  ConsumerInv'
  <2>1. CASE WriteFails(s) \/ WriteTick(s) \/ WriteDoneFails(s)
    BY <2>1, StreamStepKeepsConsumer DEF WriteFails, WriteTick, WriteDoneFails, GoStream, StreamCancels, StreamTypes, Reads
  <2>2. CASE WriteMeta(s) \/ PopBatch(s) \/ PopNothing(s) \/ WriteBatch(s)
    BY <2>2, StreamStepKeepsConsumer DEF WriteMeta, PopBatch, PopNothing, WriteBatch, GoStream, StreamTypes, Reads
  <2>3. CASE WriteDone(s) \/ EraseAtDone(s) \/ CutNoticed(s) \/ EraseAtRelease(s)
    BY <2>3, StreamStepKeepsConsumer DEF WriteDone, EraseAtDone, CutNoticed, EraseAtRelease, GoStream, StreamTypes, Reads
  <2>4. CASE Release(s)
    <3>1. Reads(s) /\ ~Reads(s)' /\ \A r \in Streams \ {s} : spc'[r] = spc[r] /\ back'[r] = back[r]
      BY <2>4 DEF Release, GoStream, StreamCancels, StreamTypes, Reads
    <3> QED BY <3>1 DEF ConsumerInv, OneConsumer, Reads
  <2>5. CASE CancelReturns(s) \/ ClientCut(s)
    BY <2>5, StreamStepKeepsConsumer DEF CancelReturns, ClientCut, GoStream, StreamTypes, Reads
  <2> QED BY <1>5, <2>1, <2>2, <2>3, <2>4, <2>5 DEF StreamProvides
<1>6. CASE UNCHANGED vars
  BY <1>6, OtherStepsKeepConsumer DEF vars
<1> QED BY <1>1, <1>2, <1>3, <1>4, <1>5, <1>6 DEF Next

(* attach_stream: at most one stream request reads the queue of a run, from *)
(* its attachment to its release, whatever cancels and whoever comes.       *)
THEOREM ConsumerIsOne == Spec => []OneConsumer
<1>1. Init => StreamTypes /\ ConsumerInv
  <2> SUFFICES ASSUME Init PROVE StreamTypes /\ ConsumerInv
    OBVIOUS
  <2>1. attached = FALSE /\ spc = [s \in Streams |-> "idle"] /\ back = [s \in Streams |-> "release"]
    BY DEF Init
  <2> QED BY <2>1 DEF StreamTypes, ConsumerInv, OneConsumer, Reads
<1>2. StreamTypes /\ ConsumerInv /\ [Next]_vars => (StreamTypes /\ ConsumerInv)'
  BY StreamStepsKeepTypes, ConsumerStep
<1>3. StreamTypes /\ ConsumerInv => OneConsumer
  BY DEF ConsumerInv
<1> QED BY <1>1, <1>2, <1>3, PTL DEF Spec

-----------------------------------------------------------------------------
(* The types, and the count of the rows, which the types of an event need:  *)
(* the rows of an event are a natural number because the rows returned      *)
(* never pass the limit.                                                    *)
RowsAt(q, i) == IF i <= Len(q) THEN q[i].rows ELSE 0
Pending(q)   == RowsAt(q, 1) + RowsAt(q, 2) + RowsAt(q, 3)
Cut(n)       == IF RowLimit > 0 /\ n > RowLimit THEN RowLimit ELSE n

InResult == wpc = "receive" \/ (wpc \in {"push", "account"} /\ job.next = "receive")

Unreturned == IF wpc = "push" THEN Pending(job.out)
              ELSE IF wpc = "account" THEN Pending(Tail(job.out)) ELSE 0
Unemitted  == IF wpc = "account" THEN Head(job.out).rows ELSE 0

OutInv ==
  /\ Len(job.out) <= 3
  /\ wpc \in {"push", "account"} => job.out # <<>>

CountInv ==
  /\ wpc \in {"off", "begin", "acquire", "command", "attempt"} =>
       emitted = 0 /\ job.returned = 0 /\ job.received = 0 /\ ~job.limit
  /\ InResult => /\ job.returned + Unreturned = Cut(job.received)
                 /\ emitted + Unemitted = job.returned
                 /\ job.limit => RowLimit > 0 /\ job.received >= RowLimit
  /\ wpc \in {"push", "account"} /\ job.next = "fin_ok" => emitted + Pending(job.out) <= 1
  /\ wpc \in {"push", "account"} /\ job.next = "error_set" => Pending(job.out) = 0
  /\ wpc = "fin_limit" => emitted = RowLimit
  /\ status = "ResultLimitReached" => wpc \in {"notify", "ended"} /\ emitted = RowLimit
  /\ RowLimit > 0 => emitted <= RowLimit

(* The types of what the query thread writes, and those of all the rest.    *)
WorkerTypes ==
  /\ status \in Statuses
  /\ report \in Terminal \cup {"none"}
  /\ queue \in Seq(Event) /\ emitted \in Nat
  /\ wpc \in {"off", "begin", "acquire", "command", "attempt", "receive", "push", "account", "failed",
              "catch", "error_set", "fin_ok", "fin_cancel", "fin_limit", "notify", "ended"}
  /\ job \in ThreadJob

RestTypes ==
  /\ StreamTypes
  /\ started \in BOOLEAN /\ cancelRequested \in BOOLEAN
  /\ inTable \in BOOLEAN /\ stopping \in BOOLEAN
  /\ call \in [Callers -> {"idle", "sweep", "erase", "flag", "lock", "notify", "done"}]
  /\ mayContinue \in [Streams -> BOOLEAN]
  /\ open \in [Streams -> BOOLEAN]
  /\ sent \in [Streams -> StreamLog]

DataInv == WorkerTypes /\ OutInv /\ CountInv

LEMMA TypesSplit == TypeOK <=> WorkerTypes /\ RestTypes
BY DEF TypeOK, WorkerTypes, RestTypes, StreamTypes

LEMMA TailPending ==
  ASSUME NEW q \in Seq(Event), q # <<>>, Len(q) <= 3
  PROVE  /\ Head(q) \in Event /\ Tail(q) \in Seq(Event)
         /\ Len(Tail(q)) = Len(q) - 1
         /\ Pending(Tail(q)) \in Nat
         /\ Head(q).rows \in Nat
         /\ Pending(q) = Head(q).rows + Pending(Tail(q))
<1>1. Head(q) \in Event /\ Tail(q) \in Seq(Event) /\ Len(Tail(q)) = Len(q) - 1 /\ Head(q) = q[1]
  OBVIOUS
<1>2. \A i \in 1..(Len(q) - 1) : Tail(q)[i] = q[i + 1]
  OBVIOUS
<1>3. \A i \in 1..Len(q) : q[i] \in Event
  OBVIOUS
<1>4. \A e \in Event : e.rows \in Nat
  BY DEF Event
<1>5. RowsAt(Tail(q), 1) = RowsAt(q, 2) /\ RowsAt(Tail(q), 2) = RowsAt(q, 3) /\ RowsAt(Tail(q), 3) = 0
  BY <1>1, <1>2 DEF RowsAt
<1>6. RowsAt(q, 1) = Head(q).rows /\ RowsAt(q, 1) \in Nat /\ RowsAt(q, 2) \in Nat /\ RowsAt(q, 3) \in Nat
  BY <1>1, <1>3, <1>4 DEF RowsAt
<1> QED BY <1>1, <1>5, <1>6 DEF Pending

LEMMA AppendPending ==
  ASSUME NEW q \in Seq(Event), Len(q) <= 2, NEW e \in Event
  PROVE  /\ Append(q, e) \in Seq(Event)
         /\ Len(Append(q, e)) = Len(q) + 1
         /\ Append(q, e) # <<>>
         /\ Pending(Append(q, e)) = Pending(q) + e.rows
<1>1. /\ Append(q, e) \in Seq(Event) /\ Len(Append(q, e)) = Len(q) + 1 /\ Append(q, e) # <<>>
      /\ Append(q, e)[Len(q) + 1] = e
      /\ \A i \in 1..Len(q) : Append(q, e)[i] = q[i]
  OBVIOUS
<1>2. \A i \in 1..Len(q) : q[i] \in Event
  OBVIOUS
<1>3. \A x \in Event : x.rows \in Nat
  BY DEF Event
<1>4. \A i \in 1..3 : RowsAt(q, i) \in Nat
  BY <1>2, <1>3 DEF RowsAt
<1>5. \A i \in 1..3 : RowsAt(Append(q, e), i) = IF i = Len(q) + 1 THEN e.rows ELSE RowsAt(q, i)
  BY <1>1 DEF RowsAt
<1>6. RowsAt(q, 3) = 0 /\ (Len(q) < 2 => RowsAt(q, 2) = 0) /\ (Len(q) < 1 => RowsAt(q, 1) = 0)
  BY DEF RowsAt
<1> QED BY <1>1, <1>3, <1>4, <1>5, <1>6 DEF Pending

LEMMA EmptyPending == Pending(<<>>) = 0
BY DEF Pending, RowsAt

(* A block becomes at most three events, which carry exactly its rows.      *)
LEMMA BlockPending ==
  ASSUME job \in ThreadJob, NEW n \in Nat, NEW k \in 0..n
  PROVE  /\ BlockEvents(n, k) \in Seq(Event)
         /\ Len(BlockEvents(n, k)) <= 3
         /\ Pending(BlockEvents(n, k)) = n
         /\ BlockEvents(n, k) = <<>> => n = 0
<1> DEFINE mt == [kind |-> "result_meta", rows |-> 0, attempt |-> job.attempt]
<1>1. mt \in Event /\ mt.rows = 0
  BY DEF Event, ThreadJob
<1>2. /\ MetaEvent \in Seq(Event) /\ Len(MetaEvent) <= 1 /\ Pending(MetaEvent) = 0
  <2>1. MetaEvent = IF job.metaSent THEN <<>> ELSE Append(<<>>, mt)
    BY DEF MetaEvent
  <2> DEFINE none == <<>>
  <2>2. none \in Seq(Event) /\ Len(none) <= 2 /\ Len(none) = 0
    OBVIOUS
  <2>3. Pending(none) = 0
    BY EmptyPending
  <2> HIDE DEF mt, none
  <2>4. /\ Append(none, mt) \in Seq(Event) /\ Len(Append(none, mt)) = Len(none) + 1
        /\ Pending(Append(none, mt)) = Pending(none) + mt.rows
    BY <1>1, <2>2, AppendPending, Zenon
  <2> QED BY <1>1, <2>1, <2>2, <2>3, <2>4 DEF none
<1>3. ASSUME NEW q \in Seq(Event), Len(q) <= 2, NEW r \in Nat, Pending(q) \in Nat
      PROVE  /\ RowEvent(q, r) \in Seq(Event)
             /\ Len(RowEvent(q, r)) <= Len(q) + 1
             /\ Pending(RowEvent(q, r)) = Pending(q) + r
             /\ RowEvent(q, r) = <<>> => r = 0 /\ q = <<>>
  <2> DEFINE ev == [kind |-> "result_rows", rows |-> r, attempt |-> job.attempt]
  <2>1. ev \in Event /\ ev.rows = r
    BY DEF Event, ThreadJob
  <2>2. RowEvent(q, r) = IF r = 0 THEN q ELSE Append(q, ev)
    BY DEF RowEvent
  <2> HIDE DEF ev
  <2> QED BY <1>3, <2>1, <2>2, AppendPending
<1>4. k \in Nat /\ n - k \in Nat /\ k + (n - k) = n
  OBVIOUS
<1>5. /\ RowEvent(MetaEvent, k) \in Seq(Event)
      /\ Len(RowEvent(MetaEvent, k)) <= 2
      /\ Pending(RowEvent(MetaEvent, k)) = k
      /\ RowEvent(MetaEvent, k) = <<>> => k = 0
  <2>1. Len(MetaEvent) \in Nat
    BY <1>2
  <2> QED BY <1>2, <1>3, <1>4, <2>1
<1> QED BY <1>3, <1>4, <1>5 DEF BlockEvents

-----------------------------------------------------------------------------
(* The locals of run_query keep their types.                                *)
LEMMA JobFields ==
  ASSUME NEW j \in ThreadJob
  PROVE  /\ j.attempt \in Nat /\ j.received \in Nat /\ j.returned \in Nat /\ j.blocks \in Nat
         /\ j.limit \in BOOLEAN /\ j.described \in BOOLEAN
         /\ j.out \in Seq(Event) /\ j.next \in {"receive", "fin_ok", "error_set"} /\ j.final \in Terminal
BY DEF ThreadJob

LEMMA NoJobType == NoJob \in ThreadJob /\ NoJob.out = <<>> /\ Len(NoJob.out) = 0
<1>1. <<>> \in Seq(Event) /\ Len(<<>>) = 0
  OBVIOUS
<1>2. "none" \in Messages /\ "Finished" \in Terminal
  BY DEF Messages, Terminal
<1> QED BY <1>1, <1>2 DEF NoJob, ThreadJob

LEMMA FailedJob ==
  ASSUME NEW j \in ThreadJob, NEW m \in Messages
  PROVE  /\ [j EXCEPT !.msg = m, !.out = <<>>] \in ThreadJob
         /\ [j EXCEPT !.msg = m, !.out = <<>>].out = <<>>
<1>1. <<>> \in Seq(Event)
  OBVIOUS
<1> QED BY <1>1, Zenon DEF ThreadJob

LEMMA EventJob ==
  ASSUME NEW j \in ThreadJob, NEW o \in Seq(Event)
  PROVE  /\ [j EXCEPT !.out = o] \in ThreadJob
         /\ [j EXCEPT !.out = o].out = o
         /\ [j EXCEPT !.out = o].next = j.next
         /\ [j EXCEPT !.out = o].returned = j.returned
         /\ [j EXCEPT !.out = o].received = j.received
         /\ [j EXCEPT !.out = o].limit = j.limit
BY Zenon DEF ThreadJob

LEMMA ReturnedJob ==
  ASSUME NEW j \in ThreadJob, NEW r \in Nat
  PROVE  /\ [j EXCEPT !.returned = @ + r] \in ThreadJob
         /\ [j EXCEPT !.returned = @ + r].out = j.out
         /\ [j EXCEPT !.returned = @ + r].next = j.next
         /\ [j EXCEPT !.returned = @ + r].returned = j.returned + r
         /\ [j EXCEPT !.returned = @ + r].received = j.received
         /\ [j EXCEPT !.returned = @ + r].limit = j.limit
<1>1. j.returned + r \in Nat
  BY DEF ThreadJob
<1> QED BY <1>1, Zenon DEF ThreadJob

-----------------------------------------------------------------------------
(* The steps of the query thread.                                           *)
Looking == {"off", "begin", "acquire", "command", "attempt"}

(* A step that leaves the result ends in a place with no events to push.    *)
LEMMA LeavesResult ==
  ASSUME DataInv, job' \in ThreadJob, Len(job'.out) = 0, emitted' \in Nat, RowLimit > 0 => emitted' <= RowLimit,
         queue' \in Seq(Event), UNCHANGED <<status, report>>, status # "ResultLimitReached",
         wpc' \in {"failed", "catch", "fin_ok", "fin_cancel", "fin_limit"},
         wpc' = "fin_limit" => emitted' = RowLimit
  PROVE  DataInv'
<1>1. WorkerTypes'
  BY DEF DataInv, WorkerTypes
<1>2. OutInv'
  BY DEF OutInv
<1>3. CountInv'
  BY DEF CountInv, InResult
<1> QED BY <1>1, <1>2, <1>3 DEF DataInv

LEMMA BeginStep ==
  ASSUME DataInv, Begin
  PROVE  DataInv'
<1>1. /\ wpc = "begin" /\ wpc' \in {"fin_cancel", "acquire"}
      /\ UNCHANGED <<job, queue, emitted, status, report>>
  BY DEF Begin, StatusFrame, GoWorker
<1>2. WorkerTypes'
  BY <1>1 DEF DataInv, WorkerTypes
<1>3. OutInv'
  BY <1>1 DEF DataInv, OutInv
<1>4. CountInv'
  BY <1>1 DEF DataInv, CountInv, InResult
<1> QED BY <1>2, <1>3, <1>4 DEF DataInv

LEMMA AcquireStep ==
  ASSUME DataInv, Acquire
  PROVE  DataInv'
<1>1. wpc = "acquire" /\ UNCHANGED <<queue, emitted, status, report>>
  BY DEF Acquire, StatusFrame
<1>2. CASE wpc' \in {"attempt", "command"} /\ UNCHANGED job
  <2>1. WorkerTypes'
    BY <1>1, <1>2 DEF DataInv, WorkerTypes
  <2>2. OutInv'
    BY <1>1, <1>2 DEF DataInv, OutInv
  <2>3. CountInv'
    BY <1>1, <1>2 DEF DataInv, CountInv, InResult
  <2> QED BY <2>1, <2>2, <2>3 DEF DataInv
<1>3. CASE wpc' = "catch" /\ job' = [job EXCEPT !.msg = "error"]
  <2>1. "error" \in Messages
    BY DEF Messages
  <2>2. job' \in ThreadJob /\ job'.out = job.out
    BY <1>3, <2>1, Zenon DEF DataInv, WorkerTypes, ThreadJob
  <2>3. WorkerTypes'
    BY <1>1, <1>3, <2>2 DEF DataInv, WorkerTypes
  <2>4. OutInv'
    BY <1>3, <2>2 DEF DataInv, OutInv
  <2>5. CountInv'
    BY <1>1, <1>3 DEF DataInv, CountInv, InResult
  <2> QED BY <2>3, <2>4, <2>5 DEF DataInv
<1> QED BY <1>2, <1>3 DEF Acquire

LEMMA CommandStep ==
  ASSUME DataInv, Command
  PROVE  DataInv'
<1> DEFINE mt == [kind |-> "result_meta", rows |-> 0, attempt |-> 1]
           ok == [kind |-> "result_rows", rows |-> 1, attempt |-> 1]
           both == <<mt, ok>>
<1>1. both \in Seq(Event) /\ Len(both) = 2 /\ both # <<>> /\ Pending(both) = 1
  BY DEF Event, Pending, RowsAt
<1>2. wpc = "command" /\ emitted = 0 /\ status # "ResultLimitReached" /\ UNCHANGED <<queue, emitted, status, report>>
  BY DEF Command, StatusFrame, DataInv, CountInv
<1>3. CASE wpc' = "push" /\ job' = [job EXCEPT !.attempt = 1, !.next = "fin_ok", !.out = both]
  <2> HIDE DEF both
  <2>1. job' \in ThreadJob /\ job'.out = both /\ job'.next = "fin_ok"
    <3>1. 1 \in Nat /\ "fin_ok" \in {"receive", "fin_ok", "error_set"}
      OBVIOUS
    <3> QED BY <1>1, <1>3, <3>1, Zenon DEF DataInv, WorkerTypes, ThreadJob
  <2>2. WorkerTypes'
    BY <1>2, <1>3, <2>1 DEF DataInv, WorkerTypes
  <2>3. OutInv'
    <3>1. Len(job'.out) = 2 /\ job'.out # <<>>
      BY <1>1, <2>1, Zenon
    <3> QED BY <3>1 DEF OutInv
  <2>4. CountInv'
    BY <1>1, <1>2, <1>3, <2>1, SessionAssumption DEF CountInv, InResult
  <2> QED BY <2>2, <2>3, <2>4 DEF DataInv
<1>4. CASE wpc' = "catch" /\ \E m \in Messages : job' = [job EXCEPT !.msg = m]
  <2>1. job' \in ThreadJob /\ job'.out = job.out
    BY <1>4, Zenon DEF DataInv, WorkerTypes, ThreadJob
  <2>2. WorkerTypes'
    BY <1>2, <1>4, <2>1 DEF DataInv, WorkerTypes
  <2>3. OutInv'
    BY <1>4, <2>1 DEF DataInv, OutInv
  <2>4. CountInv'
    BY <1>2, <1>4, SessionAssumption DEF CountInv, InResult
  <2> QED BY <2>2, <2>3, <2>4 DEF DataInv
<1> QED BY <1>3, <1>4 DEF Command, Messages

LEMMA AttemptStep ==
  ASSUME DataInv, Attempt
  PROVE  DataInv'
<1>1. /\ wpc = "attempt" /\ emitted = 0 /\ status # "ResultLimitReached"
      /\ job.returned = 0 /\ job.received = 0 /\ ~job.limit /\ UNCHANGED <<queue, emitted, status, report>>
  BY DEF Attempt, StatusFrame, DataInv, CountInv
<1>2. job \in ThreadJob /\ emitted \in Nat /\ queue \in Seq(Event) /\ RowLimit \in Nat /\ Len(job.out) <= 3
  BY SessionAssumption DEF DataInv, WorkerTypes, OutInv
<1>3. CASE \E m \in Messages : Fails(m)
  <2>1. job' \in ThreadJob /\ job'.out = <<>> /\ wpc' = "failed"
    BY <1>2, <1>3, FailedJob DEF Fails
  <2>2. emitted' = 0 /\ emitted' \in Nat /\ (RowLimit > 0 => emitted' <= RowLimit)
    BY <1>1, <1>2
  <2>3. Len(job'.out) = 0 /\ queue' \in Seq(Event)
    BY <1>1, <1>2, <2>1
  <2> QED BY <1>1, <2>1, <2>2, <2>3, LeavesResult
<1>4. CASE wpc' = "receive" /\ \E b \in BOOLEAN : job' = [job EXCEPT !.attempt = @ + 1, !.planCached = b]
  <2>1. job.attempt + 1 \in Nat
    BY <1>2, JobFields
  <2>2. /\ job' \in ThreadJob /\ job'.out = job.out /\ job'.returned = job.returned
        /\ job'.received = job.received /\ job'.limit = job.limit
    BY <1>2, <1>4, <2>1, Zenon DEF ThreadJob
  <2>3. WorkerTypes'
    BY <1>1, <1>4, <2>2 DEF DataInv, WorkerTypes
  <2>4. OutInv'
    BY <1>2, <1>4, <2>2 DEF OutInv
  <2>5. CountInv'
    BY <1>1, <1>2, <1>4, <2>2 DEF CountInv, InResult, Unreturned, Unemitted, Cut
  <2> QED BY <2>3, <2>4, <2>5 DEF DataInv
<1> QED BY <1>3, <1>4 DEF Attempt, Messages

LEMMA BlockStep ==
  ASSUME DataInv, Block
  PROVE  DataInv'
<1>1. PICK n \in BlockRows \cup {0} :
       IF n > 0 /\ AtLimit
         THEN /\ job' = [job EXCEPT !.limit = TRUE]
              /\ UNCHANGED wpc
         ELSE \E k \in 0..Shown(n) :
              /\ k = 0 => Shown(n) = 0
              /\ job' = [job EXCEPT !.blocks = @ + 1, !.metaSent = TRUE, !.received = @ + n,
                           !.out = BlockEvents(Shown(n), k), !.next = "receive",
                           !.limit = RowLimit > 0 /\ job.received + n > RowLimit]
              /\ wpc' = IF BlockEvents(Shown(n), k) = <<>> THEN "receive" ELSE "push"
  BY DEF Block
<1>2. n \in Nat /\ RowLimit \in Nat
  BY SessionAssumption
<1>3. /\ job \in ThreadJob /\ job.received \in Nat /\ job.returned \in Nat /\ job.blocks \in Nat
      /\ job.out \in Seq(Event) /\ Len(job.out) <= 3 /\ emitted \in Nat
  BY JobFields DEF DataInv, WorkerTypes, OutInv
<1>4. wpc = "receive" /\ ~job.limit /\ UNCHANGED <<queue, emitted, status, report>> /\ status # "ResultLimitReached"
  BY DEF Block, StatusFrame, DataInv, CountInv
<1>5. job.returned = Cut(job.received) /\ emitted = job.returned
  BY <1>3, <1>4 DEF DataInv, CountInv, InResult, Unreturned, Unemitted
<1>6. CASE n > 0 /\ AtLimit
  <2>1. /\ job' \in ThreadJob /\ job'.out = job.out /\ job'.returned = job.returned
        /\ job'.received = job.received /\ job'.limit = TRUE /\ wpc' = "receive"
    BY <1>1, <1>3, <1>4, <1>6, Zenon DEF ThreadJob
  <2>2. WorkerTypes'
    BY <1>4, <2>1 DEF DataInv, WorkerTypes
  <2>3. OutInv'
    BY <1>3, <2>1 DEF OutInv
  <2>4. CountInv'
    BY <1>2, <1>3, <1>4, <1>5, <1>6, <2>1 DEF CountInv, InResult, Unreturned, Unemitted, Cut, AtLimit
  <2> QED BY <2>2, <2>3, <2>4 DEF DataInv
<1>7. CASE ~(n > 0 /\ AtLimit)
  <2> DEFINE limit == RowLimit > 0 /\ job.received + n > RowLimit
  <2>1. PICK k \in 0..Shown(n) :
          /\ job' = [job EXCEPT !.blocks = @ + 1, !.metaSent = TRUE, !.received = @ + n,
                       !.out = BlockEvents(Shown(n), k), !.next = "receive", !.limit = limit]
          /\ wpc' = IF BlockEvents(Shown(n), k) = <<>> THEN "receive" ELSE "push"
    BY <1>1, <1>7
  <2>2. Shown(n) \in Nat /\ job.returned + Shown(n) = Cut(job.received + n)
    BY <1>2, <1>3, <1>5, <1>7 DEF Shown, Cut, AtLimit
  <2> DEFINE out == BlockEvents(Shown(n), k)
  <2>3. out \in Seq(Event) /\ Len(out) <= 3 /\ Pending(out) = Shown(n) /\ (out = <<>> => Shown(n) = 0)
    BY <1>3, <2>2, BlockPending
  <2>4. limit \in BOOLEAN /\ TRUE \in BOOLEAN /\ job.blocks + 1 \in Nat /\ job.received + n \in Nat
    BY <1>2, <1>3
  <2>5. "receive" \in {"receive", "fin_ok", "error_set"}
    OBVIOUS
  <2>6. /\ job' = [job EXCEPT !.blocks = @ + 1, !.metaSent = TRUE, !.received = @ + n,
                     !.out = out, !.next = "receive", !.limit = limit]
        /\ wpc' = IF out = <<>> THEN "receive" ELSE "push"
    BY <2>1
  <2> HIDE DEF out, limit
  <2>7. /\ job' \in ThreadJob /\ job'.out = out /\ job'.next = "receive" /\ job'.received = job.received + n
        /\ job'.returned = job.returned /\ job'.limit = limit
    BY <1>3, <2>3, <2>4, <2>5, <2>6, Zenon DEF ThreadJob
  <2>8. WorkerTypes'
    BY <1>4, <2>6, <2>7 DEF DataInv, WorkerTypes
  <2>9. OutInv'
    BY <2>3, <2>6, <2>7 DEF OutInv
  <2>10. job'.returned + Unreturned' = Cut(job'.received) /\ emitted' + Unemitted' = job'.returned
    <3>1. Unemitted' = 0 /\ Unreturned' = Shown(n)
      BY <2>3, <2>6, <2>7 DEF Unreturned, Unemitted
    <3> QED BY <1>3, <1>4, <1>5, <2>2, <2>7, <3>1 DEF Cut
  <2>11. job'.limit => RowLimit > 0 /\ job'.received >= RowLimit
    <3>1. limit => RowLimit > 0 /\ job.received + n >= RowLimit
      BY <1>2, <1>3 DEF limit
    <3>2. job'.limit => limit
      BY <2>7, Zenon
    <3> QED BY <2>7, <3>1, <3>2
  <2>12. RowLimit > 0 => emitted' <= RowLimit
    BY <1>2, <1>3, <1>4, <1>5 DEF Cut
  <2>13. CountInv'
    BY <1>4, <2>6, <2>7, <2>10, <2>11, <2>12 DEF CountInv, InResult
  <2> QED BY <2>8, <2>9, <2>13 DEF DataInv
<1> QED BY <1>6, <1>7

LEMMA StatementStep ==
  ASSUME DataInv, StatementEnds \/ StatementFails
  PROVE  DataInv'
<1>1. /\ wpc = "receive" /\ UNCHANGED <<queue, emitted, status, report>> /\ status # "ResultLimitReached"
  BY DEF StatementEnds, StatementFails, GoWorker, StatusFrame, DataInv, CountInv
<1>2. job \in ThreadJob /\ emitted \in Nat /\ queue \in Seq(Event) /\ (RowLimit > 0 => emitted <= RowLimit)
  BY DEF DataInv, WorkerTypes, CountInv
<1>3. CASE StatementEnds
  <2>1. job.limit => emitted = RowLimit
    <3>1. /\ job.returned + Unreturned = Cut(job.received) /\ emitted + Unemitted = job.returned
          /\ job.limit => RowLimit > 0 /\ job.received >= RowLimit
      BY <1>1 DEF DataInv, CountInv, InResult
    <3>2. Unreturned = 0 /\ Unemitted = 0 /\ job.returned \in Nat /\ job.received \in Nat /\ RowLimit \in Nat
      BY <1>1, <1>2, JobFields, SessionAssumption DEF Unreturned, Unemitted
    <3> QED BY <1>2, <3>1, <3>2 DEF Cut
  <2>2. job' = NoJob /\ wpc' = IF job.limit THEN "fin_limit" ELSE "fin_ok"
    BY <1>3 DEF StatementEnds, GoWorker
  <2> QED BY <1>1, <1>2, <2>1, <2>2, NoJobType, LeavesResult
<1>4. CASE StatementFails
  <2>1. PICK m \in Messages : Fails(m)
    BY <1>4 DEF StatementFails, Messages
  <2>2. job' \in ThreadJob /\ job'.out = <<>> /\ wpc' = "failed"
    BY <1>2, <2>1, FailedJob DEF Fails
  <2> QED BY <1>1, <1>2, <2>2, LeavesResult
<1> QED BY <1>3, <1>4

(* Push and Account, and the two ways in which an event ends its attempt.   *)
LEMMA EventFacts ==
  ASSUME DataInv, wpc \in {"push", "account"}
  PROVE  /\ job \in ThreadJob /\ job.out \in Seq(Event) /\ job.out # <<>> /\ Len(job.out) <= 3
         /\ Head(job.out) \in Event /\ Head(job.out).rows \in Nat
         /\ Tail(job.out) \in Seq(Event) /\ Len(Tail(job.out)) = Len(job.out) - 1
         /\ Pending(Tail(job.out)) \in Nat
         /\ Pending(job.out) = Head(job.out).rows + Pending(Tail(job.out))
         /\ emitted \in Nat /\ queue \in Seq(Event) /\ status # "ResultLimitReached"
<1>1. job \in ThreadJob /\ job.out \in Seq(Event) /\ job.out # <<>> /\ Len(job.out) <= 3
  BY JobFields DEF DataInv, WorkerTypes, OutInv
<1>2. emitted \in Nat /\ queue \in Seq(Event) /\ status # "ResultLimitReached"
  BY DEF DataInv, WorkerTypes, CountInv
<1> QED BY <1>1, <1>2, TailPending

LEMMA PushStep ==
  ASSUME DataInv, Push
  PROVE  DataInv'
<1> DEFINE e == Head(job.out)
           rest == Tail(job.out)
<1>1. /\ wpc = "push" /\ wpc' = "account" /\ job' = [job EXCEPT !.returned = @ + e.rows]
      /\ queue' = IF cancelRequested THEN queue ELSE Append(queue, e)
      /\ UNCHANGED <<status, report, emitted>>
  BY DEF Push, GoWorker, StatusFrame
<1>2. /\ job \in ThreadJob /\ job.out \in Seq(Event) /\ job.out # <<>> /\ Len(job.out) <= 3
      /\ e \in Event /\ e.rows \in Nat /\ Pending(rest) \in Nat /\ Pending(job.out) = e.rows + Pending(rest)
      /\ emitted \in Nat /\ queue \in Seq(Event) /\ status # "ResultLimitReached"
  BY <1>1, EventFacts
<1>3. /\ job' \in ThreadJob /\ job'.out = job.out /\ job'.next = job.next
      /\ job'.returned = job.returned + e.rows /\ job'.received = job.received /\ job'.limit = job.limit
  BY <1>1, <1>2, ReturnedJob
<1>4. Head(job'.out) = e /\ Tail(job'.out) = rest
  BY <1>3
<1>5. queue' \in Seq(Event)
  BY <1>1, <1>2
<1> HIDE DEF e, rest
<1>6. WorkerTypes'
  BY <1>1, <1>3, <1>5 DEF DataInv, WorkerTypes
<1>7. OutInv'
  BY <1>2, <1>3 DEF OutInv
<1>8. CountInv'
  <2>1. InResult' => InResult
    BY <1>1, <1>3 DEF InResult
  <2>2. Unreturned = Pending(job.out) /\ Unemitted = 0 /\ Unreturned' = Pending(rest) /\ Unemitted' = e.rows
    BY <1>1, <1>4 DEF Unreturned, Unemitted
  <2>3. job.returned \in Nat
    BY <1>2, JobFields
  <2>4. InResult' => /\ job'.returned + Unreturned' = Cut(job'.received)
                     /\ emitted' + Unemitted' = job'.returned
                     /\ job'.limit => RowLimit > 0 /\ job'.received >= RowLimit
    BY <1>1, <1>2, <1>3, <2>1, <2>2, <2>3 DEF DataInv, CountInv, Cut
  <2> QED BY <1>1, <1>2, <1>3, <2>4 DEF DataInv, CountInv
<1> QED BY <1>6, <1>7, <1>8 DEF DataInv

LEMMA EncodeFailsStep ==
  ASSUME DataInv, EncodeFails
  PROVE  DataInv'
<1> DEFINE e == Head(job.out)
<1>1. /\ wpc = "push" /\ wpc' = "failed" /\ UNCHANGED <<status, report, queue, emitted>>
  BY DEF EncodeFails, StatusFrame
<1>2. /\ job \in ThreadJob /\ e.rows \in Nat /\ emitted \in Nat /\ queue \in Seq(Event) /\ status # "ResultLimitReached"
  BY <1>1, EventFacts
<1>3. PICK r \in 0..e.rows : job' = [job EXCEPT !.msg = "error", !.returned = @ + r, !.out = <<>>]
  BY DEF EncodeFails
<1> HIDE DEF e
<1>4. job.returned + r \in Nat
  BY <1>2, JobFields
<1>5. "error" \in Messages /\ <<>> \in Seq(Event)
  BY DEF Messages
<1>6. job' \in ThreadJob /\ job'.out = <<>>
  BY <1>2, <1>3, <1>4, <1>5, Zenon DEF ThreadJob
<1>7. Len(job'.out) = 0 /\ (RowLimit > 0 => emitted' <= RowLimit)
  BY <1>1, <1>6 DEF DataInv, CountInv
<1> QED BY <1>1, <1>2, <1>6, <1>7, LeavesResult

LEMMA AccountStep ==
  ASSUME DataInv, Account
  PROVE  DataInv'
<1> DEFINE e == Head(job.out)
           rest == Tail(job.out)
<1>1. wpc = "account" /\ emitted' = emitted + e.rows /\ UNCHANGED <<queue, status, report>>
  BY DEF Account, StatusFrame
<1>2. /\ job \in ThreadJob /\ job.out \in Seq(Event) /\ job.out # <<>> /\ Len(job.out) <= 3
      /\ e.rows \in Nat /\ rest \in Seq(Event) /\ Len(rest) = Len(job.out) - 1
      /\ Pending(rest) \in Nat /\ Pending(job.out) = e.rows + Pending(rest)
      /\ emitted \in Nat /\ queue \in Seq(Event) /\ status # "ResultLimitReached"
  BY <1>1, EventFacts
<1>3. /\ job.returned \in Nat /\ job.received \in Nat /\ RowLimit \in Nat
      /\ job.next \in {"receive", "fin_ok", "error_set"}
  BY <1>2, JobFields, SessionAssumption
<1>4. Unreturned = Pending(rest) /\ Unemitted = e.rows
  BY <1>1 DEF Unreturned, Unemitted
<1>5. \/ (wpc' = "failed" /\ \E m \in Messages : job' = [job EXCEPT !.msg = m, !.out = <<>>])
      \/ (job' = [job EXCEPT !.out = rest] /\ wpc' = IF Len(job.out) > 1 THEN "push" ELSE job.next)
  BY DEF Account, Fails, Messages
<1> HIDE DEF e, rest
<1>6. job.next = "receive" => /\ job.returned + Pending(rest) = Cut(job.received)
                              /\ emitted + e.rows = job.returned
                              /\ job.limit => RowLimit > 0 /\ job.received >= RowLimit
  BY <1>1, <1>4 DEF DataInv, CountInv, InResult
<1>7. RowLimit > 0 => emitted' <= RowLimit
  <2>1. CASE job.next = "receive"
    BY <1>1, <1>2, <1>3, <1>6, <2>1 DEF Cut
  <2>2. CASE job.next = "fin_ok"
    BY <1>1, <1>2, <1>3, <2>2 DEF DataInv, CountInv
  <2>3. CASE job.next = "error_set"
    BY <1>1, <1>2, <1>3, <2>3 DEF DataInv, CountInv
  <2> QED BY <1>3, <2>1, <2>2, <2>3
<1>8. emitted' \in Nat
  BY <1>1, <1>2
<1>9. CASE wpc' = "failed" /\ \E m \in Messages : job' = [job EXCEPT !.msg = m, !.out = <<>>]
  <2>1. job' \in ThreadJob /\ job'.out = <<>>
    <3>1. PICK m \in Messages : job' = [job EXCEPT !.msg = m, !.out = <<>>]
      BY <1>9
    <3> QED BY <1>2, <3>1, FailedJob
  <2>2. Len(job'.out) = 0
    BY <2>1
  <2> QED BY <1>1, <1>2, <1>7, <1>8, <1>9, <2>1, <2>2, LeavesResult
<1>10. CASE job' = [job EXCEPT !.out = rest] /\ wpc' = IF Len(job.out) > 1 THEN "push" ELSE job.next
  <2>1. /\ job' \in ThreadJob /\ job'.out = rest /\ job'.next = job.next /\ job'.returned = job.returned
        /\ job'.received = job.received /\ job'.limit = job.limit
    BY <1>2, <1>10, EventJob
  <2>2. wpc' = "push" => rest # <<>>
    BY <1>2, <1>3, <1>10
  <2>3. wpc' # "push" => Pending(rest) = 0 /\ wpc' = job.next
    <3>1. Len(rest) = 0 => rest = <<>>
      BY <1>2
    <3>2. Len(job.out) # 0
      BY <1>2
    <3> QED BY <1>2, <1>10, <3>1, <3>2, EmptyPending
  <2>4. wpc' \in {"push", "receive", "fin_ok", "error_set"}
    BY <1>3, <1>10
  <2>5. WorkerTypes'
    BY <1>1, <1>8, <2>1, <2>4 DEF DataInv, WorkerTypes
  <2>6. OutInv'
    BY <1>2, <2>1, <2>2, <2>4 DEF OutInv
  <2>7. Unreturned' = Pending(rest) /\ Unemitted' = 0
    BY <2>1, <2>3, <2>4 DEF Unreturned, Unemitted
  <2>8. InResult' => job.next = "receive"
    BY <2>1, <2>3, <2>4 DEF InResult
  <2>9. InResult' => /\ job'.returned + Unreturned' = Cut(job'.received)
                     /\ emitted' + Unemitted' = job'.returned
                     /\ job'.limit => RowLimit > 0 /\ job'.received >= RowLimit
    BY <1>1, <1>2, <1>3, <1>6, <2>1, <2>7, <2>8
  <2>10. wpc' \in {"push", "account"} /\ job'.next = "fin_ok" => emitted' + Pending(job'.out) <= 1
    BY <1>1, <1>2, <2>1, <2>4 DEF DataInv, CountInv
  <2>11. wpc' \in {"push", "account"} /\ job'.next = "error_set" => Pending(job'.out) = 0
    BY <1>1, <1>2, <2>1, <2>4 DEF DataInv, CountInv
  <2>12. CountInv'
    BY <1>1, <1>2, <1>7, <2>4, <2>9, <2>10, <2>11 DEF CountInv
  <2> QED BY <2>5, <2>6, <2>12 DEF DataInv
<1> QED BY <1>5, <1>9, <1>10

LEMMA RetryStep ==
  ASSUME DataInv, Retry
  PROVE  DataInv'
<1>1. wpc = "failed" /\ wpc' = "attempt" /\ emitted' = 0 /\ job' = Restart /\ UNCHANGED <<queue, status, report>>
  BY DEF Retry, GoWorker, StatusFrame
<1>2. job \in ThreadJob /\ status # "ResultLimitReached"
  BY <1>1 DEF DataInv, WorkerTypes, CountInv
<1>3. <<>> \in Seq(Event) /\ "none" \in Messages /\ 0 \in Nat /\ (~job.described) \in BOOLEAN
  BY DEF Messages
<1>4. /\ Restart \in ThreadJob /\ Restart.out = <<>> /\ Restart.returned = 0 /\ Restart.received = 0
      /\ Restart.limit = FALSE
  BY <1>2, <1>3, Zenon DEF ThreadJob, Restart
<1>5. WorkerTypes'
  BY <1>1, <1>3, <1>4 DEF DataInv, WorkerTypes
<1>6. OutInv'
  BY <1>1, <1>4 DEF OutInv
<1>7. CountInv'
  BY <1>1, <1>2, <1>4, SessionAssumption DEF CountInv, InResult
<1> QED BY <1>5, <1>6, <1>7 DEF DataInv

LEMMA RethrowStep ==
  ASSUME DataInv, Rethrow
  PROVE  DataInv'
<1> DEFINE m == IF MayRetry THEN "error" ELSE job.msg
<1>1. /\ wpc = "failed" /\ wpc' = "catch" /\ UNCHANGED <<queue, emitted, status, report>>
      /\ job' = [NoJob EXCEPT !.attempt = job.attempt, !.msg = m]
  BY DEF Rethrow, GoWorker, StatusFrame
<1>2. /\ job \in ThreadJob /\ status # "ResultLimitReached" /\ emitted \in Nat /\ queue \in Seq(Event)
      /\ RowLimit > 0 => emitted <= RowLimit
  BY <1>1 DEF DataInv, WorkerTypes, CountInv
<1>3. job.attempt \in Nat /\ m \in Messages
  BY <1>2, JobFields DEF ThreadJob, Messages
<1> HIDE DEF m
<1>4. job' \in ThreadJob /\ job'.out = NoJob.out
  BY <1>1, <1>3, NoJobType, Zenon DEF ThreadJob
<1>5. Len(job'.out) = 0
  BY <1>4, NoJobType
<1> QED BY <1>1, <1>2, <1>4, <1>5, LeavesResult

LEMMA CatchStep ==
  ASSUME DataInv, Catch
  PROVE  DataInv'
<1> DEFINE told == <<[kind |-> "error", rows |-> 0, attempt |-> job.attempt]>>
<1>1. wpc = "catch" /\ UNCHANGED <<queue, emitted, status, report>>
  BY DEF Catch, StatusFrame
<1>2. /\ job \in ThreadJob /\ status # "ResultLimitReached" /\ emitted \in Nat /\ queue \in Seq(Event)
      /\ RowLimit > 0 => emitted <= RowLimit
  BY <1>1 DEF DataInv, WorkerTypes, CountInv
<1>3. told \in Seq(Event) /\ Len(told) = 1 /\ told # <<>> /\ Pending(told) = 0
  BY <1>2, JobFields DEF Event, Pending, RowsAt
<1>4. CASE wpc' = "fin_cancel" /\ job' = NoJob
  BY <1>1, <1>2, <1>4, NoJobType, LeavesResult
<1>5. CASE wpc' = "push" /\ job' = [NoJob EXCEPT !.next = "error_set", !.out = told]
  <2> HIDE DEF told
  <2>1. "error_set" \in {"receive", "fin_ok", "error_set"}
    OBVIOUS
  <2>2. job' \in ThreadJob /\ job'.out = told /\ job'.next = "error_set"
    BY <1>3, <1>5, <2>1, NoJobType, Zenon DEF ThreadJob
  <2>3. WorkerTypes'
    BY <1>1, <1>5, <2>2 DEF DataInv, WorkerTypes
  <2>4. OutInv'
    <3>1. Len(job'.out) = 1 /\ job'.out # <<>>
      BY <1>3, <2>2, Zenon
    <3> QED BY <3>1 DEF OutInv
  <2>5. CountInv'
    BY <1>1, <1>2, <1>3, <1>5, <2>2 DEF CountInv, InResult
  <2> QED BY <2>3, <2>4, <2>5 DEF DataInv
<1> QED BY <1>4, <1>5 DEF Catch

LEMMA FinishStep ==
  ASSUME DataInv, NEW from \in {"error_set", "fin_cancel", "fin_limit", "fin_ok"}, NEW s \in Terminal,
         Finish(from, s), s = "ResultLimitReached" => from = "fin_limit"
  PROVE  DataInv'
<1>1. /\ wpc = from /\ wpc' = "notify" /\ status' = s /\ job' = [NoJob EXCEPT !.final = s]
      /\ UNCHANGED <<queue, emitted, report>>
  BY DEF Finish, GoWorker
<1>2. job' \in ThreadJob /\ job'.out = NoJob.out
  BY <1>1, NoJobType, Zenon DEF ThreadJob
<1>3. WorkerTypes'
  BY <1>1, <1>2 DEF DataInv, WorkerTypes, Statuses
<1>4. OutInv'
  BY <1>1, <1>2, NoJobType DEF OutInv
<1>5. CountInv'
  BY <1>1 DEF DataInv, CountInv, InResult
<1> QED BY <1>3, <1>4, <1>5 DEF DataInv

LEMMA EndSteps ==
  ASSUME DataInv, FinishOkCanceled \/ WorkerNotify
  PROVE  DataInv'
<1>1. /\ wpc' = "ended" /\ job' = NoJob /\ UNCHANGED <<queue, emitted, status>>
      /\ wpc = "notify" \/ (wpc = "fin_ok" /\ status = "Canceled")
      /\ report' \in {report, job.final}
  BY DEF FinishOkCanceled, WorkerNotify, GoWorker, StatusFrame, Notify
<1>2. WorkerTypes'
  BY <1>1, NoJobType, JobFields DEF DataInv, WorkerTypes
<1>3. OutInv'
  BY <1>1, NoJobType DEF OutInv
<1>4. CountInv'
  BY <1>1 DEF DataInv, CountInv, InResult
<1> QED BY <1>2, <1>3, <1>4 DEF DataInv

LEMMA QueryThreadStep ==
  ASSUME DataInv, QueryThread
  PROVE  DataInv'
<1>1. CASE Begin \/ Acquire \/ Command \/ Attempt \/ Block
  BY <1>1, BeginStep, AcquireStep, CommandStep, AttemptStep, BlockStep
<1>2. CASE StatementEnds \/ StatementFails \/ Push \/ EncodeFails \/ Account
  BY <1>2, StatementStep, PushStep, EncodeFailsStep, AccountStep
<1>3. CASE Retry \/ Rethrow \/ Catch
  BY <1>3, RetryStep, RethrowStep, CatchStep
<1>4. CASE FinishError \/ FinishCanceled \/ FinishLimit \/ FinishOk
  BY <1>4, FinishStep DEF FinishError, FinishCanceled, FinishLimit, FinishOk, Terminal
<1>5. CASE FinishOkCanceled \/ WorkerNotify
  BY <1>5, EndSteps
<1> QED BY <1>1, <1>2, <1>3, <1>4, <1>5 DEF QueryThread

-----------------------------------------------------------------------------
(* The thread of a run is started once: by the one stream that reads, while *)
(* there is no thread yet.                                                  *)
StartInv ==
  /\ ~started => wpc = "off"
  /\ \A s \in Streams : spc[s] \in {"start_check", "spawn"} => started /\ wpc = "off"

LEMMA QueryThreadFrame ==
  ASSUME QueryThread
  PROVE  WorkerFrame /\ wpc # "off"
<1>1. WorkerFrame
  BY DEF QueryThread, Begin, Acquire, Command, Attempt, Block, StatementEnds, StatementFails,
     Push, EncodeFails, Account, Retry, Rethrow, Catch, FinishError, FinishCanceled, FinishLimit, FinishOk,
     FinishOkCanceled, WorkerNotify, Finish
<1>2. wpc # "off"
  BY DEF QueryThread, Begin, Acquire, Command, Attempt, Block, StatementEnds, StatementFails,
     Push, EncodeFails, Account, Retry, Rethrow, Catch, FinishError, FinishCanceled, FinishLimit, FinishOk,
     FinishOkCanceled, WorkerNotify, Finish, GoWorker
<1> QED BY <1>1, <1>2

LEMMA StreamsKeepStartInv ==
  ASSUME StartInv, UNCHANGED <<started, wpc>>,
         \A s \in Streams : spc'[s] \in {"start_check", "spawn"} => spc[s] \in {"start_check", "spawn"}
  PROVE  StartInv'
BY DEF StartInv

LEMMA StartInvStep ==
  ASSUME StreamTypes, ConsumerInv, StartInv, [Next]_vars
  PROVE  StartInv'
<1> USE DEF streamVars, lifeVars, resultVars, workerVars, serverVars
<1>1. CASE QueryThread
  BY <1>1, QueryThreadFrame DEF WorkerFrame, StartInv
<1>2. CASE ApiCancel \/ StopBegin \/ StopSweep \/ ReaperPick \/ ReaperErase
  BY <1>2, StreamsKeepStartInv DEF ApiCancel, StopBegin, StopSweep, ReaperPick, ReaperErase
<1>3. CASE \E c \in Callers : CancelStep(c)
  BY <1>3, StreamsKeepStartInv DEF CancelStep, CancelFlag, CancelLock, CancelNotify
<1>4. ASSUME NEW s \in Streams, StreamBegin(s) \/ SpawnThrows(s)
      PROVE  StartInv'
  <2>1. CASE StreamRoute(s) \/ StreamFind(s) \/ StreamAttach(s) \/ StartCheck(s) \/ SpawnThrows(s)
    BY <2>1, StreamsKeepStartInv DEF StreamRoute, StreamFind, StreamAttach, StartCheck, SpawnThrows, GoStream, StreamTypes
  <2>2. CASE Start(s)
    BY <2>2 DEF Start, GoStream, StreamTypes, StartInv
  <2>3. CASE Spawn(s)
    <3>1. /\ started /\ UNCHANGED started
          /\ spc'[s] = "meta" /\ \A r \in Streams \ {s} : spc'[r] = spc[r]
      BY <2>3 DEF Spawn, GoStream, StreamTypes, StartInv
    <3>2. \A r \in Streams \ {s} : spc[r] \notin {"start_check", "spawn"}
      BY <2>3 DEF Spawn, GoStream, ConsumerInv, OneConsumer, Reads
    <3> QED BY <3>1, <3>2 DEF StartInv
  <2> QED BY <1>4, <2>1, <2>2, <2>3 DEF StreamBegin
<1>5. ASSUME NEW s \in Streams, StreamProvides(s) \/ ClientCut(s)
      PROVE  StartInv'
  <2>1. CASE WriteFails(s) \/ WriteTick(s) \/ WriteDoneFails(s) \/ Release(s)
    BY <2>1, StreamsKeepStartInv DEF WriteFails, WriteTick, WriteDoneFails, Release, GoStream, StreamCancels, StreamTypes
  <2>2. CASE WriteMeta(s) \/ PopBatch(s) \/ PopNothing(s) \/ WriteBatch(s)
    BY <2>2, StreamsKeepStartInv DEF WriteMeta, PopBatch, PopNothing, WriteBatch, GoStream, StreamTypes
  <2>3. CASE WriteDone(s) \/ EraseAtDone(s) \/ CutNoticed(s) \/ EraseAtRelease(s)
    BY <2>3, StreamsKeepStartInv DEF WriteDone, EraseAtDone, CutNoticed, EraseAtRelease, GoStream, StreamTypes
  <2>4. CASE CancelReturns(s) \/ ClientCut(s)
    <3>1. back[s] \notin {"start_check", "spawn"}
      BY DEF StreamTypes
    <3> QED BY <2>4, <3>1, StreamsKeepStartInv DEF CancelReturns, ClientCut, GoStream, StreamTypes
  <2> QED BY <1>5, <2>1, <2>2, <2>3, <2>4 DEF StreamProvides
<1>6. CASE UNCHANGED vars
  BY <1>6, StreamsKeepStartInv DEF vars
<1> QED BY <1>1, <1>2, <1>3, <1>4, <1>5, <1>6 DEF Next

-----------------------------------------------------------------------------
(* The steps of all the others keep what the query thread counts.           *)
LEMMA OthersKeepData ==
  ASSUME DataInv, UNCHANGED <<emitted, wpc, job>>, queue' \in Seq(Event), report' \in Terminal \cup {"none"},
         status' = status \/ status' \in {"Running", "Canceled"}
  PROVE  DataInv'
<1>1. WorkerTypes'
  BY DEF DataInv, WorkerTypes, Statuses, Terminal
<1>2. OutInv'
  BY DEF DataInv, OutInv
<1>3. CountInv'
  BY DEF DataInv, CountInv, InResult, Unreturned, Unemitted
<1> QED BY <1>1, <1>2, <1>3 DEF DataInv

LEMMA SpawnKeepsData ==
  ASSUME DataInv, wpc = "off", wpc' = "begin", UNCHANGED <<emitted, job, queue, report, status>>
  PROVE  DataInv'
<1>1. WorkerTypes'
  BY DEF DataInv, WorkerTypes
<1>2. OutInv'
  BY DEF DataInv, OutInv
<1>3. CountInv'
  BY DEF DataInv, CountInv, InResult
<1> QED BY <1>1, <1>2, <1>3 DEF DataInv

LEMMA DataStep ==
  ASSUME DataInv, StreamTypes, StartInv, [Next]_vars
  PROVE  DataInv'
<1> USE DEF streamVars, lifeVars, resultVars, workerVars, serverVars
<1>1. queue \in Seq(Event) /\ report \in Terminal \cup {"none"} /\ "Canceled" \in Terminal
  BY DEF DataInv, WorkerTypes, Terminal
<1>2. CASE QueryThread
  BY <1>2, QueryThreadStep
<1>3. CASE ApiCancel \/ StopBegin \/ StopSweep \/ ReaperPick \/ ReaperErase
  BY <1>1, <1>3, OthersKeepData DEF ApiCancel, StopBegin, StopSweep, ReaperPick, ReaperErase
<1>4. CASE \E c \in Callers : CancelStep(c)
  BY <1>1, <1>4, OthersKeepData DEF CancelStep, CancelFlag, CancelLock, CancelNotify, Notify
<1>5. ASSUME NEW s \in Streams, StreamBegin(s) \/ SpawnThrows(s)
      PROVE  DataInv'
  <2>1. CASE StreamRoute(s) \/ StreamFind(s) \/ StreamAttach(s) \/ SpawnThrows(s)
    BY <1>1, <2>1, OthersKeepData DEF StreamRoute, StreamFind, StreamAttach, SpawnThrows
  <2>2. CASE Start(s) \/ StartCheck(s)
    BY <1>1, <2>2, OthersKeepData DEF Start, StartCheck, Notify
  <2>3. CASE Spawn(s)
    <3>1. wpc = "off" /\ wpc' = "begin" /\ UNCHANGED <<emitted, job, queue, report, status>>
      BY <2>3 DEF Spawn, GoStream, StartInv
    <3> QED BY <3>1, SpawnKeepsData
  <2> QED BY <1>5, <2>1, <2>2, <2>3 DEF StreamBegin
<1>6. ASSUME NEW s \in Streams, StreamProvides(s) \/ ClientCut(s)
      PROVE  DataInv'
  <2>1. CASE PopBatch(s)
    <3>1. PICK n \in 1..BatchEvents : n <= Len(queue) /\ queue' = SubSeq(queue, n + 1, Len(queue))
      BY <2>1 DEF PopBatch
    <3>2. n + 1 \in 1..(Len(queue) + 1)
      BY <1>1, <3>1, SessionAssumption
    <3>3. queue' \in Seq(Event)
      BY <1>1, <3>1, <3>2
    <3> QED BY <1>1, <2>1, <3>3, OthersKeepData DEF PopBatch
  <2>2. CASE ~PopBatch(s)
    <3>1. UNCHANGED <<emitted, wpc, job, queue, report, status>>
      BY <1>6, <2>2 DEF StreamProvides, ClientCut, WriteFails, WriteMeta, PopNothing, WriteBatch, WriteDone,
         WriteDoneFails, WriteTick, EraseAtDone, CutNoticed, Release, EraseAtRelease, CancelReturns
    <3> QED BY <1>1, <3>1, OthersKeepData
  <2> QED BY <2>1, <2>2
<1>7. CASE UNCHANGED vars
  BY <1>1, <1>7, OthersKeepData DEF vars
<1> QED BY <1>2, <1>3, <1>4, <1>5, <1>6, <1>7 DEF Next

-----------------------------------------------------------------------------
(* The types of everything that the query thread does not write.            *)
Calls == {"idle", "sweep", "erase", "flag", "lock", "notify", "done"}

LEMMA CallTypes ==
  ASSUME call \in [Callers -> Calls], [Next]_vars
  PROVE  call' \in [Callers -> Calls]
<1> USE DEF streamVars, lifeVars, resultVars, workerVars, serverVars, Calls
<1>1. Streams \subseteq Callers /\ "api" \in Callers /\ "stop" \in Callers /\ "reaper" \in Callers
  BY DEF Callers
<1>2. CASE QueryThread
  BY <1>2, QueryThreadFrame DEF WorkerFrame
<1>3. CASE ApiCancel \/ StopBegin \/ StopSweep \/ ReaperPick \/ ReaperErase
  BY <1>1, <1>3 DEF ApiCancel, StopBegin, StopSweep, ReaperPick, ReaperErase
<1>4. CASE \E c \in Callers : CancelStep(c)
  BY <1>4 DEF CancelStep, CancelFlag, CancelLock, CancelNotify
<1>5. CASE \E s \in Streams : StreamBegin(s) \/ SpawnThrows(s)
  BY <1>5 DEF StreamBegin, StreamRoute, StreamFind, StreamAttach, Start, StartCheck, Spawn, SpawnThrows
<1>6. ASSUME NEW s \in Streams, StreamProvides(s) \/ ClientCut(s)
      PROVE  call' \in [Callers -> Calls]
  <2>1. UNCHANGED call \/ call' = [call EXCEPT ![s] = "flag"] \/ call' = [call EXCEPT ![s] = "idle"]
    BY <1>6 DEF StreamProvides, ClientCut, WriteFails, WriteMeta, PopBatch, PopNothing, WriteBatch, WriteDone,
       WriteDoneFails, WriteTick, EraseAtDone, CutNoticed, Release, EraseAtRelease, CancelReturns, StreamCancels
  <2> QED BY <1>1, <2>1
<1>7. CASE UNCHANGED vars
  BY <1>7 DEF vars
<1> QED BY <1>2, <1>3, <1>4, <1>5, <1>6, <1>7 DEF Next

LEMMA FlagTypes ==
  ASSUME started \in BOOLEAN, cancelRequested \in BOOLEAN, inTable \in BOOLEAN, stopping \in BOOLEAN, [Next]_vars
  PROVE  started' \in BOOLEAN /\ cancelRequested' \in BOOLEAN /\ inTable' \in BOOLEAN /\ stopping' \in BOOLEAN
<1> USE DEF streamVars, lifeVars, resultVars, workerVars, serverVars
<1>1. CASE QueryThread
  BY <1>1, QueryThreadFrame DEF WorkerFrame
<1>2. CASE ApiCancel \/ StopBegin \/ StopSweep \/ ReaperPick \/ ReaperErase
  BY <1>2 DEF ApiCancel, StopBegin, StopSweep, ReaperPick, ReaperErase
<1>3. CASE \E c \in Callers : CancelStep(c)
  BY <1>3 DEF CancelStep, CancelFlag, CancelLock, CancelNotify
<1>4. CASE \E s \in Streams : StreamBegin(s) \/ SpawnThrows(s)
  BY <1>4 DEF StreamBegin, StreamRoute, StreamFind, StreamAttach, Start, StartCheck, Spawn, SpawnThrows
<1>5. CASE \E s \in Streams : StreamProvides(s) \/ ClientCut(s)
  BY <1>5 DEF StreamProvides, ClientCut, WriteFails, WriteMeta, PopBatch, PopNothing, WriteBatch, WriteDone,
     WriteDoneFails, WriteTick, EraseAtDone, CutNoticed, Release, EraseAtRelease, CancelReturns
<1>6. CASE UNCHANGED vars
  BY <1>6 DEF vars
<1> QED BY <1>1, <1>2, <1>3, <1>4, <1>5, <1>6 DEF Next

(* What a stream keeps: whether its client reads, what it will do, its log.  *)
StreamData ==
  /\ mayContinue \in [Streams -> BOOLEAN] /\ open \in [Streams -> BOOLEAN]
  /\ sent \in [Streams -> StreamLog]

(* A pop that saw the end of the run: the run is still over.                *)
PopSawTheEnd == \A s \in Streams : ~mayContinue[s] => IsTerminal(status)

LEMMA StreamDataTypes ==
  ASSUME StreamData, DataInv, PopSawTheEnd, [Next]_vars
  PROVE  StreamData'
<1> USE DEF streamVars, lifeVars, resultVars, workerVars, serverVars
<1>1. CASE QueryThread
  BY <1>1, QueryThreadFrame DEF WorkerFrame, StreamData
<1>2. CASE ApiCancel \/ StopBegin \/ StopSweep \/ ReaperPick \/ ReaperErase
  BY <1>2 DEF ApiCancel, StopBegin, StopSweep, ReaperPick, ReaperErase, StreamData
<1>3. CASE \E c \in Callers : CancelStep(c)
  BY <1>3 DEF CancelStep, CancelFlag, CancelLock, CancelNotify, StreamData
<1>4. CASE \E s \in Streams : StreamBegin(s) \/ SpawnThrows(s)
  BY <1>4 DEF StreamBegin, StreamRoute, StreamFind, StreamAttach, Start, StartCheck, Spawn, SpawnThrows, StreamData
<1>5. ASSUME NEW s \in Streams, StreamProvides(s) \/ ClientCut(s)
      PROVE  StreamData'
  <2>1. CASE WriteFails(s) \/ WriteTick(s) \/ EraseAtDone(s) \/ CutNoticed(s) \/ Release(s) \/ EraseAtRelease(s)
             \/ CancelReturns(s)
    BY <2>1 DEF WriteFails, WriteTick, EraseAtDone, CutNoticed, Release, EraseAtRelease, CancelReturns, StreamData
  <2>2. CASE PopNothing(s) \/ ClientCut(s)
    BY <2>2 DEF PopNothing, ClientCut, IsTerminal, StreamData
  <2>3. CASE UNCHANGED <<mayContinue, open>> /\ \E l \in StreamLog : sent' = [sent EXCEPT ![s] = l]
    BY <2>3 DEF StreamData
  <2>4. sent[s] \in StreamLog /\ queue \in Seq(Event) /\ status \in Statuses /\ emitted \in Nat
    BY DEF StreamData, DataInv, WorkerTypes
  <2>5. /\ sent[s].metas \in Nat /\ sent[s].log \in Seq(Event) /\ sent[s].batch \in Seq(Event)
    BY <2>4 DEF StreamLog
  <2>6. CASE WriteMeta(s)
    <3>1. sent' = [sent EXCEPT ![s] = [sent[s] EXCEPT !.metas = sent[s].metas + 1]]
      BY <2>6 DEF WriteMeta, StreamData
    <3>2. sent[s].metas + 1 \in Nat
      BY <2>5
    <3>3. [sent[s] EXCEPT !.metas = sent[s].metas + 1] \in StreamLog
      BY <2>4, <3>2, Zenon DEF StreamLog
    <3> QED BY <2>3, <2>6, <3>1, <3>3 DEF WriteMeta
  <2>7. CASE PopBatch(s)
    <3>1. PICK n \in 1..BatchEvents : n <= Len(queue) /\ sent' = [sent EXCEPT ![s].batch = SubSeq(queue, 1, n)]
      BY <2>7 DEF PopBatch
    <3>2. n \in Nat /\ SubSeq(queue, 1, n) \in Seq(Event)
      BY <2>4, <3>1, SessionAssumption
    <3>3. [sent[s] EXCEPT !.batch = SubSeq(queue, 1, n)] \in StreamLog
      BY <2>4, <3>2, Zenon DEF StreamLog
    <3>4. sent' = [sent EXCEPT ![s] = [sent[s] EXCEPT !.batch = SubSeq(queue, 1, n)]]
      BY <3>1 DEF StreamData
    <3> QED BY <2>3, <2>7, <3>3, <3>4 DEF PopBatch
  <2>8. CASE WriteBatch(s)
    <3> DEFINE l == [sent[s] EXCEPT !.log = sent[s].log \o sent[s].batch, !.batch = <<>>]
    <3>1. sent[s].log \o sent[s].batch \in Seq(Event) /\ <<>> \in Seq(Event)
      BY <2>5
    <3>2. l \in StreamLog
      BY <2>4, <3>1, Zenon DEF StreamLog
    <3>3. sent' = [sent EXCEPT ![s] = l]
      BY <2>8 DEF WriteBatch, StreamData
    <3> QED BY <2>3, <2>8, <3>2, <3>3 DEF WriteBatch
  <2>9. CASE WriteDone(s)
    <3> DEFINE errors == IF stopping /\ status = "Canceled" THEN 1 ELSE 0
               l == [sent[s] EXCEPT !.termSent = TRUE, !.done = status, !.rowsTold = emitted,
                                    !.drained = ~mayContinue[s], !.stopErrors = errors]
    <3>1. status \in Terminal \cup {"none"}
      BY <2>9 DEF WriteDone, StreamOver, PopSawTheEnd, IsTerminal, Terminal
    <3>2. errors \in Nat /\ TRUE \in BOOLEAN /\ (~mayContinue[s]) \in BOOLEAN
      OBVIOUS
    <3>3. sent' = [sent EXCEPT ![s] = l]
      BY <2>9 DEF WriteDone, StreamData
    <3> HIDE DEF errors
    <3>4. l \in StreamLog
      BY <2>4, <3>1, <3>2, Zenon DEF StreamLog
    <3> QED BY <2>3, <2>9, <3>3, <3>4 DEF WriteDone
  <2>10. CASE WriteDoneFails(s)
    <3>1. [sent[s] EXCEPT !.termSent = TRUE] \in StreamLog
      <4>1. TRUE \in BOOLEAN
        OBVIOUS
      <4> QED BY <2>4, <4>1, Zenon DEF StreamLog
    <3>2. sent' = [sent EXCEPT ![s] = [sent[s] EXCEPT !.termSent = TRUE]]
      BY <2>10 DEF WriteDoneFails, StreamData
    <3> QED BY <2>3, <2>10, <3>1, <3>2 DEF WriteDoneFails
  <2> QED BY <1>5, <2>1, <2>2, <2>6, <2>7, <2>8, <2>9, <2>10 DEF StreamProvides
<1>6. CASE UNCHANGED vars
  BY <1>6 DEF vars, StreamData
<1> QED BY <1>1, <1>2, <1>3, <1>4, <1>5, <1>6 DEF Next

-----------------------------------------------------------------------------
(* The status.  It is Canceled only after the flag of the cancel is set,    *)
(* which every place that could put Running over it has looked at.          *)
MessageInv ==
  /\ wpc = "fin_cancel" => cancelRequested
  /\ job.msg = "canceled" => cancelRequested

StatusInv ==
  /\ status = "Canceled" => cancelRequested
  /\ \A c \in Callers : call[c] = "lock" => cancelRequested
  /\ ~started => status \in {"Created", "Canceled"}
  /\ wpc \notin {"notify", "ended"} => status \in {"Created", "Running", "Canceled"}
  /\ MessageInv
  /\ PopSawTheEnd

Stays == status \in Terminal => status' = status \/ (status = "Canceled" /\ status' = "ResultLimitReached")

LEMMA FailedMessage ==
  ASSUME job \in ThreadJob, UNCHANGED cancelRequested, NEW m \in Messages, Fails(m), m = "canceled" => cancelRequested
  PROVE  MessageInv'
<1>1. wpc' = "failed" /\ job' = [job EXCEPT !.msg = m, !.out = <<>>]
  BY DEF Fails
<1>2. job'.msg = m
  BY <1>1, Zenon DEF ThreadJob
<1> QED BY <1>1, <1>2 DEF MessageInv

LEMMA MessageStep ==
  ASSUME DataInv, MessageInv, QueryThread
  PROVE  MessageInv'
<1>1. job \in ThreadJob /\ UNCHANGED cancelRequested /\ job.next \in {"receive", "fin_ok", "error_set"}
  BY QueryThreadFrame, JobFields DEF DataInv, WorkerTypes, WorkerFrame
<1>2. NoJob.msg = "none"
  BY DEF NoJob
<1>3. CASE Begin
  BY <1>1, <1>3 DEF Begin, GoWorker, MessageInv
<1>4. CASE Acquire \/ Command
  <2>1. wpc' # "fin_cancel"
    BY <1>4 DEF Acquire, Command
  <2>2. \/ job' = job \/ \E o : job' = [job EXCEPT !.attempt = 1, !.next = "fin_ok", !.out = o]
        \/ \E m : job' = [job EXCEPT !.msg = m] /\ (m = "canceled" => cancelRequested)
    BY <1>4 DEF Acquire, Command
  <2>3. job'.msg = job.msg \/ job'.msg # "canceled" \/ cancelRequested
    <3>1. \A o : [job EXCEPT !.attempt = 1, !.next = "fin_ok", !.out = o].msg = job.msg
      BY <1>1, Zenon DEF ThreadJob
    <3>2. \A m : [job EXCEPT !.msg = m].msg = m
      BY <1>1, Zenon DEF ThreadJob
    <3> QED BY <2>2, <3>1, <3>2
  <2> QED BY <1>1, <2>1, <2>3 DEF MessageInv
<1>5. CASE Attempt \/ StatementFails
  <2>1. CASE \E m \in Messages : Fails(m) /\ (m = "canceled" => cancelRequested)
    BY <1>1, <2>1, FailedMessage
  <2>2. CASE wpc' = "receive" /\ \E b \in BOOLEAN : job' = [job EXCEPT !.attempt = @ + 1, !.planCached = b]
    <3>1. job'.msg = job.msg
      BY <1>1, <2>2, Zenon DEF ThreadJob
    <3> QED BY <1>1, <2>2, <3>1 DEF MessageInv
  <2> QED BY <1>5, <2>1, <2>2 DEF Attempt, StatementFails, Messages
<1>6. CASE Block
  <2>1. wpc' # "fin_cancel"
    BY <1>6 DEF Block
  <2>2. job'.msg = job.msg
    <3>1. \A b : [job EXCEPT !.limit = b].msg = job.msg
      BY <1>1, Zenon DEF ThreadJob
    <3>2. PICK n \in BlockRows \cup {0} :
            \/ job' = [job EXCEPT !.limit = TRUE]
            \/ \E k \in 0..Shown(n) :
                 job' = [job EXCEPT !.blocks = @ + 1, !.metaSent = TRUE, !.received = @ + n,
                           !.out = BlockEvents(Shown(n), k), !.next = "receive",
                           !.limit = RowLimit > 0 /\ job.received + n > RowLimit]
      BY <1>6 DEF Block
    <3>3. CASE job' = [job EXCEPT !.limit = TRUE]
      BY <3>1, <3>3, Zenon
    <3>4. ASSUME NEW k \in 0..Shown(n),
                 job' = [job EXCEPT !.blocks = @ + 1, !.metaSent = TRUE, !.received = @ + n,
                           !.out = BlockEvents(Shown(n), k), !.next = "receive",
                           !.limit = RowLimit > 0 /\ job.received + n > RowLimit]
          PROVE  job'.msg = job.msg
      BY <1>1, <3>4, Zenon DEF ThreadJob
    <3> QED BY <3>2, <3>3, <3>4
  <2> QED BY <1>1, <2>1, <2>2 DEF MessageInv
<1>7. CASE Push \/ EncodeFails
  <2>1. wpc' # "fin_cancel"
    BY <1>7 DEF Push, EncodeFails, GoWorker
  <2>2. job'.msg = job.msg \/ job'.msg = "error"
    <3>1. \A n : [job EXCEPT !.returned = @ + n].msg = job.msg
      BY <1>1, Zenon DEF ThreadJob
    <3>2. \A n : [job EXCEPT !.msg = "error", !.returned = @ + n, !.out = <<>>].msg = "error"
      BY <1>1, Zenon DEF ThreadJob
    <3> QED BY <1>7, <3>1, <3>2 DEF Push, EncodeFails
  <2> QED BY <1>1, <2>1, <2>2 DEF MessageInv
<1>8. CASE Account
  <2>1. CASE \E m \in Messages : Fails(m) /\ (m = "canceled" => cancelRequested)
    BY <1>1, <2>1, FailedMessage
  <2>2. CASE job' = [job EXCEPT !.out = Tail(@)] /\ wpc' \in {"push", job.next}
    <3>1. job'.msg = job.msg
      BY <1>1, <2>2, Zenon DEF ThreadJob
    <3> QED BY <1>1, <2>2, <3>1 DEF MessageInv
  <2> QED BY <1>8, <2>1, <2>2 DEF Account, Messages
<1>9. CASE Retry
  <2>1. Restart.msg = "none"
    BY <1>1, Zenon DEF ThreadJob, Restart
  <2> QED BY <1>1, <1>9, <2>1 DEF Retry, GoWorker, MessageInv
<1>10. CASE Rethrow
  <2>1. \A a, m : [NoJob EXCEPT !.attempt = a, !.msg = m].msg = m
    BY NoJobType, Zenon DEF ThreadJob
  <2>2. job'.msg = job.msg \/ job'.msg = "error"
    BY <1>10, <2>1 DEF Rethrow
  <2> QED BY <1>1, <1>10, <2>2 DEF Rethrow, GoWorker, MessageInv
<1>11. CASE Catch
  <2>1. \A o : [NoJob EXCEPT !.next = "error_set", !.out = o].msg = "none"
    BY <1>2, NoJobType, Zenon DEF ThreadJob
  <2>2. job'.msg = "none"
    BY <1>2, <1>11, <2>1 DEF Catch
  <2>3. wpc' = "fin_cancel" => job.msg = "canceled" \/ cancelRequested
    BY <1>11 DEF Catch
  <2> QED BY <1>1, <2>2, <2>3 DEF MessageInv
<1>12. CASE StatementEnds \/ FinishOkCanceled \/ WorkerNotify
  BY <1>1, <1>2, <1>12 DEF StatementEnds, FinishOkCanceled, WorkerNotify, GoWorker, MessageInv
<1>13. CASE FinishError \/ FinishCanceled \/ FinishLimit \/ FinishOk
  <2>1. \A s : [NoJob EXCEPT !.final = s].msg = "none"
    BY <1>2, NoJobType, Zenon DEF ThreadJob
  <2>2. wpc' = "notify" /\ \E s : job' = [NoJob EXCEPT !.final = s]
    BY <1>13 DEF FinishError, FinishCanceled, FinishLimit, FinishOk, Finish, GoWorker
  <2> QED BY <2>1, <2>2 DEF MessageInv
<1> QED BY <1>3, <1>4, <1>5, <1>6, <1>7, <1>8, <1>9, <1>10, <1>11, <1>12, <1>13 DEF QueryThread

LEMMA StatusStep ==
  ASSUME DataInv, StreamTypes, StartInv, StatusInv, StreamData, call \in [Callers -> Calls], [Next]_vars
  PROVE  StatusInv' /\ Stays
<1> USE DEF streamVars, lifeVars, resultVars, workerVars, serverVars, IsTerminal, Terminal
<1>1. status \in {"Created", "Running", "Finished", "Error", "Canceled", "ResultLimitReached"}
  BY DEF DataInv, WorkerTypes, Statuses, Terminal
<1>2. CASE UNCHANGED <<started, cancelRequested, status, wpc, job, mayContinue>>
           /\ \A c \in Callers : call'[c] = "lock" => call[c] = "lock"
  BY <1>2 DEF StatusInv, MessageInv, PopSawTheEnd, Stays
<1>3. CASE QueryThread
  <2>1. MessageInv' /\ WorkerFrame /\ wpc # "off"
    BY <1>3, MessageStep, QueryThreadFrame DEF StatusInv
  <2>2. UNCHANGED <<started, cancelRequested, call, mayContinue>> /\ started
    BY <2>1 DEF WorkerFrame, StartInv
  <2>3. CASE UNCHANGED status /\ wpc \notin {"notify", "ended"}
    BY <2>1, <2>2, <2>3 DEF StatusInv, PopSawTheEnd, Stays
  <2>4. CASE \E from \in {"error_set", "fin_cancel", "fin_limit", "fin_ok"}, s \in Terminal :
               /\ Finish(from, s) /\ (s = "Canceled" => cancelRequested)
               /\ (status = "Canceled" => s \in {"Canceled", "ResultLimitReached"})
    BY <1>1, <2>1, <2>2, <2>4 DEF Finish, GoWorker, StatusInv, PopSawTheEnd, Stays, Terminal
  <2>5. CASE WorkerNotify
    BY <2>1, <2>2, <2>5 DEF WorkerNotify, GoWorker, StatusInv, PopSawTheEnd, Stays
  <2>6. CASE FinishError \/ FinishCanceled \/ FinishLimit \/ FinishOk
    <3>1. wpc = "fin_cancel" => cancelRequested
      BY DEF StatusInv, MessageInv
    <3>2. status = "Canceled" => cancelRequested
      BY DEF StatusInv
    <3> QED BY <2>4, <2>6, <3>1, <3>2 DEF FinishError, FinishCanceled, FinishLimit, FinishOk, Finish, GoWorker, Terminal
  <2>7. CASE ~(FinishError \/ FinishCanceled \/ FinishLimit \/ FinishOk \/ WorkerNotify)
    <3>1. UNCHANGED status /\ wpc \notin {"notify", "ended"}
      BY <1>3, <2>7 DEF QueryThread, StatusFrame, Begin, Acquire, Command, Attempt, Block, StatementEnds, StatementFails,
         Push, EncodeFails, Account, Retry, Rethrow, Catch, FinishOkCanceled, GoWorker
    <3> QED BY <2>3, <3>1
  <2> QED BY <2>5, <2>6, <2>7
<1>4. CASE ApiCancel \/ StopBegin \/ StopSweep \/ ReaperPick \/ ReaperErase
  <2>1. \A c \in Callers : call'[c] = "lock" => call[c] = "lock"
    BY <1>4 DEF ApiCancel, StopBegin, StopSweep, ReaperPick, ReaperErase
  <2> QED BY <1>2, <1>4, <2>1 DEF ApiCancel, StopBegin, StopSweep, ReaperPick, ReaperErase
<1>5. CASE \E c \in Callers : CancelStep(c)
  <2>1. PICK c \in Callers : CancelFlag(c) \/ CancelLock(c) \/ CancelNotify(c)
    BY <1>5 DEF CancelStep
  <2>2. CASE CancelFlag(c)
    BY <2>2 DEF CancelFlag, StatusInv, MessageInv, PopSawTheEnd, Stays
  <2>3. CASE CancelLock(c)
    <3>1. cancelRequested /\ UNCHANGED <<started, cancelRequested, wpc, job, mayContinue>>
      BY <2>3 DEF CancelLock, StatusInv
    <3>2. status' = IF status \in {"Created", "Running"} THEN "Canceled" ELSE status
      BY <2>3 DEF CancelLock
    <3> QED BY <1>1, <3>1, <3>2 DEF StatusInv, MessageInv, PopSawTheEnd, Stays
  <2>4. CASE CancelNotify(c)
    <3>1. \A d \in Callers : call'[d] = "lock" => call[d] = "lock"
      BY <2>4 DEF CancelNotify
    <3> QED BY <1>2, <2>4, <3>1 DEF CancelNotify
  <2> QED BY <2>1, <2>2, <2>3, <2>4
<1>6. ASSUME NEW s \in Streams, StreamBegin(s) \/ SpawnThrows(s)
      PROVE  StatusInv' /\ Stays
  <2>1. CASE StreamRoute(s) \/ StreamFind(s) \/ StreamAttach(s) \/ StartCheck(s) \/ SpawnThrows(s)
    BY <1>2, <2>1 DEF StreamRoute, StreamFind, StreamAttach, StartCheck, SpawnThrows
  <2>2. CASE Start(s)
    <3>1. /\ UNCHANGED <<cancelRequested, call, wpc, job, mayContinue>> /\ started'
          /\ started => status' = status
          /\ ~started => /\ status' = IF cancelRequested THEN "Canceled" ELSE "Running"
                         /\ status \in {"Created", "Canceled"}
      BY <2>2 DEF Start, StatusInv
    <3> QED BY <1>1, <3>1 DEF StatusInv, MessageInv, PopSawTheEnd, Stays
  <2>3. CASE Spawn(s)
    <3>1. wpc = "off" /\ wpc' = "begin" /\ UNCHANGED <<started, cancelRequested, status, call, job, mayContinue>>
      BY <2>3 DEF Spawn, GoStream, StartInv
    <3> QED BY <3>1 DEF StatusInv, MessageInv, PopSawTheEnd, Stays
  <2> QED BY <1>6, <2>1, <2>2, <2>3 DEF StreamBegin
<1>7. ASSUME NEW s \in Streams, StreamProvides(s) \/ ClientCut(s)
      PROVE  StatusInv' /\ Stays
  <2>1. CASE PopNothing(s)
    <3>1. /\ UNCHANGED <<started, cancelRequested, status, wpc, job, call>>
          /\ mayContinue' = [mayContinue EXCEPT ![s] = ~IsTerminal(status)]
      BY <2>1 DEF PopNothing
    <3>2. PopSawTheEnd'
      BY <3>1 DEF StatusInv, PopSawTheEnd, StreamData
    <3> QED BY <3>1, <3>2 DEF StatusInv, MessageInv, Stays
  <2>2. CASE ~PopNothing(s)
    <3>1. UNCHANGED <<started, cancelRequested, status, wpc, job, mayContinue>>
      BY <1>7, <2>2 DEF StreamProvides, ClientCut, WriteFails, WriteMeta, PopBatch, WriteBatch, WriteDone,
         WriteDoneFails, WriteTick, EraseAtDone, CutNoticed, Release, EraseAtRelease, CancelReturns
    <3>2. UNCHANGED call \/ call' = [call EXCEPT ![s] = "flag"] \/ call' = [call EXCEPT ![s] = "idle"]
      BY <1>7, <2>2 DEF StreamProvides, ClientCut, WriteFails, WriteMeta, PopBatch, WriteBatch, WriteDone,
         WriteDoneFails, WriteTick, EraseAtDone, CutNoticed, Release, EraseAtRelease, CancelReturns, StreamCancels
    <3>3. \A c \in Callers : call'[c] = "lock" => call[c] = "lock"
      BY <3>2
    <3> QED BY <1>2, <3>1, <3>3
  <2> QED BY <2>1, <2>2
<1>8. CASE UNCHANGED vars
  BY <1>2, <1>8 DEF vars
<1> QED BY <1>3, <1>4, <1>5, <1>6, <1>7, <1>8 DEF Next

-----------------------------------------------------------------------------
(* All of it together is inductive.                                         *)
FlagsOk == started \in BOOLEAN /\ cancelRequested \in BOOLEAN /\ inTable \in BOOLEAN /\ stopping \in BOOLEAN

SessionInv ==
  /\ StreamTypes /\ ConsumerInv /\ StartInv
  /\ DataInv /\ StatusInv
  /\ FlagsOk /\ StreamData
  /\ call \in [Callers -> Calls]

LEMMA SessionInit == Init => SessionInv
<1> SUFFICES ASSUME Init PROVE SessionInv
  OBVIOUS
<1>1. StreamTypes /\ ConsumerInv
  <2>1. attached = FALSE /\ spc = [s \in Streams |-> "idle"] /\ back = [s \in Streams |-> "release"]
    BY DEF Init
  <2> QED BY <2>1 DEF StreamTypes, ConsumerInv, OneConsumer, Reads
<1>2. StartInv
  <2>1. wpc = "off" /\ spc = [s \in Streams |-> "idle"]
    BY DEF Init
  <2> QED BY <2>1 DEF StartInv
<1>3. job \in ThreadJob /\ job.out = <<>> /\ job.msg = "none" /\ job.received = 0 /\ job.returned = 0 /\ job.limit = FALSE
  <2>1. PICK kind \in Kinds, plan \in Plans :
          job = [NoJob EXCEPT !.kind = kind, !.mayRetry = plan = "retry", !.described = plan = "described"]
    BY DEF Init
  <2>2. kind \in {"select", "command"} /\ (plan = "retry") \in BOOLEAN /\ (plan = "described") \in BOOLEAN
    BY SessionAssumption
  <2>3. NoJob.msg = "none" /\ NoJob.received = 0 /\ NoJob.returned = 0 /\ NoJob.limit = FALSE
    BY DEF NoJob
  <2>4. /\ job \in ThreadJob /\ job.out = NoJob.out /\ job.msg = NoJob.msg /\ job.received = NoJob.received
        /\ job.returned = NoJob.returned /\ job.limit = NoJob.limit
    BY <2>1, <2>2, NoJobType, Zenon DEF ThreadJob
  <2> QED BY <2>3, <2>4, NoJobType
<1>4. DataInv
  <2>1. status = "Created" /\ report = "none" /\ queue = <<>> /\ emitted = 0 /\ wpc = "off"
    BY DEF Init
  <2>2. queue \in Seq(Event) /\ Len(job.out) = 0
    BY <1>3, <2>1
  <2>3. WorkerTypes
    BY <1>3, <2>1, <2>2 DEF WorkerTypes, Statuses
  <2>4. OutInv
    BY <2>1, <2>2 DEF OutInv
  <2>5. CountInv
    BY <1>3, <2>1, SessionAssumption DEF CountInv, InResult
  <2> QED BY <2>3, <2>4, <2>5 DEF DataInv
<1>5. StatusInv
  <2>1. status = "Created" /\ wpc = "off" /\ call = [c \in Callers |-> "idle"] /\ mayContinue = [s \in Streams |-> TRUE]
    BY DEF Init
  <2> QED BY <1>3, <2>1 DEF StatusInv, MessageInv, PopSawTheEnd
<1>6. FlagsOk
  BY DEF Init, FlagsOk
<1>7. StreamData
  <2> DEFINE log == [metas |-> 0, batch |-> <<>>, log |-> <<>>, stopErrors |-> 0, termSent |-> FALSE,
                     done |-> "none", rowsTold |-> 0, drained |-> FALSE]
  <2>1. <<>> \in Seq(Event)
    OBVIOUS
  <2>2. log \in StreamLog
    BY <2>1 DEF StreamLog
  <2>3. mayContinue = [s \in Streams |-> TRUE] /\ open = [s \in Streams |-> TRUE] /\ sent = [s \in Streams |-> log]
    BY DEF Init
  <2> HIDE DEF log
  <2> QED BY <2>2, <2>3 DEF StreamData
<1>8. call \in [Callers -> Calls]
  BY DEF Init, Calls
<1> QED BY <1>1, <1>2, <1>4, <1>5, <1>6, <1>7, <1>8 DEF SessionInv

LEMMA SessionStep ==
  ASSUME SessionInv, [Next]_vars
  PROVE  SessionInv' /\ Stays
<1> USE DEF SessionInv
<1>1. StreamTypes' /\ ConsumerInv' /\ StartInv'
  BY StreamStepsKeepTypes, ConsumerStep, StartInvStep
<1>2. DataInv' /\ StatusInv' /\ Stays
  BY DataStep, StatusStep
<1>3. FlagsOk' /\ call' \in [Callers -> Calls]
  BY FlagTypes, CallTypes DEF FlagsOk
<1>4. StreamData'
  BY StreamDataTypes DEF StatusInv
<1> QED BY <1>1, <1>2, <1>3, <1>4

(* Every variable of a session keeps its type; for the rows of an event and *)
(* the status in `done` this takes the count of the rows and the order in   *)
(* which the flag of a cancel and the status are written.                   *)
THEOREM TypeCorrect == Spec => []TypeOK
<1>1. SessionInv => TypeOK
  BY TypesSplit DEF SessionInv, RestTypes, DataInv, FlagsOk, StreamData, Calls
<1>2. SessionInv /\ [Next]_vars => SessionInv'
  BY SessionStep
<1> QED BY SessionInit, <1>1, <1>2, PTL DEF Spec

(* execute_select_attempt and ResultEventWriter::write: the preview limit    *)
(* holds for every limit and every sizes of blocks, through retries, failed *)
(* events and cancels, and a run is called limited only at the limit.       *)
THEOREM LimitHolds == Spec => []LimitIsHonest
<1>1. SessionInv => LimitIsHonest
  BY DEF SessionInv, DataInv, CountInv, LimitIsHonest
<1>2. SessionInv /\ [Next]_vars => SessionInv'
  BY SessionStep
<1> QED BY SessionInit, <1>1, <1>2, PTL DEF Spec

(* finish_ok, finish_error, finish_canceled, finish_result_limit_reached,   *)
(* start and request_cancel: whatever their order, a terminal status stays, *)
(* except that the limit replaces a cancel.                                 *)
THEOREM TerminalStatusStays == Spec => TerminalStays
<1>1. SessionInv /\ [Next]_vars => SessionInv'
  BY SessionStep
<1>2. SessionInv /\ [Next]_vars => [Stays]_vars
  BY SessionStep
<1> QED BY SessionInit, <1>1, <1>2, PTL DEF Spec, TerminalStays, Stays

-----------------------------------------------------------------------------
(* What the observer was told.  It is told of a cancel under a status that   *)
(* is not terminal yet only by the stream that found the flag after it had  *)
(* taken the start of the run: then no thread will ever begin.              *)
NeverRuns == started /\ wpc = "off" /\ \A s \in Streams : spc[s] \notin {"start_check", "spawn"}

ReportMatches ==
  \/ report = "none"
  \/ report = status
  \/ report = "Canceled" /\ status = "ResultLimitReached"
  \/ report = "Canceled" /\ status \in {"Created", "Running"} /\ NeverRuns

NoticesMatch ==
  /\ \A c \in Callers : call[c] = "notify" => status \in {"Canceled", "ResultLimitReached"}
  /\ wpc = "notify" => status = job.final

ReportInv == ReportMatches /\ NoticesMatch

(* The error event.  From the push of it on, it is the last event of the    *)
(* history of the only reader, unless a cancel dropped it.                  *)
Pushed == (wpc = "account" /\ job.next = "error_set") \/ wpc = "error_set"

IsErrorEvent(e) == e.kind = "error"

EndsWithError(s) == History(s) # <<>> /\ IsErrorEvent(Last(History(s)))

ErrorJob ==
  wpc \in {"push", "account"} /\ job.next = "error_set" => Len(job.out) = 1 /\ IsErrorEvent(Head(job.out))

(* A batch in the hands of a stream is written or lost, never popped over.  *)
BatchInv ==
  \A s \in Streams :
    /\ back[s] # "meta"
    /\ sent[s].batch # <<>> => spc[s] \in {"write", "cancelling", "release", "erase", "erase_again", "end"}

MustShow   == (Pushed /\ ~cancelRequested) \/ status = "Error"
ErrorShown == MustShow => \A s \in Streams : SoleReader(s) => EndsWithError(s)
ErrorInv   == ErrorJob /\ BatchInv /\ ErrorShown

-----------------------------------------------------------------------------
(* The registry.                                                            *)

(* A step that changes neither the status nor the report, and starts nothing. *)
LEMMA QuietKeepsReport ==
  ASSUME ReportInv, UNCHANGED <<started, wpc, job, status, report>>,
         \A s \in Streams : spc'[s] \in {"start_check", "spawn"} => spc[s] \in {"start_check", "spawn"},
         \A c \in Callers : call'[c] = "notify" => call[c] = "notify"
  PROVE  ReportInv'
BY DEF ReportInv, ReportMatches, NoticesMatch, NeverRuns

(* A step of the query thread: it runs, so whatever was reported is the     *)
(* status, and the status that it leaves is the one it will report.         *)
LEMMA ThreadKeepsReport ==
  ASSUME SessionInv, ReportInv, QueryThread, Stays
  PROVE  ReportInv'
<1>1. WorkerFrame /\ wpc # "off"
  BY QueryThreadFrame
<1>2. UNCHANGED <<call, started>> /\ spc' = spc
  BY <1>1 DEF WorkerFrame, streamVars
<1>3. report = "none" \/ report = status \/ (report = "Canceled" /\ status = "ResultLimitReached")
  BY <1>1 DEF ReportInv, ReportMatches, NeverRuns
<1>4. status \in Statuses /\ report \in Terminal \cup {"none"}
  BY DEF SessionInv, DataInv, WorkerTypes
<1>5. CASE FinishError \/ FinishCanceled \/ FinishLimit \/ FinishOk
  <2>1. PICK from \in {"error_set", "fin_cancel", "fin_limit", "fin_ok"}, s \in Terminal : Finish(from, s)
    BY <1>5 DEF FinishError, FinishCanceled, FinishLimit, FinishOk, Terminal
  <2>2. wpc = from /\ wpc' = "notify" /\ status' = s /\ UNCHANGED report /\ job' = [NoJob EXCEPT !.final = s]
    BY <2>1 DEF Finish, GoWorker
  <2>3. job'.final = s
    BY <2>2, NoJobType, Zenon DEF ThreadJob
  <2>4. wpc \notin {"notify", "ended"}
    BY <2>1, <2>2
  <2>5. status \in {"Created", "Running", "Canceled"}
    BY <2>4 DEF SessionInv, StatusInv
  <2>6. status' = status \/ (status = "Canceled" /\ status' = "ResultLimitReached") \/ status \in {"Created", "Running"}
    BY <2>5 DEF Stays, Terminal
  <2>7. ReportMatches'
    BY <1>3, <1>4, <2>2, <2>5, <2>6 DEF ReportMatches, Terminal
  <2>8. NoticesMatch'
    BY <1>2, <2>2, <2>3, <2>6 DEF ReportInv, NoticesMatch
  <2> QED BY <2>7, <2>8 DEF ReportInv
<1>6. CASE WorkerNotify
  <2>1. wpc = "notify" /\ wpc' = "ended" /\ UNCHANGED status /\ report' = IF report = "none" THEN job.final ELSE report
    BY <1>6 DEF WorkerNotify, GoWorker, Notify
  <2>2. ReportMatches'
    BY <1>3, <2>1 DEF ReportInv, NoticesMatch, ReportMatches
  <2> QED BY <1>2, <2>1, <2>2 DEF ReportInv, NoticesMatch
<1>7. CASE ~(FinishError \/ FinishCanceled \/ FinishLimit \/ FinishOk \/ WorkerNotify)
  <2>1. UNCHANGED <<status, report>>
    BY <1>7 DEF QueryThread, StatusFrame, Begin, Acquire, Command, Attempt, Block, StatementEnds, StatementFails,
       Push, EncodeFails, Account, Retry, Rethrow, Catch, FinishOkCanceled
  <2>2. wpc' # "notify"
    <3>1. job.next \in {"receive", "fin_ok", "error_set"}
      BY JobFields DEF SessionInv, DataInv, WorkerTypes
    <3> QED BY <1>7, <3>1 DEF QueryThread, Fails, Begin, Acquire, Command, Attempt, Block, StatementEnds,
            StatementFails, Push, EncodeFails, Account, Retry, Rethrow, Catch, FinishOkCanceled, GoWorker
  <2> QED BY <1>2, <1>3, <2>1, <2>2 DEF ReportInv, ReportMatches, NoticesMatch
<1> QED BY <1>5, <1>6, <1>7

(* request_cancel: the one that ends the run also tells it.                 *)
LEMMA CancelKeepsReport ==
  ASSUME SessionInv, ReportInv, NEW c \in Callers, CancelStep(c)
  PROVE  ReportInv'
<1> USE DEF streamVars, workerVars
<1>1. status \in Statuses /\ report \in Terminal \cup {"none"} /\ call \in [Callers -> Calls]
  BY DEF SessionInv, DataInv, WorkerTypes
<1>2. CASE CancelFlag(c)
  BY <1>1, <1>2, QuietKeepsReport DEF CancelFlag
<1>3. CASE CancelLock(c)
  <2>1. UNCHANGED <<started, wpc, job, spc, report>>
    BY <1>3 DEF CancelLock
  <2>2. CASE status \in {"Created", "Running"}
    <3>1. status' = "Canceled" /\ call' = [call EXCEPT ![c] = "notify"]
      BY <1>3, <2>2 DEF CancelLock
    <3>2. report \in {"none", "Canceled"}
      BY <1>1, <2>2 DEF ReportInv, ReportMatches, Terminal
    <3>3. wpc # "notify"
      BY <1>1, <2>2 DEF ReportInv, NoticesMatch, SessionInv, DataInv, WorkerTypes, ThreadJob, Terminal
    <3> QED BY <1>1, <2>1, <3>1, <3>2, <3>3 DEF ReportInv, ReportMatches, NoticesMatch
  <2>3. CASE status \notin {"Created", "Running"}
    <3>1. UNCHANGED status /\ call' = [call EXCEPT ![c] = "done"]
      BY <1>3, <2>3 DEF CancelLock
    <3> QED BY <1>1, <2>1, <3>1, QuietKeepsReport
  <2> QED BY <2>2, <2>3
<1>4. CASE CancelNotify(c)
  <2>1. /\ UNCHANGED <<started, wpc, job, status, spc>> /\ call' = [call EXCEPT ![c] = "done"] /\ call[c] = "notify"
        /\ report' = IF report = "none" THEN "Canceled" ELSE report
    BY <1>4 DEF CancelNotify, Notify
  <2>2. status \in {"Canceled", "ResultLimitReached"}
    BY <2>1 DEF ReportInv, NoticesMatch
  <2> QED BY <1>1, <2>1, <2>2 DEF ReportInv, ReportMatches, NoticesMatch
<1> QED BY <1>2, <1>3, <1>4 DEF CancelStep

(* The stream that starts the run.                                          *)
LEMMA StartKeepsReport ==
  ASSUME SessionInv, ReportInv, NEW s \in Streams, StreamBegin(s) \/ SpawnThrows(s)
  PROVE  ReportInv'
<1> USE DEF streamVars, workerVars, lifeVars
<1>1. /\ status \in Statuses /\ report \in Terminal \cup {"none"} /\ StreamTypes
      /\ job \in ThreadJob
  BY DEF SessionInv, DataInv, WorkerTypes
<1>2. CASE StreamRoute(s) \/ StreamFind(s) \/ StreamAttach(s) \/ SpawnThrows(s)
  BY <1>1, <1>2, QuietKeepsReport DEF StreamRoute, StreamFind, StreamAttach, SpawnThrows, GoStream, StreamTypes
<1>3. CASE Start(s) /\ started
  BY <1>1, <1>3, QuietKeepsReport DEF Start, GoStream, StreamTypes
<1>4. CASE Start(s) /\ ~started
  <2>1. /\ UNCHANGED <<wpc, job, report, call>> /\ wpc = "off" /\ status \in {"Created", "Canceled"}
        /\ status' = IF cancelRequested THEN "Canceled" ELSE "Running"
        /\ status = "Canceled" => cancelRequested
    BY <1>4 DEF Start, SessionInv, StartInv, StatusInv
  <2>2. report = "none" \/ (report = "Canceled" /\ status = "Canceled")
    BY <1>1, <1>4, <2>1 DEF ReportInv, ReportMatches, NeverRuns, Terminal
  <2>3. \A c \in Callers : call[c] = "notify" => status' = "Canceled"
    BY <2>1 DEF ReportInv, NoticesMatch
  <2> QED BY <2>1, <2>2, <2>3 DEF ReportInv, ReportMatches, NoticesMatch
<1>5. CASE StartCheck(s)
  <2>1. /\ started /\ wpc = "off" /\ UNCHANGED <<started, wpc, job, status, call>> /\ spc[s] = "start_check"
        /\ status \in {"Created", "Running", "Canceled"}
    BY <1>5 DEF StartCheck, GoStream, SessionInv, StartInv, StatusInv
  <2>2. CASE cancelRequested
    <3>1. spc' = [spc EXCEPT ![s] = "meta"] /\ report' = IF report = "none" THEN "Canceled" ELSE report
      BY <1>5, <2>2 DEF StartCheck, GoStream, Notify
    <3>2. \A r \in Streams : Reads(r) => r = s
      BY <2>1 DEF SessionInv, ConsumerInv, OneConsumer, Reads
    <3>3. \A r \in Streams \ {s} : spc[r] \notin {"start_check", "spawn"}
      BY <3>2 DEF Reads
    <3>4. NeverRuns'
      BY <1>1, <2>1, <3>1, <3>3 DEF NeverRuns, StreamTypes
    <3>5. ~NeverRuns
      BY <2>1 DEF NeverRuns
    <3>6. report \in {"none", "Canceled"}
      BY <1>1, <2>1, <3>5 DEF ReportInv, ReportMatches, Terminal
    <3>7. ReportMatches'
      BY <2>1, <3>1, <3>4, <3>6 DEF ReportMatches
    <3> QED BY <2>1, <3>7 DEF ReportInv, NoticesMatch
  <2>3. CASE ~cancelRequested
    <3>1. spc' = [spc EXCEPT ![s] = "spawn"] /\ UNCHANGED report
      BY <1>5, <2>3 DEF StartCheck, GoStream
    <3> QED BY <1>1, <2>1, <3>1, QuietKeepsReport DEF StreamTypes
  <2> QED BY <2>2, <2>3
<1>6. CASE Spawn(s)
  <2>1. /\ wpc = "off" /\ wpc' = "begin" /\ UNCHANGED <<job, status, report, call>> /\ spc[s] = "spawn"
    BY <1>6 DEF Spawn, GoStream, SessionInv, StartInv
  <2>2. ~NeverRuns
    BY <2>1 DEF NeverRuns
  <2> QED BY <2>1, <2>2 DEF ReportInv, ReportMatches, NoticesMatch
<1> QED BY <1>2, <1>3, <1>4, <1>5, <1>6 DEF StreamBegin

LEMMA ReportStep ==
  ASSUME SessionInv, ReportInv, [Next]_vars
  PROVE  ReportInv'
<1> USE DEF streamVars, lifeVars, resultVars, workerVars, serverVars
<1>1. StreamTypes /\ call \in [Callers -> Calls]
  BY DEF SessionInv
<1>2. CASE QueryThread
  BY <1>2, SessionStep, ThreadKeepsReport
<1>3. CASE ApiCancel \/ StopBegin \/ StopSweep \/ ReaperPick \/ ReaperErase
  <2>1. \A c \in Callers : call'[c] = "notify" => call[c] = "notify"
    BY <1>1, <1>3 DEF ApiCancel, StopBegin, StopSweep, ReaperPick, ReaperErase
  <2> QED BY <1>3, <2>1, QuietKeepsReport DEF ApiCancel, StopBegin, StopSweep, ReaperPick, ReaperErase
<1>4. CASE \E c \in Callers : CancelStep(c)
  BY <1>4, CancelKeepsReport
<1>5. CASE \E s \in Streams : StreamBegin(s) \/ SpawnThrows(s)
  BY <1>5, StartKeepsReport
<1>6. ASSUME NEW s \in Streams, StreamProvides(s) \/ ClientCut(s)
      PROVE  ReportInv'
  <2>1. UNCHANGED <<started, wpc, job, status, report>>
    BY <1>6 DEF StreamProvides, ClientCut, WriteFails, WriteMeta, PopBatch, PopNothing, WriteBatch, WriteDone,
       WriteDoneFails, WriteTick, EraseAtDone, CutNoticed, Release, EraseAtRelease, CancelReturns
  <2>2. UNCHANGED call \/ call' = [call EXCEPT ![s] = "flag"] \/ call' = [call EXCEPT ![s] = "idle"]
    BY <1>6 DEF StreamProvides, ClientCut, WriteFails, WriteMeta, PopBatch, PopNothing, WriteBatch, WriteDone,
       WriteDoneFails, WriteTick, EraseAtDone, CutNoticed, Release, EraseAtRelease, CancelReturns, StreamCancels
  <2>3. UNCHANGED spc \/ \E to \in {"meta", "pop", "write", "snap", "cancelling", "erase", "release", "erase_again", "end"} :
          spc' = [spc EXCEPT ![s] = to]
    <3>1. CASE CancelReturns(s)
      BY <1>1, <3>1 DEF CancelReturns, GoStream, StreamTypes
    <3>2. CASE ~CancelReturns(s)
      BY <1>6, <3>2 DEF StreamProvides, ClientCut, WriteFails, WriteMeta, PopBatch, PopNothing, WriteBatch, WriteDone,
         WriteDoneFails, WriteTick, EraseAtDone, CutNoticed, Release, EraseAtRelease, StreamCancels, GoStream
    <3> QED BY <3>1, <3>2
  <2>4. \A r \in Streams : spc'[r] \in {"start_check", "spawn"} => spc[r] \in {"start_check", "spawn"}
    BY <1>1, <2>3 DEF StreamTypes
  <2>5. \A c \in Callers : call'[c] = "notify" => call[c] = "notify"
    BY <1>1, <2>2
  <2> QED BY <2>1, <2>4, <2>5, QuietKeepsReport
<1>7. CASE UNCHANGED vars
  BY <1>7, QuietKeepsReport DEF vars
<1> QED BY <1>2, <1>3, <1>4, <1>5, <1>6, <1>7 DEF Next

(* notify_terminal_status: however cancels, the start and the end of the    *)
(* run interleave, the registry is told once, and told the status that the  *)
(* session keeps; only a run that reached its limit while it was being      *)
(* cancelled can be told as canceled.                                       *)
THEOREM ReportIsTheStatus == Spec => []ReportAgrees
<1>1. Init => SessionInv /\ ReportInv
  <2>1. Init => ReportInv
    BY DEF Init, ReportInv, ReportMatches, NoticesMatch
  <2> QED BY <2>1, SessionInit
<1>2. SessionInv /\ ReportInv /\ [Next]_vars => (SessionInv /\ ReportInv)'
  BY SessionStep, ReportStep
<1>3. SessionInv /\ ReportInv => ReportAgrees
  BY DEF ReportInv, ReportMatches, ReportAgrees, Terminal
<1> QED BY <1>1, <1>2, <1>3, PTL DEF Spec

-----------------------------------------------------------------------------
(* The error event.                                                         *)

(* Only the catch of run_query gives an error event to push.                *)
LEMMA ErrorJobThreadStep ==
  ASSUME DataInv, ErrorJob, QueryThread
  PROVE  ErrorJob'
<1>1. job \in ThreadJob /\ job.next \in {"receive", "fin_ok", "error_set"} /\ job.out \in Seq(Event)
  BY JobFields DEF DataInv, WorkerTypes
<1>2. CASE wpc' \notin {"push", "account"}
  BY <1>2 DEF ErrorJob
<1>3. CASE Push
  <2>1. wpc = "push" /\ wpc' = "account" /\ job' = [job EXCEPT !.returned = @ + Head(job.out).rows]
    BY <1>3 DEF Push, GoWorker
  <2>2. Head(job.out).rows \in Nat
    BY <2>1, EventFacts
  <2>3. job'.out = job.out /\ job'.next = job.next
    BY <1>1, <2>1, <2>2, ReturnedJob
  <2> QED BY <2>1, <2>3 DEF ErrorJob
<1>4. CASE Account /\ wpc' = "push"
  <2>1. wpc = "account" /\ wpc' = IF Len(job.out) > 1 THEN "push" ELSE job.next
    BY <1>4, Zenon DEF Account, Fails
  <2>2. job' = [job EXCEPT !.out = Tail(@)]
    BY <1>4, Zenon DEF Account, Fails
  <2>3. job'.next = job.next
    BY <1>1, <2>2, Zenon DEF ThreadJob
  <2>4. Len(job.out) # 1
    <3> SUFFICES ASSUME Len(job.out) = 1 PROVE FALSE
      OBVIOUS
    <3>1. ~(Len(job.out) > 1)
      OBVIOUS
    <3>2. wpc' = job.next
      BY <2>1, <3>1, Zenon
    <3> QED BY <1>1, <1>4, <3>2
  <2>5. job.next # "error_set"
    BY <2>1, <2>4 DEF ErrorJob
  <2> QED BY <2>3, <2>5 DEF ErrorJob
<1>5. CASE Command /\ wpc' = "push"
  <2>1. \E o : job' = [job EXCEPT !.attempt = 1, !.next = "fin_ok", !.out = o]
    BY <1>5 DEF Command
  <2>2. job'.next = "fin_ok"
    BY <1>1, <2>1, Zenon DEF ThreadJob
  <2> QED BY <2>2 DEF ErrorJob
<1>6. CASE Block /\ wpc' = "push"
  <2>1. wpc = "receive"
    BY <1>6 DEF Block
  <2>2. PICK n \in BlockRows \cup {0} : \E k \in 0..Shown(n) :
          job' = [job EXCEPT !.blocks = @ + 1, !.metaSent = TRUE, !.received = @ + n,
                    !.out = BlockEvents(Shown(n), k), !.next = "receive",
                    !.limit = RowLimit > 0 /\ job.received + n > RowLimit]
    BY <1>6, <2>1 DEF Block
  <2>3. job'.next = "receive"
    BY <1>1, <2>2, Zenon DEF ThreadJob
  <2> QED BY <2>3 DEF ErrorJob
<1>7. CASE Catch /\ wpc' = "push"
  <2> DEFINE e == [kind |-> "error", rows |-> 0, attempt |-> job.attempt]
             o == <<e>>
  <2>1. job' = [NoJob EXCEPT !.next = "error_set", !.out = o]
    BY <1>7 DEF Catch
  <2>2. Len(o) = 1 /\ Head(o) = e /\ e.kind = "error"
    OBVIOUS
  <2> HIDE DEF o, e
  <2>3. job'.out = o
    BY <2>1, NoJobType, Zenon DEF ThreadJob
  <2> QED BY <2>2, <2>3 DEF ErrorJob, IsErrorEvent
<1> QED BY <1>1, <1>2, <1>3, <1>4, <1>5, <1>6, <1>7 DEF QueryThread, Begin, Acquire, Command, Attempt, Block,
        StatementEnds, StatementFails, Fails, EncodeFails, Account, Retry, Rethrow, Catch, FinishError,
        FinishCanceled, FinishLimit, FinishOk, FinishOkCanceled, WorkerNotify, Finish, GoWorker

(* The steps of the others leave the locals of the query thread alone, and  *)
(* make no run an Error.                                                    *)
LEMMA OthersKeepJob ==
  ASSUME SessionInv, [Next]_vars, ~QueryThread
  PROVE  /\ job' = job
         /\ wpc' = wpc \/ (wpc = "off" /\ wpc' = "begin")
         /\ status' # "Error" \/ status' = status
         /\ cancelRequested => cancelRequested'
<1> USE DEF streamVars, lifeVars, resultVars, workerVars, serverVars
<1>1. CASE ApiCancel \/ StopBegin \/ StopSweep \/ ReaperPick \/ ReaperErase
  BY <1>1 DEF ApiCancel, StopBegin, StopSweep, ReaperPick, ReaperErase
<1>2. CASE \E c \in Callers : CancelStep(c)
  BY <1>2 DEF CancelStep, CancelFlag, CancelLock, CancelNotify
<1>3. CASE \E s \in Streams : StreamBegin(s) \/ SpawnThrows(s)
  BY <1>3 DEF SessionInv, StartInv, StreamBegin, StreamRoute, StreamFind, StreamAttach, Start, StartCheck, Spawn,
     SpawnThrows, GoStream
<1>4. ASSUME NEW s \in Streams, StreamProvides(s) \/ ClientCut(s)
      PROVE  UNCHANGED <<job, wpc, status, cancelRequested>>
  BY <1>4 DEF StreamProvides, ClientCut, WriteFails, WriteMeta, PopBatch, PopNothing, WriteBatch, WriteDone,
     WriteDoneFails, WriteTick, EraseAtDone, CutNoticed, Release, EraseAtRelease, CancelReturns
<1>5. CASE UNCHANGED vars
  BY <1>5 DEF vars
<1> QED BY <1>1, <1>2, <1>3, <1>4, <1>5 DEF Next

LEMMA ErrorJobStep ==
  ASSUME SessionInv, ErrorJob, [Next]_vars
  PROVE  ErrorJob'
<1>1. CASE QueryThread
  BY <1>1, ErrorJobThreadStep DEF SessionInv
<1>2. CASE ~QueryThread
  BY <1>2, OthersKeepJob DEF ErrorJob
<1> QED BY <1>1, <1>2

(* A run that must have shown its error had to before, unless the error is  *)
(* pushed in this step.                                                     *)
LEMMA MustShowBefore ==
  ASSUME SessionInv, ErrorJob, [Next]_vars, ~Push, MustShow'
  PROVE  MustShow
<1>1. CASE ~QueryThread
  BY <1>1, OthersKeepJob DEF MustShow, Pushed
<1>2. CASE QueryThread
  <2>1. UNCHANGED cancelRequested /\ job.next \in {"receive", "fin_ok", "error_set"}
    BY <1>2, QueryThreadFrame, JobFields DEF WorkerFrame, SessionInv, DataInv, WorkerTypes
  <2>2. CASE Pushed' /\ ~cancelRequested'
    <3>1. wpc' # "account"
      BY <1>2, <2>1 DEF QueryThread, Begin, Acquire, Command, Attempt, Block,
        StatementEnds, StatementFails, Fails, EncodeFails, Account, Retry, Rethrow, Catch, FinishError,
        FinishCanceled, FinishLimit, FinishOk, FinishOkCanceled, WorkerNotify, Finish, GoWorker
    <3>2. wpc' = "error_set"
      BY <2>2, <3>1 DEF Pushed
    <3>3. wpc = "account" /\ job.next = "error_set"
      BY <1>2, <3>2 DEF QueryThread, Begin, Acquire, Command, Attempt, Block,
        StatementEnds, StatementFails, Fails, EncodeFails, Account, Retry, Rethrow, Catch, FinishError,
        FinishCanceled, FinishLimit, FinishOk, FinishOkCanceled, WorkerNotify, Finish, GoWorker
    <3> QED BY <2>1, <2>2, <3>3 DEF MustShow, Pushed
  <2>3. CASE status' = "Error" /\ status # "Error"
    <3>1. FinishError
      BY <1>2, <2>3 DEF QueryThread, StatusFrame, Begin, Acquire, Command, Attempt, Block, StatementEnds,
         StatementFails, EncodeFails, Account, Retry, Rethrow, Catch, FinishCanceled, FinishLimit, FinishOk,
         FinishOkCanceled, WorkerNotify, Finish
    <3>2. wpc = "error_set" /\ ~cancelRequested
      BY <2>3, <3>1 DEF FinishError, Finish, GoWorker
    <3> QED BY <3>2 DEF MustShow, Pushed
  <2> QED BY <2>2, <2>3 DEF MustShow
<1> QED BY <1>1, <1>2

-----------------------------------------------------------------------------
(* The histories of the streams.                                            *)
LogsTyped ==
  /\ queue \in Seq(Event)
  /\ sent \in [Streams -> StreamLog]
  /\ \A s \in Streams : sent[s].log \in Seq(Event) /\ sent[s].batch \in Seq(Event)

LEMMA LogTypes == ASSUME SessionInv PROVE LogsTyped
<1>1. queue \in Seq(Event) /\ sent \in [Streams -> StreamLog]
  BY DEF SessionInv, DataInv, WorkerTypes, StreamData
<1>2. \A s \in Streams : sent[s] \in StreamLog
  BY <1>1
<1>3. ASSUME NEW l \in StreamLog PROVE l.log \in Seq(Event) /\ l.batch \in Seq(Event)
  BY DEF StreamLog
<1> QED BY <1>1, <1>2, <1>3 DEF LogsTyped

KeepsLogs == \A s \in Streams : sent'[s].log = sent[s].log /\ sent'[s].batch = sent[s].batch

KeepsHistories == \A s \in Streams : SoleReader(s)' => SoleReader(s) /\ History(s)' = History(s)

LEMMA KeptLogs ==
  ASSUME KeepsLogs
  PROVE  /\ \A s \in Streams : SoleReader(s)' = SoleReader(s)
         /\ UNCHANGED queue => KeepsHistories
BY DEF KeepsLogs, KeepsHistories, SoleReader, History

(* Everything but the pop and the write of a batch leaves the logs alone.    *)
LEMMA LogsStep ==
  ASSUME SessionInv, [Next]_vars, \A s \in Streams : ~PopBatch(s) /\ ~WriteBatch(s)
  PROVE  KeepsLogs /\ (queue' = queue \/ Push)
<1> USE DEF streamVars, lifeVars, resultVars, workerVars, serverVars
<1>1. CASE UNCHANGED sent
  <2>1. queue' = queue \/ Push
    BY <1>1 DEF Next, QueryThread, Begin, Acquire, Command, Attempt, Block,
       StatementEnds, StatementFails, EncodeFails, Account, Retry, Rethrow, Catch, FinishError,
       FinishCanceled, FinishLimit, FinishOk, FinishOkCanceled, WorkerNotify, Finish,
       ApiCancel, StopBegin, StopSweep, ReaperPick, ReaperErase, CancelStep, CancelFlag, CancelLock, CancelNotify,
       StreamBegin, StreamRoute, StreamFind, StreamAttach, Start, StartCheck, Spawn, SpawnThrows,
       StreamProvides, ClientCut, WriteFails, WriteMeta, PopNothing, WriteDone,
       WriteDoneFails, WriteTick, EraseAtDone, CutNoticed, Release, EraseAtRelease, CancelReturns, vars
  <2> QED BY <1>1, <2>1 DEF KeepsLogs
<1>2. ASSUME NEW s \in Streams, WriteMeta(s) \/ WriteDone(s) \/ WriteDoneFails(s)
      PROVE  KeepsLogs /\ queue' = queue
  <2>1. queue' = queue
    BY <1>2 DEF WriteMeta, WriteDone, WriteDoneFails
  <2>2. sent \in [Streams -> StreamLog] /\ sent[s] \in StreamLog
    BY LogTypes DEF LogsTyped
  <2>3. CASE WriteMeta(s)
    <3> DEFINE l == [sent[s] EXCEPT !.metas = sent[s].metas + 1]
    <3>1. l.log = sent[s].log /\ l.batch = sent[s].batch
      BY <2>2, Zenon DEF StreamLog
    <3>2. sent' = [sent EXCEPT ![s] = l]
      BY <2>2, <2>3 DEF WriteMeta
    <3> HIDE DEF l
    <3>3. sent'[s] = l /\ \A r \in Streams \ {s} : sent'[r] = sent[r]
      BY <2>2, <3>2
    <3> QED BY <2>1, <3>1, <3>3 DEF KeepsLogs
  <2>4. CASE WriteDone(s)
    <3> DEFINE errors == IF stopping /\ status = "Canceled" THEN 1 ELSE 0
               l == [sent[s] EXCEPT !.termSent = TRUE, !.done = status, !.rowsTold = emitted,
                                    !.drained = ~mayContinue[s], !.stopErrors = errors]
    <3>1. sent' = [sent EXCEPT ![s] = l]
      BY <2>2, <2>4 DEF WriteDone
    <3> HIDE DEF errors
    <3>2. l.log = sent[s].log /\ l.batch = sent[s].batch
      BY <2>2, Zenon DEF StreamLog
    <3> HIDE DEF l
    <3>3. sent'[s] = l /\ \A r \in Streams \ {s} : sent'[r] = sent[r]
      BY <2>2, <3>1
    <3> QED BY <2>1, <3>2, <3>3 DEF KeepsLogs
  <2>5. CASE WriteDoneFails(s)
    <3> DEFINE l == [sent[s] EXCEPT !.termSent = TRUE]
    <3>1. l.log = sent[s].log /\ l.batch = sent[s].batch
      BY <2>2, Zenon DEF StreamLog
    <3>2. sent' = [sent EXCEPT ![s] = l]
      BY <2>2, <2>5 DEF WriteDoneFails
    <3> HIDE DEF l
    <3>3. sent'[s] = l /\ \A r \in Streams \ {s} : sent'[r] = sent[r]
      BY <2>2, <3>2
    <3> QED BY <2>1, <3>1, <3>3 DEF KeepsLogs
  <2> QED BY <1>2, <2>1, <2>3, <2>4, <2>5
<1>3. CASE ~UNCHANGED sent
  <2>1. ~QueryThread
    BY <1>3, QueryThreadFrame DEF WorkerFrame
  <2>2. \E s \in Streams : WriteMeta(s) \/ WriteDone(s) \/ WriteDoneFails(s)
    BY <1>3, <2>1 DEF Next, ApiCancel, StopBegin, StopSweep, ReaperPick, ReaperErase, CancelStep, CancelFlag,
       CancelLock, CancelNotify, StreamBegin, StreamRoute, StreamFind, StreamAttach, Start, StartCheck, Spawn,
       SpawnThrows, StreamProvides, ClientCut, WriteFails, PopNothing, WriteTick, EraseAtDone, CutNoticed, Release,
       EraseAtRelease, CancelReturns, vars
  <2> QED BY <1>2, <2>2
<1> QED BY <1>1, <1>3

(* The batch that a pop takes off the queue and the rest of it.             *)
LEMMA SplitQueue ==
  ASSUME NEW q \in Seq(Event), NEW n \in Nat \ {0}, n <= Len(q)
  PROVE  /\ SubSeq(q, 1, n) \in Seq(Event) /\ SubSeq(q, n + 1, Len(q)) \in Seq(Event)
         /\ SubSeq(q, 1, n) # <<>>
         /\ SubSeq(q, 1, n) \o SubSeq(q, n + 1, Len(q)) = q
<1>1. 1 \in 1..(Len(q) + 1) /\ n \in (1 - 1)..Len(q) /\ Len(q) \in n..Len(q)
  OBVIOUS
<1>2. SubSeq(q, 1, n) \o SubSeq(q, n + 1, Len(q)) = SubSeq(q, 1, Len(q))
  BY <1>1, ConcatAdjacentSubSeq
<1>3. SubSeq(q, 1, Len(q)) = q
  BY SubSeqFull
<1>4. SubSeq(q, 1, n) \in Seq(Event) /\ SubSeq(q, n + 1, Len(q)) \in Seq(Event) /\ Len(SubSeq(q, 1, n)) = n
  OBVIOUS
<1> QED BY <1>2, <1>3, <1>4

LEMMA PopKeepsHistories ==
  ASSUME LogsTyped, BatchInv, NEW s \in Streams, PopBatch(s)
  PROVE  KeepsHistories
<1>1. PICK n \in 1..BatchEvents : /\ n <= Len(queue)
                                  /\ sent' = [sent EXCEPT ![s].batch = SubSeq(queue, 1, n)]
                                  /\ queue' = SubSeq(queue, n + 1, Len(queue))
  BY DEF PopBatch
<1> DEFINE taken == SubSeq(queue, 1, n)
           rest  == SubSeq(queue, n + 1, Len(queue))
           l     == [sent[s] EXCEPT !.batch = taken]
<1>2. sent[s].batch = <<>> /\ sent[s].log \in Seq(Event) /\ queue \in Seq(Event) /\ sent[s] \in StreamLog
  BY DEF PopBatch, GoStream, BatchInv, LogsTyped
<1>3. taken \in Seq(Event) /\ rest \in Seq(Event) /\ taken # <<>> /\ taken \o rest = queue
  <2>1. n \in Nat \ {0}
    BY SessionAssumption
  <2> QED BY <1>1, <1>2, <2>1, SplitQueue, Zenon
<1>4. queue' = rest /\ sent' = [sent EXCEPT ![s] = l]
  BY <1>1 DEF LogsTyped
<1> HIDE DEF taken, rest
<1>5. l.batch = taken /\ l.log = sent[s].log
  BY <1>2, Zenon DEF StreamLog
<1> HIDE DEF l
<1>6. sent'[s] = l /\ \A r \in Streams \ {s} : sent'[r] = sent[r]
  BY <1>4 DEF LogsTyped
<1>7. SoleReader(s)' = SoleReader(s)
  BY <1>6 DEF SoleReader
<1>8. History(s)' = History(s)
  <2>1. History(s)' = (sent[s].log \o taken) \o rest
    BY <1>4, <1>5, <1>6 DEF History
  <2>2. History(s) = (sent[s].log \o <<>>) \o queue
    BY <1>2 DEF History
  <2>3. sent[s].log \o <<>> = sent[s].log
    BY <1>2, ConcatEmptySeq
  <2>4. (sent[s].log \o taken) \o rest = sent[s].log \o (taken \o rest)
    <3>1. sent[s].log \in Seq(Event) /\ taken \in Seq(Event) /\ rest \in Seq(Event)
      BY <1>2, <1>3
    <3>2. \A a, b, c \in Seq(Event) : (a \o b) \o c = a \o (b \o c)
      BY ConcatAssociative
    <3> QED BY <3>1, <3>2
  <2> QED BY <1>3, <2>1, <2>2, <2>3, <2>4
<1>9. \A r \in Streams \ {s} : ~SoleReader(r)'
  BY <1>3, <1>5, <1>6 DEF SoleReader
<1> QED BY <1>7, <1>8, <1>9 DEF KeepsHistories

LEMMA WriteKeepsHistories ==
  ASSUME LogsTyped, NEW s \in Streams, WriteBatch(s)
  PROVE  KeepsHistories
<1> DEFINE longer == sent[s].log \o sent[s].batch
           none   == <<>>
           l      == [sent[s] EXCEPT !.log = longer, !.batch = none]
<1>1. queue' = queue /\ sent' = [sent EXCEPT ![s] = l]
  BY DEF WriteBatch, LogsTyped, resultVars
<1>2. sent[s] \in StreamLog /\ sent[s].log \in Seq(Event) /\ sent[s].batch \in Seq(Event)
  BY DEF LogsTyped
<1>3. longer \in Seq(Event) /\ none \in Seq(Event) /\ longer \o none = longer
  BY <1>2, ConcatEmptySeq
<1>4. longer = <<>> => sent[s].log = <<>> /\ sent[s].batch = <<>>
  BY <1>2, ConcatEqualIffEmpty
<1> HIDE DEF longer
<1>5. l.batch = none /\ l.log = longer
  BY <1>2, Zenon DEF StreamLog
<1> HIDE DEF l
<1>6. sent'[s] = l /\ \A r \in Streams \ {s} : sent'[r] = sent[r]
  BY <1>1 DEF LogsTyped
<1>7. SoleReader(s)' = SoleReader(s)
  BY <1>6 DEF SoleReader
<1>8. History(s)' = History(s)
  BY <1>1, <1>3, <1>5, <1>6 DEF History, longer
<1>9. \A r \in Streams \ {s} : SoleReader(r)' => SoleReader(r) /\ History(r)' = History(r)
  BY <1>1, <1>4, <1>5, <1>6 DEF SoleReader, History
<1> QED BY <1>7, <1>8, <1>9 DEF KeepsHistories

(* A step that leaves the logs alone keeps BatchInv when no stream goes back *)
(* from its end to the pop.                                                 *)
LEMMA QuietKeepsBatch ==
  ASSUME BatchInv, KeepsLogs,
         \A s \in Streams : back'[s] # "meta",
         \A s \in Streams : /\ spc[s] \in {"write", "cancelling", "release", "erase", "erase_again", "end"}
                            => spc'[s] \in {"write", "cancelling", "release", "erase", "erase_again", "end"}
  PROVE  BatchInv'
BY DEF BatchInv, KeepsLogs

LEMMA BatchStep ==
  ASSUME SessionInv, BatchInv, [Next]_vars
  PROVE  BatchInv'
<1> USE DEF streamVars, lifeVars, resultVars, workerVars, serverVars
<1> DEFINE Late == {"write", "cancelling", "release", "erase", "erase_again", "end"}
<1>1. StreamTypes /\ LogsTyped
  BY LogTypes DEF SessionInv
<1>2. \A s \in Streams : back[s] # "meta"
  BY DEF BatchInv
<1>3. CASE UNCHANGED <<back, spc, sent>>
  BY <1>3 DEF BatchInv
<1>4. CASE QueryThread
  BY <1>3, <1>4, QueryThreadFrame DEF WorkerFrame
<1>5. CASE ApiCancel \/ StopBegin \/ StopSweep \/ ReaperPick \/ ReaperErase
  BY <1>3, <1>5 DEF ApiCancel, StopBegin, StopSweep, ReaperPick, ReaperErase
<1>6. CASE \E c \in Callers : CancelStep(c)
  BY <1>3, <1>6 DEF CancelStep, CancelFlag, CancelLock, CancelNotify
<1>7. ASSUME NEW s \in Streams, StreamBegin(s) \/ SpawnThrows(s)
      PROVE  BatchInv'
  <2>1. UNCHANGED <<back, sent>> /\ spc[s] \notin Late /\ \A r \in Streams \ {s} : spc'[r] = spc[r]
    BY <1>1, <1>7 DEF StreamTypes, StreamBegin, StreamRoute, StreamFind, StreamAttach, Start, StartCheck, Spawn,
       SpawnThrows, GoStream
  <2> QED BY <2>1 DEF BatchInv
<1>8. ASSUME NEW s \in Streams, PopBatch(s)
      PROVE  BatchInv'
  <2>1. UNCHANGED back /\ spc' = [spc EXCEPT ![s] = "write"] /\ \A r \in Streams \ {s} : sent'[r] = sent[r]
    BY <1>1, <1>8 DEF PopBatch, GoStream, LogsTyped
  <2> QED BY <1>1, <2>1 DEF BatchInv, StreamTypes
<1>9. ASSUME NEW s \in Streams, WriteBatch(s)
      PROVE  BatchInv'
  <2> DEFINE longer == sent[s].log \o sent[s].batch
             none == <<>>
             l == [sent[s] EXCEPT !.log = longer, !.batch = none]
  <2>1. UNCHANGED back /\ spc' = [spc EXCEPT ![s] = "pop"] /\ sent' = [sent EXCEPT ![s] = l]
    BY <1>1, <1>9 DEF WriteBatch, GoStream, LogsTyped
  <2>2. sent[s] \in StreamLog
    BY <1>1 DEF LogsTyped
  <2> HIDE DEF longer
  <2>3. l.batch = none
    BY <2>2, Zenon DEF StreamLog
  <2> HIDE DEF l
  <2>4. sent'[s] = l /\ \A r \in Streams \ {s} : sent'[r] = sent[r] /\ spc'[r] = spc[r]
    BY <1>1, <2>1 DEF LogsTyped, StreamTypes
  <2> QED BY <2>1, <2>3, <2>4 DEF BatchInv
<1>10. ASSUME NEW s \in Streams, StreamProvides(s) \/ ClientCut(s), \A r \in Streams : ~PopBatch(r) /\ ~WriteBatch(r)
       PROVE  BatchInv'
  <2>1. KeepsLogs
    BY <1>10, LogsStep
  <2>2. /\ UNCHANGED back \/ \E to \in {"release", "erase", "erase_again"} : back' = [back EXCEPT ![s] = to]
        /\ UNCHANGED spc \/ \E to : spc' = [spc EXCEPT ![s] = to]
        /\ spc'[s] \in Late \/ spc[s] \notin Late
    <3>1. CASE CancelReturns(s)
      <4>1. back[s] \in {"release", "erase", "erase_again"}
        BY <1>1, <1>2 DEF StreamTypes
      <4> QED BY <1>1, <3>1, <4>1 DEF CancelReturns, GoStream, StreamTypes
    <3>2. CASE WriteFails(s) \/ WriteDoneFails(s) \/ WriteTick(s) \/ Release(s)
      BY <1>1, <3>2 DEF WriteFails, WriteDoneFails, WriteTick, Release, StreamCancels, GoStream, StreamTypes
    <3>3. CASE WriteMeta(s) \/ PopNothing(s) \/ WriteDone(s) \/ EraseAtDone(s) \/ CutNoticed(s) \/ EraseAtRelease(s)
               \/ ClientCut(s)
      BY <1>1, <3>3 DEF WriteMeta, PopNothing, WriteDone, EraseAtDone, CutNoticed, EraseAtRelease, ClientCut, GoStream,
         StreamTypes
    <3> QED BY <1>10, <3>1, <3>2, <3>3 DEF StreamProvides
  <2>3. \A r \in Streams : back'[r] # "meta"
    BY <1>1, <1>2, <2>2 DEF StreamTypes
  <2>4. \A r \in Streams : spc[r] \in Late => spc'[r] \in Late
    BY <1>1, <2>2 DEF StreamTypes
  <2> QED BY <2>1, <2>3, <2>4, QuietKeepsBatch
<1>11. CASE UNCHANGED vars
  BY <1>3, <1>11 DEF vars
<1> QED BY <1>4, <1>5, <1>6, <1>7, <1>8, <1>9, <1>10, <1>11 DEF Next

-----------------------------------------------------------------------------
(* An event that is appended to the queue is the last of every history.     *)
LEMMA AppendedIsLast ==
  ASSUME NEW h \in Seq(Event), NEW q \in Seq(Event), NEW e \in Event
  PROVE  h \o Append(q, e) # <<>> /\ Last(h \o Append(q, e)) = e
<1>1. Append(q, e) \in Seq(Event) /\ Len(Append(q, e)) = Len(q) + 1 /\ Append(q, e)[Len(q) + 1] = e
  BY AppendProperties
<1> DEFINE a == Append(q, e)
<1> HIDE DEF a
<1>2. a \in Seq(Event) /\ Len(a) = Len(q) + 1 /\ a[Len(a)] = e
  BY <1>1 DEF a
<1>3. Len(h \o a) = Len(h) + Len(a) /\ h \o a \in Seq(Event)
  BY <1>2, ConcatProperties
<1>4. Len(h) \in Nat /\ Len(q) \in Nat /\ Len(h \o a) = Len(h) + Len(q) + 1
  BY <1>2, <1>3
<1>5. (h \o a)[Len(h) + Len(a)] = a[Len(a)]
  BY <1>2, <1>4, ConcatProperties
<1>6. h \o a # <<>>
  BY <1>3, <1>4, EmptySeq
<1>7. Last(h \o a) = e
  BY <1>2, <1>3, <1>5 DEF Last
<1> QED BY <1>6, <1>7 DEF a

(* The push of the error event: every reader has it as its last event, and  *)
(* when a cancel dropped it, the run will not be an Error.                  *)
LEMMA PushShowsError ==
  ASSUME SessionInv, ErrorJob, Push
  PROVE  ErrorShown'
<1>1. wpc = "push" /\ wpc' = "account" /\ job' = [job EXCEPT !.returned = @ + Head(job.out).rows]
  BY DEF Push, GoWorker
<1>2. /\ job \in ThreadJob /\ job.out \in Seq(Event) /\ Head(job.out) \in Event /\ Head(job.out).rows \in Nat
  BY <1>1, EventFacts DEF SessionInv
<1>3. job'.next = job.next
  BY <1>1, <1>2, ReturnedJob
<1>4. UNCHANGED <<status, cancelRequested, sent>>
  BY DEF Push, StatusFrame, WorkerFrame, streamVars
<1>5. status # "Error"
  BY <1>1 DEF SessionInv, StatusInv
<1> SUFFICES ASSUME MustShow', NEW s \in Streams
             PROVE  EndsWithError(s)'
  BY DEF ErrorShown
<1>6. job.next = "error_set" /\ ~cancelRequested
  BY <1>1, <1>3, <1>4, <1>5 DEF MustShow, Pushed
<1>7. queue' = Append(queue, Head(job.out)) /\ IsErrorEvent(Head(job.out))
  BY <1>1, <1>6 DEF Push, ErrorJob
<1>8. queue \in Seq(Event) /\ sent[s].log \o sent[s].batch \in Seq(Event)
  BY LogTypes, ConcatProperties DEF LogsTyped
<1>9. History(s)' = (sent[s].log \o sent[s].batch) \o Append(queue, Head(job.out))
  BY <1>4, <1>7 DEF History
<1>10. History(s)' # <<>> /\ Last(History(s)') = Head(job.out)
  <2> DEFINE h == sent[s].log \o sent[s].batch
             e == Head(job.out)
  <2>1. h \in Seq(Event) /\ queue \in Seq(Event) /\ e \in Event
    BY <1>2, <1>8
  <2>2. History(s)' = h \o Append(queue, e)
    BY <1>9
  <2> HIDE DEF h, e
  <2>3. h \o Append(queue, e) # <<>> /\ Last(h \o Append(queue, e)) = e
    BY <2>1, AppendedIsLast
  <2>4. History(s)' # <<>> /\ Last(History(s)') = e
    BY <2>2, <2>3, Zenon
  <2> QED BY <2>4 DEF e
<1> QED BY <1>7, <1>10 DEF EndsWithError, IsErrorEvent

LEMMA ErrorShownStep ==
  ASSUME SessionInv, ErrorInv, [Next]_vars
  PROVE  ErrorShown'
<1>1. CASE Push
  BY <1>1, PushShowsError DEF ErrorInv
<1>2. CASE ~Push
  <2>1. KeepsHistories
    <3>1. CASE \E s \in Streams : PopBatch(s) \/ WriteBatch(s)
      BY <3>1, LogTypes, PopKeepsHistories, WriteKeepsHistories DEF ErrorInv
    <3>2. CASE \A s \in Streams : ~PopBatch(s) /\ ~WriteBatch(s)
      BY <1>2, <3>2, LogsStep, KeptLogs
    <3> QED BY <3>1, <3>2
  <2>2. MustShow' => MustShow
    BY <1>2, MustShowBefore DEF ErrorInv
  <2>3. ASSUME MustShow', NEW s \in Streams, SoleReader(s)'
        PROVE  EndsWithError(s)'
    <3>1. SoleReader(s) /\ History(s)' = History(s)
      BY <2>1, <2>3 DEF KeepsHistories
    <3>2. EndsWithError(s)
      BY <2>2, <2>3, <3>1 DEF ErrorInv, ErrorShown
    <3> QED BY <3>1, <3>2 DEF EndsWithError
  <2> QED BY <2>3 DEF ErrorShown
<1> QED BY <1>1, <1>2

LEMMA ErrorInit == Init => ErrorInv
<1> SUFFICES ASSUME Init PROVE ErrorInv
  OBVIOUS
<1>1. wpc = "off" /\ status = "Created" /\ back = [s \in Streams |-> "release"]
  BY DEF Init
<1>2. \A s \in Streams : sent[s].batch = <<>>
  BY DEF Init
<1> QED BY <1>1, <1>2 DEF ErrorInv, ErrorJob, BatchInv, ErrorShown, MustShow, Pushed

(* finish_error and push_sse_json_event: a run whose status is Error has    *)
(* its error event in the stream, as the last of all, for every interleaving *)
(* of its push with cancels, pops and writes.                               *)
THEOREM ErrorIsShown == Spec => []ErrorIsTold
<1>1. Init => SessionInv /\ ErrorInv
  BY SessionInit, ErrorInit
<1>2. SessionInv /\ ErrorInv /\ [Next]_vars => (SessionInv /\ ErrorInv)'
  BY SessionStep, ErrorJobStep, BatchStep, ErrorShownStep DEF ErrorInv
<1>3. SessionInv /\ ErrorInv => ErrorIsTold
  BY DEF ErrorInv, ErrorShown, MustShow, ErrorIsTold, EndsWithError, IsErrorEvent
<1> QED BY <1>1, <1>2, <1>3, PTL DEF Spec
-----------------------------------------------------------------------------
(* The rows and their meta.  The events on their way belong to the attempt  *)
(* of the query thread, and only the first of them can be its meta.         *)
InAttempt == wpc \in {"push", "account"} /\ job.next # "error_set"

OutOfAttempt ==
  /\ InAttempt => /\ \A i \in 1..Len(job.out) : job.out[i].attempt = job.attempt
                  /\ job.out[1].kind \in {"result_meta", "result_rows"}
                  /\ \A i \in 2..Len(job.out) : job.out[i].kind = "result_rows"
  /\ wpc \in {"off", "begin", "acquire", "attempt"} => job.metaSent = FALSE

Explained(h) ==
  \A i \in 1..Len(h) : h[i].kind = "result_rows" =>
    \E j \in 1..(i - 1) : h[j].kind = "result_meta" /\ \A k \in j..i : h[k].attempt = h[i].attempt

HasMetaOf(h, a) ==
  \E j \in 1..Len(h) : h[j].kind = "result_meta" /\ \A k \in j..Len(h) : h[k].attempt = a

(* Where the query thread stands when the next event can be a row.          *)
MetaIsOut ==
  \/ wpc = "receive" /\ job.metaSent = TRUE
  \/ InAttempt /\ wpc = "account"
  \/ InAttempt /\ wpc = "push" /\ Head(job.out).kind = "result_rows"

HistoriesExplained ==
  \A s \in Streams : SoleReader(s) =>
    /\ Explained(History(s))
    /\ ~cancelRequested /\ MetaIsOut => HasMetaOf(History(s), job.attempt)

RowsInv == OutOfAttempt /\ HistoriesExplained

(* g is h with the event e after it.                                        *)
Longer(g, h, e) ==
  /\ Len(g) = Len(h) + 1
  /\ g[Len(h) + 1] = e
  /\ \A i \in 1..Len(h) : g[i] = h[i]

LEMMA AppendedIsLonger ==
  ASSUME NEW h \in Seq(Event), NEW q \in Seq(Event), NEW e \in Event
  PROVE  /\ h \o q \in Seq(Event)
         /\ Longer(h \o Append(q, e), h \o q, e)
<1> DEFINE a == Append(q, e)
<1>1. a \in Seq(Event) /\ Len(a) = Len(q) + 1 /\ a[Len(q) + 1] = e /\ \A i \in 1..Len(q) : a[i] = q[i]
  BY AppendProperties
<1> HIDE DEF a
<1>2. /\ h \o q \in Seq(Event) /\ Len(h \o q) = Len(h) + Len(q)
      /\ \A i \in 1..(Len(h) + Len(q)) : (h \o q)[i] = IF i <= Len(h) THEN h[i] ELSE q[i - Len(h)]
  BY ConcatProperties
<1>3. /\ Len(h \o a) = Len(h) + Len(a)
      /\ \A i \in 1..(Len(h) + Len(a)) : (h \o a)[i] = IF i <= Len(h) THEN h[i] ELSE a[i - Len(h)]
  BY <1>1, ConcatProperties
<1>4. Len(h) \in Nat /\ Len(q) \in Nat
  OBVIOUS
<1>5. Len(h \o a) = Len(h \o q) + 1
  BY <1>1, <1>2, <1>3, <1>4
<1>6. (h \o a)[Len(h \o q) + 1] = e
  <2>1. Len(h \o q) + 1 \in 1..(Len(h) + Len(a)) /\ ~(Len(h \o q) + 1 <= Len(h))
        /\ Len(h \o q) + 1 - Len(h) = Len(q) + 1
    BY <1>1, <1>2, <1>4
  <2> QED BY <1>1, <1>3, <2>1
<1>7. ASSUME NEW i \in 1..Len(h \o q) PROVE (h \o a)[i] = (h \o q)[i]
  <2>1. i \in 1..(Len(h) + Len(q)) /\ i \in 1..(Len(h) + Len(a))
    BY <1>1, <1>2, <1>4
  <2>2. ~(i <= Len(h)) => i - Len(h) \in 1..Len(q)
    BY <1>4, <2>1
  <2>3. ~(i <= Len(h)) => a[i - Len(h)] = q[i - Len(h)]
    BY <1>1, <2>2
  <2> QED BY <1>2, <1>3, <2>1, <2>3
<1> QED BY <1>2, <1>5, <1>6, <1>7 DEF Longer, a

(* An event that is not a row explains nothing and needs nothing.           *)
LEMMA OtherEventExplained ==
  ASSUME NEW h \in Seq(Event), NEW g, NEW e \in Event, Longer(g, h, e), Explained(h), e.kind # "result_rows"
  PROVE  Explained(g)
<1>1. Len(h) \in Nat
  OBVIOUS
<1> SUFFICES ASSUME NEW i \in 1..Len(g), g[i].kind = "result_rows"
             PROVE  \E j \in 1..(i - 1) : g[j].kind = "result_meta" /\ \A k \in j..i : g[k].attempt = g[i].attempt
  BY DEF Explained
<1>2. i \in 1..Len(h) /\ h[i].kind = "result_rows"
  BY <1>1 DEF Longer
<1>3. PICK j \in 1..(i - 1) : h[j].kind = "result_meta" /\ \A k \in j..i : h[k].attempt = h[i].attempt
  BY <1>2 DEF Explained
<1>4. \A k \in j..i : k \in 1..Len(h) /\ g[k] = h[k]
  BY <1>1, <1>2 DEF Longer
<1>5. j \in j..i /\ i \in j..i
  BY <1>2
<1> QED BY <1>3, <1>4, <1>5

LEMMA MetaIsItsOwn ==
  ASSUME NEW h \in Seq(Event), NEW g, NEW e \in Event, Longer(g, h, e), e.kind = "result_meta"
  PROVE  HasMetaOf(g, e.attempt)
<1>1. Len(h) + 1 \in 1..Len(g) /\ \A k \in (Len(h) + 1)..Len(g) : k = Len(h) + 1
  BY DEF Longer
<1> QED BY <1>1 DEF Longer, HasMetaOf

(* A row after the meta of its attempt.                                     *)
LEMMA RowExplained ==
  ASSUME NEW h \in Seq(Event), NEW g, NEW e \in Event, Longer(g, h, e), Explained(h), HasMetaOf(h, e.attempt),
         e.kind = "result_rows"
  PROVE  Explained(g) /\ HasMetaOf(g, e.attempt)
<1>1. Len(h) \in Nat
  OBVIOUS
<1>2. PICK m \in 1..Len(h) : h[m].kind = "result_meta" /\ \A k \in m..Len(h) : h[k].attempt = e.attempt
  BY DEF HasMetaOf
<1>3. g[m].kind = "result_meta" /\ \A k \in m..Len(g) : g[k].attempt = e.attempt
  <2>1. ASSUME NEW k \in m..Len(g) PROVE g[k].attempt = e.attempt
    <3>1. CASE k = Len(h) + 1
      BY <3>1 DEF Longer
    <3>2. CASE k # Len(h) + 1
      <4>1. k \in m..Len(h) /\ k \in 1..Len(h)
        BY <1>1, <3>2 DEF Longer
      <4> QED BY <1>2, <4>1 DEF Longer
    <3> QED BY <3>1, <3>2
  <2> QED BY <1>2, <2>1 DEF Longer
<1>4. HasMetaOf(g, e.attempt)
  <2>1. m \in 1..Len(g)
    BY <1>1 DEF Longer
  <2> QED BY <1>3, <2>1 DEF HasMetaOf
<1>5. ASSUME NEW i \in 1..Len(g), g[i].kind = "result_rows"
      PROVE  \E j \in 1..(i - 1) : g[j].kind = "result_meta" /\ \A k \in j..i : g[k].attempt = g[i].attempt
  <2>1. CASE i = Len(h) + 1
    <3>1. m \in 1..(i - 1) /\ \A k \in m..i : k \in m..Len(g)
      BY <1>1, <2>1 DEF Longer
    <3>2. g[i].attempt = e.attempt
      BY <2>1 DEF Longer
    <3> QED BY <1>3, <3>1, <3>2
  <2>2. CASE i # Len(h) + 1
    <3>1. i \in 1..Len(h) /\ h[i].kind = "result_rows"
      BY <1>1, <1>5, <2>2 DEF Longer
    <3>2. PICK j \in 1..(i - 1) : h[j].kind = "result_meta" /\ \A k \in j..i : h[k].attempt = h[i].attempt
      BY <3>1 DEF Explained
    <3>3. \A k \in j..i : k \in 1..Len(h) /\ g[k] = h[k]
      BY <1>1, <3>1 DEF Longer
    <3>4. j \in j..i /\ i \in j..i
      BY <3>1
    <3> QED BY <3>2, <3>3, <3>4
  <2> QED BY <2>1, <2>2
<1> QED BY <1>4, <1>5 DEF Explained

(* The events of a block: the meta first, if the attempt has none yet.       *)
BlockOrder(q) ==
  /\ \A i \in 1..Len(q) : q[i].attempt = job.attempt
  /\ \A i \in 2..Len(q) : q[i].kind = "result_rows"
  /\ job.metaSent = FALSE => q # <<>> /\ q[1].kind = "result_meta"
  /\ job.metaSent = TRUE /\ q # <<>> => q[1].kind = "result_rows"

LEMMA RowKeepsOrder ==
  ASSUME job \in ThreadJob, NEW q \in Seq(Event), BlockOrder(q), NEW n \in Nat
  PROVE  RowEvent(q, n) \in Seq(Event) /\ BlockOrder(RowEvent(q, n))
<1> DEFINE e == [kind |-> "result_rows", rows |-> n, attempt |-> job.attempt]
           a == Append(q, e)
<1>1. e \in Event /\ e.kind = "result_rows" /\ e.attempt = job.attempt
  BY DEF Event, ThreadJob
<1>2. RowEvent(q, n) = IF n = 0 THEN q ELSE a
  BY DEF RowEvent
<1> HIDE DEF e
<1>3. a \in Seq(Event) /\ Len(a) = Len(q) + 1 /\ a[Len(q) + 1] = e /\ \A i \in 1..Len(q) : a[i] = q[i]
  BY <1>1, AppendProperties
<1> HIDE DEF a
<1>4. Len(q) \in Nat /\ (q = <<>> <=> Len(q) = 0) /\ a # <<>>
  BY <1>3, EmptySeq
<1>5. BlockOrder(a)
  <2>1. ASSUME NEW i \in 1..Len(a) PROVE a[i].attempt = job.attempt /\ (i # 1 => a[i].kind = "result_rows")
    <3>1. CASE i = Len(q) + 1
      BY <1>1, <1>3, <3>1
    <3>2. CASE i # Len(q) + 1
      <4>1. i \in 1..Len(q) /\ (i # 1 => i \in 2..Len(q))
        BY <1>3, <1>4, <3>2
      <4> QED BY <1>3, <4>1 DEF BlockOrder
    <3> QED BY <3>1, <3>2
  <2>2. job.metaSent = FALSE => a[1].kind = "result_meta"
    BY <1>3, <1>4 DEF BlockOrder
  <2>3. job.metaSent = TRUE => a[1].kind = "result_rows"
    BY <1>1, <1>3, <1>4 DEF BlockOrder
  <2>4. \A i \in 2..Len(a) : i \in 1..Len(a) /\ i # 1
    BY <1>3, <1>4
  <2> QED BY <1>4, <2>1, <2>2, <2>3, <2>4 DEF BlockOrder
<1> QED BY <1>2, <1>3, <1>5

LEMMA BlockInOrder ==
  ASSUME job \in ThreadJob, NEW n \in Nat, NEW k \in 0..n
  PROVE  BlockOrder(BlockEvents(n, k))
<1> DEFINE m == [kind |-> "result_meta", rows |-> 0, attempt |-> job.attempt]
           one == <<m>>
           none == <<>>
<1>1. m \in Event /\ m.kind = "result_meta" /\ m.attempt = job.attempt /\ job.metaSent \in BOOLEAN
  BY DEF Event, ThreadJob
<1>2. MetaEvent = IF job.metaSent THEN none ELSE one
  BY DEF MetaEvent
<1> HIDE DEF m
<1>3. one \in Seq(Event) /\ Len(one) = 1 /\ one[1] = m /\ one # none
  BY <1>1
<1>4. none \in Seq(Event) /\ Len(none) = 0
  OBVIOUS
<1>5. MetaEvent \in Seq(Event) /\ BlockOrder(MetaEvent)
  <2>1. CASE job.metaSent = TRUE
    BY <1>2, <1>4, <2>1 DEF BlockOrder
  <2>2. CASE job.metaSent = FALSE
    BY <1>1, <1>2, <1>3, <2>2 DEF BlockOrder
  <2> QED BY <1>1, <2>1, <2>2
<1>6. k \in Nat /\ n - k \in Nat
  OBVIOUS
<1>7. RowEvent(MetaEvent, k) \in Seq(Event) /\ BlockOrder(RowEvent(MetaEvent, k))
  BY <1>5, <1>6, RowKeepsOrder
<1> QED BY <1>6, <1>7, RowKeepsOrder DEF BlockEvents

(* A block either ends the result at the limit, or puts its events out.      *)
EndsAtLimit == wpc' = "receive" /\ job'.metaSent = job.metaSent /\ job'.attempt = job.attempt

PutsBlock ==
  /\ job'.out \in Seq(Event) /\ BlockOrder(job'.out)
  /\ wpc' = IF job'.out = <<>> THEN "receive" ELSE "push"
  /\ job'.attempt = job.attempt

LEMMA BlockMoves ==
  ASSUME DataInv, Block
  PROVE  wpc = "receive" /\ (EndsAtLimit \/ PutsBlock)
<1>1. PICK n \in BlockRows \cup {0} :
       IF n > 0 /\ AtLimit
         THEN /\ job' = [job EXCEPT !.limit = TRUE]
              /\ UNCHANGED wpc
         ELSE \E k \in 0..Shown(n) :
              /\ k = 0 => Shown(n) = 0
              /\ job' = [job EXCEPT !.blocks = @ + 1, !.metaSent = TRUE, !.received = @ + n,
                           !.out = BlockEvents(Shown(n), k), !.next = "receive",
                           !.limit = RowLimit > 0 /\ job.received + n > RowLimit]
              /\ wpc' = IF BlockEvents(Shown(n), k) = <<>> THEN "receive" ELSE "push"
  BY DEF Block
<1>2. n \in Nat /\ RowLimit \in Nat
  BY SessionAssumption
<1>3. job \in ThreadJob /\ job.received \in Nat /\ job.returned \in Nat /\ emitted \in Nat
  BY JobFields DEF DataInv, WorkerTypes
<1>4. wpc = "receive" /\ ~job.limit
  BY DEF Block
<1>5. job.returned = Cut(job.received)
  BY <1>3, <1>4 DEF DataInv, CountInv, InResult, Unreturned, Unemitted
<1>6. CASE n > 0 /\ AtLimit
  <2>1. job'.metaSent = job.metaSent /\ job'.attempt = job.attempt /\ wpc' = "receive"
    BY <1>1, <1>3, <1>4, <1>6, Zenon DEF ThreadJob
  <2> QED BY <1>4, <2>1 DEF EndsAtLimit
<1>7. CASE ~(n > 0 /\ AtLimit)
  <2>1. Shown(n) \in Nat
    BY <1>2, <1>3, <1>5, <1>7 DEF Shown, Cut, AtLimit
  <2>2. PICK k \in 0..Shown(n) :
          /\ job' = [job EXCEPT !.blocks = @ + 1, !.metaSent = TRUE, !.received = @ + n,
                       !.out = BlockEvents(Shown(n), k), !.next = "receive",
                       !.limit = RowLimit > 0 /\ job.received + n > RowLimit]
          /\ wpc' = IF BlockEvents(Shown(n), k) = <<>> THEN "receive" ELSE "push"
    BY <1>1, <1>7
  <2> DEFINE out == BlockEvents(Shown(n), k)
  <2>3. out \in Seq(Event) /\ BlockOrder(out)
    BY <1>3, <2>1, BlockPending, BlockInOrder
  <2>4. job' = [job EXCEPT !.blocks = @ + 1, !.metaSent = TRUE, !.received = @ + n,
                  !.out = out, !.next = "receive", !.limit = RowLimit > 0 /\ job.received + n > RowLimit]
    BY <2>2
  <2>5. wpc' = IF out = <<>> THEN "receive" ELSE "push"
    BY <2>2
  <2> HIDE DEF out
  <2>6. job'.out = out /\ job'.attempt = job.attempt
    BY <1>3, <2>4, Zenon DEF ThreadJob
  <2> QED BY <1>4, <2>3, <2>5, <2>6 DEF PutsBlock
<1> QED BY <1>6, <1>7

(* What Command puts out, and what Account leaves.                          *)
LEMMA CommandMoves ==
  ASSUME DataInv, Command, wpc' = "push"
  PROVE  /\ job'.attempt = 1 /\ Len(job'.out) = 2
         /\ job'.out[1].kind = "result_meta" /\ job'.out[2].kind = "result_rows"
         /\ job'.out[1].attempt = 1 /\ job'.out[2].attempt = 1
<1> DEFINE m == [kind |-> "result_meta", rows |-> 0, attempt |-> 1]
           r == [kind |-> "result_rows", rows |-> 1, attempt |-> 1]
           o == <<m, r>>
<1>1. job \in ThreadJob
  BY DEF DataInv, WorkerTypes
<1>2. job' = [job EXCEPT !.attempt = 1, !.next = "fin_ok", !.out = o]
  BY DEF Command
<1>3. Len(o) = 2 /\ o[1] = m /\ o[2] = r
  OBVIOUS
<1>4. m.kind = "result_meta" /\ m.attempt = 1 /\ r.kind = "result_rows" /\ r.attempt = 1
  OBVIOUS
<1> HIDE DEF o, m, r
<1>5. job'.out = o /\ job'.attempt = 1
  BY <1>1, <1>2, Zenon DEF ThreadJob
<1> QED BY <1>3, <1>4, <1>5

LEMMA AccountMoves ==
  ASSUME DataInv, Account, wpc' # "failed"
  PROVE  /\ wpc = "account" /\ wpc' \in {"push", job.next}
         /\ wpc' = "push" => Len(job.out) > 1
         /\ job'.next = job.next /\ job'.attempt = job.attempt /\ job'.metaSent = job.metaSent
         /\ job'.out = Tail(job.out)
<1>1. job \in ThreadJob /\ job.next \in {"receive", "fin_ok", "error_set"}
  BY JobFields DEF DataInv, WorkerTypes
<1>2. wpc = "account" /\ wpc' = IF Len(job.out) > 1 THEN "push" ELSE job.next
  BY Zenon DEF Account, Fails
<1>3. job' = [job EXCEPT !.out = Tail(@)]
  BY Zenon DEF Account, Fails
<1>4. job'.next = job.next /\ job'.attempt = job.attempt /\ job'.metaSent = job.metaSent /\ job'.out = Tail(job.out)
  BY <1>1, <1>3, Zenon DEF ThreadJob
<1>5. wpc' = "push" => Len(job.out) > 1
  <2> SUFFICES ASSUME wpc' = "push", ~(Len(job.out) > 1) PROVE FALSE
    OBVIOUS
  <2>1. wpc' = job.next
    BY <1>2, Zenon
  <2> QED BY <1>1, <2>1
<1> QED BY <1>2, <1>4, <1>5

LEMMA PushMoves ==
  ASSUME DataInv, Push
  PROVE  /\ wpc = "push" /\ wpc' = "account"
         /\ job'.next = job.next /\ job'.attempt = job.attempt /\ job'.out = job.out
         /\ job.out \in Seq(Event) /\ job.out # <<>> /\ Head(job.out) \in Event
         /\ UNCHANGED <<status, cancelRequested, sent>>
<1>1. wpc = "push" /\ wpc' = "account" /\ job' = [job EXCEPT !.returned = @ + Head(job.out).rows]
  BY DEF Push, GoWorker
<1>2. /\ job \in ThreadJob /\ job.out \in Seq(Event) /\ job.out # <<>>
      /\ Head(job.out) \in Event /\ Head(job.out).rows \in Nat
  BY <1>1, EventFacts
<1>3. job'.next = job.next /\ job'.out = job.out /\ job'.attempt = job.attempt
  BY <1>1, <1>2, Zenon DEF ThreadJob
<1>4. UNCHANGED <<status, cancelRequested, sent>>
  BY DEF Push, StatusFrame, WorkerFrame, streamVars
<1> QED BY <1>1, <1>2, <1>3, <1>4

LEMMA OutOfAttemptThreadStep ==
  ASSUME DataInv, OutOfAttempt, QueryThread
  PROVE  OutOfAttempt'
<1>1. job \in ThreadJob /\ job.next \in {"receive", "fin_ok", "error_set"} /\ job.out \in Seq(Event)
      /\ job.metaSent \in BOOLEAN
  <2>1. \A j \in ThreadJob : j.metaSent \in BOOLEAN
    BY DEF ThreadJob
  <2> QED BY <2>1, JobFields DEF DataInv, WorkerTypes
<1>2. CASE wpc' \notin {"push", "account", "off", "begin", "acquire", "attempt"}
  BY <1>2 DEF OutOfAttempt, InAttempt
<1>3. CASE (Begin \/ Acquire) /\ wpc' \in {"acquire", "attempt"}
  <2>1. job' = job /\ wpc \in {"begin", "acquire"}
    BY <1>3 DEF Begin, Acquire, GoWorker
  <2> QED BY <1>3, <2>1 DEF OutOfAttempt, InAttempt
<1>4. CASE Command /\ wpc' = "push"
  BY <1>4, CommandMoves DEF OutOfAttempt
<1>5. CASE Block /\ wpc' = "push"
  <2>1. PutsBlock
    BY <1>5, BlockMoves DEF EndsAtLimit
  <2>2. /\ \A i \in 1..Len(job'.out) : job'.out[i].attempt = job'.attempt
        /\ \A i \in 2..Len(job'.out) : job'.out[i].kind = "result_rows"
        /\ job'.out[1].kind \in {"result_meta", "result_rows"}
    BY <1>1, <1>5, <2>1 DEF PutsBlock, BlockOrder
  <2> QED BY <1>5, <2>2 DEF OutOfAttempt
<1>6. CASE Push
  BY <1>6, PushMoves DEF OutOfAttempt, InAttempt
<1>7. CASE Account /\ wpc' = "push"
  <2>1. /\ wpc = "account" /\ Len(job.out) > 1 /\ job'.next = job.next /\ job'.attempt = job.attempt
        /\ job'.out = Tail(job.out)
    BY <1>7, AccountMoves
  <2> DEFINE o == job.out
  <2>2. o \in Seq(Event) /\ Len(o) \in Nat /\ Len(o) > 1 /\ o # <<>>
    BY <1>1, <2>1
  <2>3. Len(Tail(o)) = Len(o) - 1 /\ \A i \in 1..(Len(o) - 1) : Tail(o)[i] = o[i + 1]
    BY <2>2
  <2> HIDE DEF o
  <2>4. \A i \in 1..Len(Tail(o)) : i + 1 \in 2..Len(o) /\ i + 1 \in 1..Len(o) /\ Tail(o)[i] = o[i + 1]
    BY <2>2, <2>3
  <2>5. 1 \in 1..Len(Tail(o)) /\ \A i \in 2..Len(Tail(o)) : i \in 1..Len(Tail(o))
    BY <2>2, <2>3
  <2>6. InAttempt' => InAttempt
    BY <2>1 DEF InAttempt
  <2>7. InAttempt => /\ \A i \in 1..Len(o) : o[i].attempt = job.attempt
                     /\ \A i \in 2..Len(o) : o[i].kind = "result_rows"
    BY DEF OutOfAttempt, o
  <2>8. InAttempt => /\ \A i \in 1..Len(Tail(o)) : Tail(o)[i].attempt = job.attempt
                     /\ \A i \in 1..Len(Tail(o)) : Tail(o)[i].kind = "result_rows"
    BY <2>4, <2>7
  <2>9. job'.out = Tail(o)
    BY <2>1 DEF o
  <2> QED BY <1>7, <2>1, <2>5, <2>6, <2>8, <2>9 DEF OutOfAttempt
<1>8. CASE Retry
  <2>1. Restart.metaSent = FALSE
    BY <1>1, Zenon DEF ThreadJob, Restart
  <2> QED BY <1>8, <2>1 DEF Retry, GoWorker, OutOfAttempt, InAttempt
<1>9. CASE Catch /\ wpc' = "push"
  <2>1. \E o : job' = [NoJob EXCEPT !.next = "error_set", !.out = o]
    BY <1>9 DEF Catch
  <2>2. job'.next = "error_set"
    BY <2>1, NoJobType, Zenon DEF ThreadJob
  <2> QED BY <1>9, <2>2 DEF OutOfAttempt, InAttempt
<1> QED BY <1>1, <1>2, <1>3, <1>4, <1>5, <1>6, <1>7, <1>8, <1>9 DEF QueryThread, Begin, Acquire, Command, Attempt,
        Block, StatementEnds, StatementFails, Fails, EncodeFails, Account, Rethrow, Catch, FinishError,
        FinishCanceled, FinishLimit, FinishOk, FinishOkCanceled, WorkerNotify, Finish, GoWorker

LEMMA OutOfAttemptStep ==
  ASSUME SessionInv, OutOfAttempt, [Next]_vars
  PROVE  OutOfAttempt'
<1>1. CASE QueryThread
  BY <1>1, OutOfAttemptThreadStep DEF SessionInv
<1>2. CASE ~QueryThread
  BY <1>2, OthersKeepJob DEF OutOfAttempt, InAttempt
<1> QED BY <1>1, <1>2

(* A thread that can go on to a row could before, in the same attempt,      *)
(* unless it pushes an event in this step.                                  *)
LEMMA MetaWasOut ==
  ASSUME SessionInv, OutOfAttempt, [Next]_vars, ~Push, MetaIsOut'
  PROVE  MetaIsOut /\ job'.attempt = job.attempt
<1>1. CASE ~QueryThread
  BY <1>1, OthersKeepJob DEF MetaIsOut, InAttempt
<1>2. CASE QueryThread
  <2>1. DataInv /\ job \in ThreadJob /\ job.next \in {"receive", "fin_ok", "error_set"} /\ job.metaSent \in BOOLEAN
    <3>1. \A j \in ThreadJob : j.metaSent \in BOOLEAN
      BY DEF ThreadJob
    <3> QED BY <3>1, JobFields DEF SessionInv, DataInv, WorkerTypes
  <2>2. CASE Block
    <3>1. wpc = "receive" /\ (EndsAtLimit \/ PutsBlock)
      BY <2>1, <2>2, BlockMoves
    <3>2. CASE EndsAtLimit
      BY <3>1, <3>2 DEF EndsAtLimit, MetaIsOut, InAttempt
    <3>3. CASE PutsBlock
      <4>1. job.metaSent = TRUE
        <5> SUFFICES ASSUME job.metaSent = FALSE PROVE FALSE
          BY <2>1
        <5>1. job'.out # <<>> /\ job'.out[1].kind = "result_meta" /\ wpc' = "push"
          BY <3>3 DEF PutsBlock, BlockOrder
        <5>2. Head(job'.out) = job'.out[1]
          BY <3>3, <5>1 DEF PutsBlock
        <5> QED BY <5>1, <5>2 DEF MetaIsOut
      <4> QED BY <3>1, <3>3, <4>1 DEF PutsBlock, MetaIsOut
    <3> QED BY <3>1, <3>2, <3>3
  <2>3. CASE Account
    <3>1. wpc' # "failed"
      BY DEF MetaIsOut
    <3>2. wpc = "account" /\ job'.next = job.next /\ job'.attempt = job.attempt /\ wpc' \in {"push", job.next}
      BY <2>1, <2>3, <3>1, AccountMoves
    <3>3. job.next # "error_set"
      BY <3>2 DEF MetaIsOut, InAttempt
    <3> QED BY <3>2, <3>3 DEF MetaIsOut, InAttempt
  <2>4. CASE Attempt
    <3>1. job.metaSent = FALSE /\ wpc' = "receive"
      BY <2>4 DEF OutOfAttempt, Attempt, Fails, MetaIsOut
    <3>2. \E b \in BOOLEAN : job' = [job EXCEPT !.attempt = @ + 1, !.planCached = b]
      BY <2>4, <3>1 DEF Attempt, Fails
    <3>3. job'.metaSent = job.metaSent
      BY <2>1, <3>2, Zenon DEF ThreadJob
    <3> QED BY <3>1, <3>3 DEF MetaIsOut
  <2>5. CASE Command
    <3>1. wpc' = "push"
      BY <2>5 DEF Command, MetaIsOut
    <3>2. Head(job'.out) = job'.out[1]
      BY DEF Head
    <3> QED BY <2>1, <2>5, <3>1, <3>2, CommandMoves DEF MetaIsOut
  <2>6. CASE Catch
    <3>1. wpc' = "push"
      BY <2>6 DEF Catch, MetaIsOut
    <3>2. \E o : job' = [NoJob EXCEPT !.next = "error_set", !.out = o]
      BY <2>6, <3>1 DEF Catch
    <3>3. job'.next = "error_set"
      BY <3>2, NoJobType, Zenon DEF ThreadJob
    <3> QED BY <3>1, <3>3 DEF MetaIsOut, InAttempt
  <2>7. wpc' \in {"receive", "push", "account"}
    BY DEF MetaIsOut
  <2> QED BY <1>2, <2>2, <2>3, <2>4, <2>5, <2>6, <2>7 DEF QueryThread, Begin, Acquire, StatementEnds, StatementFails,
          Fails, EncodeFails, Retry, Rethrow, FinishError, FinishCanceled, FinishLimit, FinishOk, FinishOkCanceled,
          WorkerNotify, Finish, GoWorker
<1> QED BY <1>1, <1>2

(* The push of an event: it is explained, and after it a row of its attempt *)
(* is too.                                                                  *)
LEMMA PushKeepsExplained ==
  ASSUME SessionInv, ErrorJob, OutOfAttempt, HistoriesExplained, Push
  PROVE  HistoriesExplained'
<1> DEFINE e == Head(job.out)
<1>1. /\ wpc = "push" /\ wpc' = "account"
      /\ job'.next = job.next /\ job'.attempt = job.attempt
      /\ e \in Event /\ e = job.out[1] /\ 1 \in 1..Len(job.out)
      /\ UNCHANGED <<status, cancelRequested, sent>>
  <2>1. /\ job.out \in Seq(Event) /\ job.out # <<>>
    BY PushMoves DEF SessionInv
  <2>2. e = job.out[1] /\ 1 \in 1..Len(job.out)
    BY <2>1
  <2> QED BY <2>2, PushMoves DEF SessionInv
<1>2. queue' = IF cancelRequested THEN queue ELSE Append(queue, e)
  BY DEF Push
<1>3. job.next = "error_set" => e.kind = "error"
  BY <1>1 DEF ErrorJob, IsErrorEvent
<1>4. InAttempt => e.attempt = job.attempt /\ e.kind \in {"result_meta", "result_rows"}
  BY <1>1 DEF OutOfAttempt
<1>5. InAttempt <=> job.next # "error_set"
  BY <1>1 DEF InAttempt
<1>6. MetaIsOut' => InAttempt
  BY <1>1 DEF MetaIsOut, InAttempt
<1>7. InAttempt /\ e.kind = "result_rows" => MetaIsOut
  BY <1>1 DEF MetaIsOut
<1> HIDE DEF e
<1> SUFFICES ASSUME NEW s \in Streams, SoleReader(s)'
             PROVE  /\ Explained(History(s)')
                    /\ ~cancelRequested /\ InAttempt => HasMetaOf(History(s)', job.attempt)
  BY <1>1, <1>6 DEF HistoriesExplained, Explained, HasMetaOf
<1>8. SoleReader(s)
  BY <1>1 DEF SoleReader
<1>9. Explained(History(s)) /\ (~cancelRequested /\ MetaIsOut => HasMetaOf(History(s), job.attempt))
  BY <1>8 DEF HistoriesExplained
<1>10. CASE cancelRequested
  <2>1. History(s)' = History(s)
    BY <1>1, <1>2, <1>10 DEF History
  <2> QED BY <1>9, <1>10, <2>1
<1>11. CASE ~cancelRequested
  <2> DEFINE read == sent[s].log \o sent[s].batch
             h == History(s)
             g == History(s)'
  <2>1. read \in Seq(Event) /\ queue \in Seq(Event)
    BY LogTypes, ConcatProperties DEF LogsTyped
  <2>2. g = read \o Append(queue, e) /\ h = read \o queue
    BY <1>1, <1>2, <1>11 DEF History
  <2> HIDE DEF read
  <2>3. read \o queue \in Seq(Event) /\ Longer(read \o Append(queue, e), read \o queue, e)
    BY <1>1, <2>1, AppendedIsLonger
  <2>4. h \in Seq(Event) /\ Longer(g, h, e) /\ Explained(h)
    BY <1>9, <2>2, <2>3
  <2>5. InAttempt /\ e.kind = "result_rows" => HasMetaOf(h, e.attempt)
    BY <1>4, <1>7, <1>9, <1>11
  <2> HIDE DEF h, g
  <2>6. CASE e.kind # "result_rows"
    <3>1. Explained(g)
      BY <1>1, <2>4, <2>6, OtherEventExplained
    <3>2. InAttempt => HasMetaOf(g, e.attempt)
      BY <1>1, <1>4, <2>4, <2>6, MetaIsItsOwn
    <3> QED BY <1>4, <3>1, <3>2 DEF g
  <2>7. CASE e.kind = "result_rows"
    <3>1. InAttempt
      BY <1>3, <1>5, <2>7
    <3>2. Explained(g) /\ HasMetaOf(g, e.attempt)
      BY <1>1, <2>4, <2>5, <2>7, <3>1, RowExplained
    <3> QED BY <1>4, <3>1, <3>2 DEF g
  <2> QED BY <2>6, <2>7
<1> QED BY <1>10, <1>11

LEMMA ExplainedStep ==
  ASSUME SessionInv, ErrorInv, RowsInv, [Next]_vars
  PROVE  HistoriesExplained'
<1>1. CASE Push
  BY <1>1, PushKeepsExplained DEF ErrorInv, RowsInv
<1>2. CASE ~Push
  <2>1. KeepsHistories
    <3>1. CASE \E s \in Streams : PopBatch(s) \/ WriteBatch(s)
      BY <3>1, LogTypes, PopKeepsHistories, WriteKeepsHistories DEF ErrorInv
    <3>2. CASE \A s \in Streams : ~PopBatch(s) /\ ~WriteBatch(s)
      BY <1>2, <3>2, LogsStep, KeptLogs
    <3> QED BY <3>1, <3>2
  <2>2. ~cancelRequested' => ~cancelRequested
    <3>1. CASE QueryThread
      BY <3>1, QueryThreadFrame DEF WorkerFrame
    <3> QED BY <3>1, OthersKeepJob
  <2>3. MetaIsOut' => MetaIsOut /\ job'.attempt = job.attempt
    BY <1>2, MetaWasOut DEF RowsInv
  <2>4. ASSUME NEW s \in Streams, SoleReader(s)'
        PROVE  /\ Explained(History(s)')
               /\ ~cancelRequested' /\ MetaIsOut' => HasMetaOf(History(s)', job'.attempt)
    <3>1. SoleReader(s) /\ History(s)' = History(s)
      BY <2>1, <2>4 DEF KeepsHistories
    <3>2. Explained(History(s)) /\ (~cancelRequested /\ MetaIsOut => HasMetaOf(History(s), job.attempt))
      BY <3>1 DEF RowsInv, HistoriesExplained
    <3> QED BY <2>2, <2>3, <3>1, <3>2
  <2> QED BY <2>4 DEF HistoriesExplained, Explained, HasMetaOf
<1> QED BY <1>1, <1>2

LEMMA RowsInit == Init => RowsInv
<1> SUFFICES ASSUME Init PROVE RowsInv
  OBVIOUS
<1> DEFINE none == <<>>
<1>1. wpc = "off" /\ queue = none /\ \A s \in Streams : sent[s].log = none /\ sent[s].batch = none
  BY DEF Init
<1>2. job.metaSent = FALSE
  <2>1. PICK kind \in Kinds, plan \in Plans :
          job = [NoJob EXCEPT !.kind = kind, !.mayRetry = plan = "retry", !.described = plan = "described"]
    BY DEF Init
  <2>2. job.metaSent = NoJob.metaSent
    BY <2>1, NoJobType, Zenon DEF ThreadJob
  <2> QED BY <2>2 DEF NoJob
<1>3. none \in Seq(Event) /\ Len(none) = 0
  OBVIOUS
<1>4. (none \o none) \o none = none
  BY <1>3, ConcatEmptySeq
<1>5. \A s \in Streams : History(s) = none
  BY <1>1, <1>4 DEF History
<1>6. Explained(none)
  BY <1>3 DEF Explained
<1>7. ~MetaIsOut
  BY <1>1 DEF MetaIsOut
<1> HIDE DEF none
<1> QED BY <1>1, <1>2, <1>5, <1>6, <1>7 DEF RowsInv, OutOfAttempt, InAttempt, HistoriesExplained

(* ResultEventWriter, with the retry of run_query: to a single reader every *)
(* row comes after the meta of the attempt that made it, with nothing of    *)
(* another attempt between, for all blocks, retries and cancels.            *)
THEOREM RowsAreExplained == Spec => []RowsFollowTheirMeta
<1>1. Init => SessionInv /\ ErrorInv /\ RowsInv
  BY SessionInit, ErrorInit, RowsInit
<1>2. SessionInv /\ ErrorInv /\ RowsInv /\ [Next]_vars => (SessionInv /\ ErrorInv /\ RowsInv)'
  BY SessionStep, ErrorJobStep, BatchStep, ErrorShownStep, OutOfAttemptStep, ExplainedStep DEF ErrorInv, RowsInv
<1>3. SessionInv /\ ErrorInv /\ RowsInv => RowsFollowTheirMeta
  <2> SUFFICES ASSUME SessionInv, RowsInv, NEW s \in Streams, SoleReader(s)
               PROVE  \A i \in DOMAIN History(s) : History(s)[i].kind = "result_rows" =>
                        \E j \in 1..(i - 1) :
                          /\ History(s)[j].kind = "result_meta"
                          /\ \A k \in j..i : History(s)[k].attempt = History(s)[i].attempt
    BY DEF RowsFollowTheirMeta
  <2> DEFINE h == History(s)
  <2>1. h \in Seq(Event)
    BY LogTypes, ConcatProperties DEF LogsTyped, History
  <2>2. Explained(h)
    BY DEF RowsInv, HistoriesExplained
  <2> HIDE DEF h
  <2>3. DOMAIN h = 1..Len(h)
    BY <2>1
  <2> QED BY <2>2, <2>3 DEF Explained, h
<1> QED BY <1>1, <1>2, <1>3, PTL DEF Spec
-----------------------------------------------------------------------------
(* The sums over a sequence of events, and over the logs of the streams.    *)
LEMMA SumFunctionIs ==
  ASSUME NEW b, IsFiniteSet(DOMAIN b)
  PROVE  SumFunction(b) = Total(b, DOMAIN b)
BY DEF SumFunction, SumFunctionOnSet, FoldFunctionOnSet, MapThenFoldSet, Total, Sums, Pick

LEMMA SumOfAppend ==
  ASSUME NEW b \in Seq(Nat), NEW n \in Nat
  PROVE  /\ SumFunction(b) \in Nat
         /\ SumFunction(<<>>) = 0
         /\ SumFunction(Append(b, n)) = SumFunction(b) + n
<1> DEFINE k == Len(b)
           a == Append(b, n)
<1>1. /\ k \in Nat /\ DOMAIN b = 1..k /\ DOMAIN a = 1..(k + 1)
      /\ a \in Seq(Nat) /\ a[k + 1] = n /\ \A i \in 1..k : a[i] = b[i]
  BY AppendProperties, LenProperties
<1>2. \A i \in 1..k : b[i] \in Nat
  BY ElementOfSeq
<1>3. \A i \in 1..(k + 1) : a[i] \in Nat
  <2> HIDE DEF a
  <2> QED BY <1>1, <1>2
<1> HIDE DEF a, k
<1>4. IsFiniteSet(1..k) /\ IsFiniteSet(1..(k + 1))
  BY <1>1, FS_Interval
<1>5. SumFunction(b) = Total(b, 1..k) /\ SumFunction(a) = Total(a, 1..(k + 1))
  BY <1>1, <1>4, SumFunctionIs
<1>6. Total(a, 1..(k + 1)) = a[k + 1] + Total(a, (1..(k + 1)) \ {k + 1})
  <2>1. k + 1 \in 1..(k + 1)
    BY <1>1
  <2> QED BY <1>3, <1>4, <2>1, TotalIsNat
<1>7. (1..(k + 1)) \ {k + 1} = 1..k
  BY <1>1
<1>8. Total(a, 1..k) = Total(b, 1..k)
  <2>1. SameOn(1..k, a, b)
    BY <1>1 DEF SameOn
  <2> QED BY <1>4, <2>1, TotalSame
<1>9. Total(b, 1..k) \in Nat
  BY <1>2, <1>4, TotalType
<1>10. SumFunction(<<>>) = 0
  <2> DEFINE none == <<>>
  <2>1. DOMAIN none = {} /\ IsFiniteSet({})
    BY FS_EmptySet
  <2> HIDE DEF none
  <2>2. SumFunction(none) = Total(none, {})
    BY <2>1, SumFunctionIs
  <2> QED BY <2>1, <2>2, TotalIs DEF none
<1>11. SumFunction(b) \in Nat /\ SumFunction(a) = SumFunction(b) + n
  <2>1. PICK t \in Nat : t = Total(b, 1..k)
    BY <1>9
  <2>2. Total(a, 1..(k + 1)) = n + t
    BY <1>1, <1>6, <1>7, <1>8, <2>1
  <2> QED BY <1>5, <2>1, <2>2
<1> QED BY <1>10, <1>11 DEF a

LEMMA ConcatOfAppend ==
  ASSUME NEW a \in Seq(Nat), NEW d \in Seq(Nat), NEW x \in Nat
  PROVE  a \o d \in Seq(Nat) /\ a \o Append(d, x) = Append(a \o d, x)
<1> DEFINE c == Append(d, x)
           ad == a \o d
           l == a \o c
           r == Append(ad, x)
<1>1. /\ c \in Seq(Nat) /\ Len(c) = Len(d) + 1 /\ c[Len(d) + 1] = x
      /\ \A i \in 1..Len(d) : c[i] = d[i]
  BY AppendProperties
<1>2. /\ ad \in Seq(Nat) /\ Len(ad) = Len(a) + Len(d)
      /\ \A i \in 1..(Len(a) + Len(d)) : ad[i] = IF i <= Len(a) THEN a[i] ELSE d[i - Len(a)]
  BY ConcatProperties
<1> HIDE DEF c, ad
<1>3. /\ l \in Seq(Nat) /\ Len(l) = Len(a) + Len(c)
      /\ \A i \in 1..(Len(a) + Len(c)) : l[i] = IF i <= Len(a) THEN a[i] ELSE c[i - Len(a)]
  BY <1>1, ConcatProperties
<1>4. /\ r \in Seq(Nat) /\ Len(r) = Len(ad) + 1 /\ r[Len(ad) + 1] = x
      /\ \A i \in 1..Len(ad) : r[i] = ad[i]
  BY <1>2, AppendProperties
<1> HIDE DEF l, r
<1>5. PICK m \in Nat, k \in Nat : m = Len(a) /\ k = Len(d)
  OBVIOUS
<1>6. Len(c) = k + 1 /\ Len(ad) = m + k /\ Len(l) = m + (k + 1) /\ Len(r) = (m + k) + 1
  BY <1>1, <1>2, <1>3, <1>4, <1>5
<1>7. Len(l) = Len(r) /\ \A i \in 1..Len(l) : l[i] = r[i]
  <2>1. ASSUME NEW i \in 1..(m + (k + 1)) PROVE l[i] = r[i]
    <3>0. l[i] = IF i <= m THEN a[i] ELSE c[i - m]
      BY <1>3, <1>5, <1>6, <2>1
    <3>1. CASE i <= m
      <4>1. i \in 1..(m + k)
        BY <2>1, <3>1
      <4> QED BY <1>2, <1>4, <1>5, <1>6, <3>0, <3>1, <4>1
    <3>2. CASE i > m /\ i <= m + k
      <4>1. i - m \in 1..k /\ i \in 1..(m + k) /\ ~(i <= m)
        BY <2>1, <3>2
      <4>2. c[i - m] = d[i - m]
        BY <1>1, <1>5, <4>1
      <4>3. r[i] = ad[i] /\ ad[i] = d[i - m]
        BY <1>2, <1>4, <1>5, <1>6, <4>1
      <4> QED BY <3>0, <4>1, <4>2, <4>3
    <3>3. CASE i = (m + k) + 1
      <4>1. i - m = k + 1 /\ ~(i <= m)
        BY <3>3
      <4> QED BY <1>1, <1>4, <1>5, <1>6, <3>0, <3>3, <4>1
    <3> QED BY <2>1, <3>1, <3>2, <3>3
  <2> QED BY <1>6, <2>1
<1>8. l = r
  BY <1>3, <1>4, <1>6, <1>7, SeqEqual
<1> QED BY <1>2, <1>8 DEF c, ad, l, r

LEMMA SumOfConcat ==
  ASSUME NEW a \in Seq(Nat), NEW b \in Seq(Nat)
  PROVE  SumFunction(a \o b) = SumFunction(a) + SumFunction(b)
<1> DEFINE S == {n \in Nat : \A c \in Seq(Nat) : Len(c) = n => SumFunction(a \o c) = SumFunction(a) + SumFunction(c)}
<1>1. 0 \in S
  <2> SUFFICES ASSUME NEW c \in Seq(Nat), Len(c) = 0
               PROVE  SumFunction(a \o c) = SumFunction(a) + SumFunction(c)
    OBVIOUS
  <2>1. c = <<>> /\ a \o c = a
    BY ConcatEmptySeq
  <2>2. SumFunction(c) = 0 /\ SumFunction(a) \in Nat
    BY <2>1, SumOfAppend
  <2> QED BY <2>1, <2>2
<1>2. ASSUME NEW n \in Nat, n \in S PROVE n + 1 \in S
  <2> SUFFICES ASSUME NEW c \in Seq(Nat), Len(c) = n + 1
               PROVE  SumFunction(a \o c) = SumFunction(a) + SumFunction(c)
    OBVIOUS
  <2>1. PICK d \in Seq(Nat), x \in Nat : c = Append(d, x) /\ Len(d) = n
    <3> DEFINE d == SubSeq(c, 1, n)
    <3>1. \A i \in 1..n : c[i] \in Nat
      OBVIOUS
    <3>2. d \in Seq(Nat) /\ Len(d) = n /\ \A i \in 1..n : d[i] = c[i]
      BY <3>1, SubSeqProperties
    <3>3. c[n + 1] \in Nat
      OBVIOUS
    <3> HIDE DEF d
    <3>4. /\ Append(d, c[n + 1]) \in Seq(Nat) /\ Len(Append(d, c[n + 1])) = n + 1
          /\ \A i \in 1..(n + 1) : Append(d, c[n + 1])[i] = c[i]
      BY <3>2, <3>3, AppendProperties
    <3>5. c = Append(d, c[n + 1])
      BY <3>4, SeqEqual
    <3> QED BY <3>2, <3>3, <3>5
  <2>2. a \o c = Append(a \o d, x) /\ a \o d \in Seq(Nat)
    BY <2>1, ConcatOfAppend
  <2>3. SumFunction(a \o d) = SumFunction(a) + SumFunction(d)
    BY <1>2, <2>1
  <2> DEFINE ad == a \o d
  <2>4. ad \in Seq(Nat) /\ a \o c = Append(ad, x) /\ SumFunction(ad) = SumFunction(a) + SumFunction(d)
    BY <2>2, <2>3
  <2> HIDE DEF ad
  <2>5. SumFunction(Append(ad, x)) = SumFunction(ad) + x /\ SumFunction(c) = SumFunction(d) + x
    BY <2>1, <2>4, SumOfAppend
  <2>6. SumFunction(a) \in Nat /\ SumFunction(d) \in Nat
    BY SumOfAppend
  <2> QED BY <2>4, <2>5, <2>6
<1> HIDE DEF S
<1>3. Nat \subseteq S
  BY <1>1, <1>2, Induct
<1>4. Len(b) \in S
  BY <1>3, LenProperties
<1> QED BY <1>4 DEF S

RowList(q)  == [i \in DOMAIN q |-> q[i].rows]
SizeList(q) == [i \in DOMAIN q |-> Size(q[i])]

LEMMA EventLists ==
  ASSUME NEW q \in Seq(Event)
  PROVE  /\ RowList(q) \in Seq(Nat) /\ SizeList(q) \in Seq(Nat)
         /\ Rows(q) = SumFunction(RowList(q)) /\ Bytes(q) = SumFunction(SizeList(q))
         /\ Len(RowList(q)) = Len(q) /\ Len(SizeList(q)) = Len(q)
<1>1. DOMAIN q = 1..Len(q) /\ Len(q) \in Nat /\ \A i \in 1..Len(q) : q[i] \in Event
  OBVIOUS
<1>2. \A e \in Event : e.rows \in Nat /\ Size(e) \in Nat
  BY DEF Event, Size
<1>3. \A i \in 1..Len(q) : q[i].rows \in Nat /\ Size(q[i]) \in Nat
  BY <1>1, <1>2
<1>4. RowList(q) \in [1..Len(q) -> Nat] /\ SizeList(q) \in [1..Len(q) -> Nat]
  BY <1>1, <1>3 DEF RowList, SizeList
<1> QED BY <1>1, <1>4 DEF Rows, Bytes, RowList, SizeList

(* c is a and b after each other.                                           *)
Follow(a, b, c) ==
  /\ Len(c) = Len(a) + Len(b)
  /\ \A i \in 1..Len(c) : c[i] = IF i <= Len(a) THEN a[i] ELSE b[i - Len(a)]

LEMMA FollowIsConcat ==
  ASSUME NEW a \in Seq(Nat), NEW b \in Seq(Nat), NEW c \in Seq(Nat), Follow(a, b, c)
  PROVE  c = a \o b
<1> DEFINE d == a \o b
<1>1. /\ d \in Seq(Nat) /\ Len(d) = Len(a) + Len(b)
      /\ \A i \in 1..(Len(a) + Len(b)) : d[i] = IF i <= Len(a) THEN a[i] ELSE b[i - Len(a)]
  BY ConcatProperties
<1> HIDE DEF d
<1>2. Len(c) = Len(d) /\ \A i \in 1..Len(c) : c[i] = d[i]
  BY <1>1 DEF Follow
<1>3. c = d
  BY <1>1, <1>2, SeqEqual
<1> QED BY <1>3 DEF d

LEMMA ConcatLists ==
  ASSUME NEW p \in Seq(Event), NEW q \in Seq(Event)
  PROVE  RowList(p \o q) = RowList(p) \o RowList(q) /\ SizeList(p \o q) = SizeList(p) \o SizeList(q)
<1> DEFINE r == p \o q
<1>1. r \in Seq(Event) /\ Len(r) = Len(p) + Len(q)
      /\ \A i \in 1..(Len(p) + Len(q)) : r[i] = IF i <= Len(p) THEN p[i] ELSE q[i - Len(p)]
  BY ConcatProperties
<1> HIDE DEF r
<1>2. DOMAIN p = 1..Len(p) /\ DOMAIN q = 1..Len(q) /\ DOMAIN r = 1..Len(r) /\ Len(p) \in Nat /\ Len(q) \in Nat
  BY <1>1, LenProperties
<1>4. /\ \A i \in 1..Len(p) : RowList(p)[i] = p[i].rows /\ SizeList(p)[i] = Size(p[i])
      /\ \A i \in 1..Len(q) : RowList(q)[i] = q[i].rows /\ SizeList(q)[i] = Size(q[i])
      /\ \A i \in 1..Len(r) : RowList(r)[i] = r[i].rows /\ SizeList(r)[i] = Size(r[i])
  BY <1>2 DEF RowList, SizeList
<1>5. ASSUME NEW i \in 1..Len(r)
      PROVE  /\ RowList(r)[i] = IF i <= Len(p) THEN RowList(p)[i] ELSE RowList(q)[i - Len(p)]
             /\ SizeList(r)[i] = IF i <= Len(p) THEN SizeList(p)[i] ELSE SizeList(q)[i - Len(p)]
  <2>1. CASE i <= Len(p)
    <3>1. i \in 1..Len(p) /\ r[i] = p[i]
      BY <1>1, <1>2, <2>1
    <3> QED BY <1>4, <2>1, <3>1
  <2>2. CASE ~(i <= Len(p))
    <3>1. i - Len(p) \in 1..Len(q) /\ r[i] = q[i - Len(p)]
      BY <1>1, <1>2, <2>2
    <3> QED BY <1>4, <2>2, <3>1
  <2> QED BY <2>1, <2>2
<1>6. /\ RowList(p) \in Seq(Nat) /\ RowList(q) \in Seq(Nat) /\ RowList(r) \in Seq(Nat)
      /\ SizeList(p) \in Seq(Nat) /\ SizeList(q) \in Seq(Nat) /\ SizeList(r) \in Seq(Nat)
      /\ Len(RowList(p)) = Len(p) /\ Len(RowList(q)) = Len(q) /\ Len(RowList(r)) = Len(r)
      /\ Len(SizeList(p)) = Len(p) /\ Len(SizeList(q)) = Len(q) /\ Len(SizeList(r)) = Len(r)
  BY <1>1, EventLists
<1>7. Follow(RowList(p), RowList(q), RowList(r)) /\ Follow(SizeList(p), SizeList(q), SizeList(r))
  BY <1>1, <1>5, <1>6 DEF Follow
<1>8. RowList(r) = RowList(p) \o RowList(q) /\ SizeList(r) = SizeList(p) \o SizeList(q)
  BY <1>6, <1>7, FollowIsConcat
<1> QED BY <1>8 DEF r

(* The rows and the bytes of two batches that follow each other.            *)
LEMMA ConcatCounts ==
  ASSUME NEW p \in Seq(Event), NEW q \in Seq(Event)
  PROVE  /\ Rows(p \o q) = Rows(p) + Rows(q) /\ Bytes(p \o q) = Bytes(p) + Bytes(q)
         /\ Rows(p) \in Nat /\ Bytes(p) \in Nat
<1>1. p \o q \in Seq(Event)
  BY ConcatProperties
<1>2. /\ RowList(p) \in Seq(Nat) /\ RowList(q) \in Seq(Nat) /\ SizeList(p) \in Seq(Nat) /\ SizeList(q) \in Seq(Nat)
      /\ Rows(p) = SumFunction(RowList(p)) /\ Rows(q) = SumFunction(RowList(q))
      /\ Bytes(p) = SumFunction(SizeList(p)) /\ Bytes(q) = SumFunction(SizeList(q))
  BY EventLists
<1>3. Rows(p \o q) = SumFunction(RowList(p) \o RowList(q)) /\ Bytes(p \o q) = SumFunction(SizeList(p) \o SizeList(q))
  BY <1>1, EventLists, ConcatLists
<1>4. SumFunction(RowList(p)) \in Nat /\ SumFunction(SizeList(p)) \in Nat
  BY <1>2, SumOfAppend
<1> QED BY <1>2, <1>3, <1>4, SumOfConcat

LEMMA AppendCounts ==
  ASSUME NEW q \in Seq(Event), NEW e \in Event
  PROVE  /\ Append(q, e) \in Seq(Event)
         /\ Rows(Append(q, e)) = Rows(q) + e.rows /\ Bytes(Append(q, e)) = Bytes(q) + Size(e)
         /\ Rows(q) \in Nat /\ Bytes(q) \in Nat /\ e.rows \in Nat
         /\ Rows(<<>>) = 0 /\ Bytes(<<>>) = 0
<1> DEFINE one == <<e>>
           none == <<>>
<1>1. Append(q, e) = q \o one /\ one \in Seq(Event) /\ none \in Seq(Event) /\ Len(one) = 1 /\ one[1] = e /\ Len(none) = 0
      /\ Append(q, e) \in Seq(Event)
  BY AppendIsConcat, AppendProperties
<1>2. RowList(one) = Append(none, e.rows) /\ SizeList(one) = Append(none, Size(e))
  BY DEF RowList, SizeList
<1>3. RowList(none) = none /\ SizeList(none) = none
  BY DEF RowList, SizeList
<1>4. e.rows \in Nat /\ Size(e) \in Nat /\ none \in Seq(Nat)
  BY DEF Event, Size
<1>5. SumFunction(none) = 0
  BY <1>4, SumOfAppend
<1> HIDE DEF one, none
<1>6. SumFunction(Append(none, e.rows)) = 0 + e.rows /\ SumFunction(Append(none, Size(e))) = 0 + Size(e)
  BY <1>4, <1>5, SumOfAppend
<1>7. Rows(one) = e.rows /\ Bytes(one) = Size(e) /\ Rows(none) = 0 /\ Bytes(none) = 0
  <2>1. /\ Rows(one) = SumFunction(RowList(one)) /\ Bytes(one) = SumFunction(SizeList(one))
        /\ Rows(none) = SumFunction(RowList(none)) /\ Bytes(none) = SumFunction(SizeList(none))
    BY <1>1, EventLists
  <2> QED BY <1>2, <1>3, <1>4, <1>5, <1>6, <2>1
<1>8. Rows(q \o one) = Rows(q) + Rows(one) /\ Bytes(q \o one) = Bytes(q) + Bytes(one) /\ Rows(q) \in Nat /\ Bytes(q) \in Nat
  BY <1>1, ConcatCounts
<1> QED BY <1>1, <1>4, <1>7, <1>8 DEF none

LEMMA NothingCounts == Rows(<<>>) = 0 /\ Bytes(<<>>) = 0
<1>1. [kind |-> "error", rows |-> 0, attempt |-> 0] \in Event /\ <<>> \in Seq(Event)
  BY DEF Event
<1> QED BY <1>1, AppendCounts

-----------------------------------------------------------------------------
(* The rows that the streams have.                                          *)
RowsHeld(f) == [s \in Streams |-> Rows(f[s].log) + Rows(f[s].batch)]
Logs(f)     == DOMAIN f = Streams /\ \A s \in Streams : f[s].log \in Seq(Event) /\ f[s].batch \in Seq(Event)

LEMMA AllRowsIs ==
  ASSUME NEW f, Logs(f)
  PROVE  /\ AllRows(f) = Total(RowsHeld(f), Streams) /\ AllRows(f) \in Nat
         /\ \A s \in Streams : RowsHeld(f)[s] \in Nat
<1>1. DOMAIN RowsHeld(f) = Streams /\ IsFiniteSet(Streams)
  BY SessionAssumption DEF RowsHeld
<1>2. AllRows(f) = SumFunction(RowsHeld(f))
  BY DEF AllRows, RowsHeld, Logs
<1>3. \A s \in Streams : RowsHeld(f)[s] \in Nat
  BY ConcatCounts DEF RowsHeld, Logs
<1> QED BY <1>1, <1>2, <1>3, SumFunctionIs, TotalType

LEMMA SameLogsSameRows ==
  ASSUME NEW f, NEW g, Logs(f), Logs(g), \A s \in Streams : g[s].log = f[s].log /\ g[s].batch = f[s].batch
  PROVE  AllRows(g) = AllRows(f)
<1>1. RowsHeld(g) = RowsHeld(f)
  BY DEF RowsHeld
<1> QED BY <1>1, AllRowsIs

LEMMA OneLogChanges ==
  ASSUME NEW f, NEW g, Logs(f), Logs(g), NEW s \in Streams,
         \A r \in Streams \ {s} : g[r] = f[r]
  PROVE  /\ AllRows(g) + RowsHeld(f)[s] = AllRows(f) + RowsHeld(g)[s]
         /\ AllRows(f) \in Nat /\ AllRows(g) \in Nat /\ RowsHeld(f)[s] \in Nat /\ RowsHeld(g)[s] \in Nat
<1> DEFINE a == RowsHeld(f)
           b == RowsHeld(g)
           V == Streams \ {s}
<1>1. /\ AllRows(f) = Total(a, Streams) /\ AllRows(g) = Total(b, Streams)
      /\ \A r \in Streams : a[r] \in Nat /\ b[r] \in Nat
      /\ AllRows(f) \in Nat /\ AllRows(g) \in Nat
  BY AllRowsIs
<1>2. SameOn(V, a, b)
  BY DEF SameOn, RowsHeld
<1>3. IsFiniteSet(Streams) /\ IsFiniteSet(V)
  BY SessionAssumption, FS_Subset
<1> HIDE DEF a, b
<1>4. Total(a, Streams) = a[s] + Total(a, V) /\ Total(b, Streams) = b[s] + Total(b, V)
  BY <1>1, <1>3, TotalIsNat
<1>5. Total(a, V) = Total(b, V)
  BY <1>2, <1>3, TotalSame
<1>6. Total(a, V) \in Nat
  BY <1>1, <1>3, TotalType
<1>7. PICK t \in Nat, m \in Nat, n \in Nat : t = Total(a, V) /\ m = a[s] /\ n = b[s]
  BY <1>1, <1>6
<1>8. AllRows(f) = m + t /\ AllRows(g) = n + t
  BY <1>1, <1>4, <1>5, <1>7
<1> QED BY <1>1, <1>7, <1>8 DEF a, b

-----------------------------------------------------------------------------
(* The accounts of a run.  A stream that saw its end saw an empty queue, and *)
(* nothing is put into it after the end; a failed attempt has counted no     *)
(* more rows than it returned, so one that may be made again counted none.   *)
RowsAddUp    == ~cancelRequested => AllRows(sent) + Rows(queue) = emitted + Unemitted
FailedCounts == wpc = "failed" => emitted <= job.returned
SawTheEnd(s) == ~mayContinue[s] \/ sent[s].drained
EndIsEmpty   == \A s \in Streams : ~cancelRequested /\ SawTheEnd(s) => queue = <<>> /\ wpc \in {"notify", "ended"}
ToldIsAll    == \A s \in Streams : ~cancelRequested /\ sent[s].drained => sent[s].rowsTold = emitted
QueueFits    == Bytes(queue) <= QueueBytes \/ Len(queue) <= 1

AccountInv == RowsAddUp /\ FailedCounts /\ EndIsEmpty /\ ToldIsAll /\ QueueFits

(* What a step that makes no rows does to those that there are: some move   *)
(* from the queue to a stream.                                              *)
TakesRows ==
  /\ emitted' = emitted /\ Unemitted' = Unemitted
  /\ AllRows(sent) \in Nat /\ AllRows(sent') \in Nat /\ Rows(queue) \in Nat /\ Rows(queue') \in Nat
  /\ AllRows(sent') >= AllRows(sent)
  /\ AllRows(sent') + Rows(queue') = AllRows(sent) + Rows(queue)

LEMMA LogsOfTheStreams == ASSUME SessionInv PROVE Logs(sent)
BY LogTypes DEF LogsTyped, Logs

LEMMA HeldRows == ASSUME SessionInv PROVE AllRows(sent) \in Nat /\ Rows(queue) \in Nat
BY LogTypes, LogsOfTheStreams, AllRowsIs, ConcatCounts DEF LogsTyped

LEMMA FailedKeepsReturned ==
  ASSUME job \in ThreadJob, NEW m, Fails(m)
  PROVE  wpc' = "failed" /\ job'.returned = job.returned
BY Zenon DEF Fails, ThreadJob

LEMMA FailedCountsStep ==
  ASSUME SessionInv, FailedCounts, QueryThread
  PROVE  FailedCounts'
<1> SUFFICES ASSUME wpc' = "failed" PROVE emitted' <= job'.returned
  BY DEF FailedCounts
<1>1. job \in ThreadJob /\ emitted \in Nat /\ CountInv /\ OutInv
  BY DEF SessionInv, DataInv, WorkerTypes
<1>2. job.next # "failed" /\ job.returned \in Nat
  BY <1>1, JobFields
<1>3. \/ Attempt /\ \E m \in {"canceled", "error"} : Fails(m)
      \/ StatementFails
      \/ EncodeFails
      \/ Account /\ Fails("breach")
  <2>1. ~(Begin \/ Acquire \/ Command \/ Block \/ StatementEnds \/ Push \/ Retry \/ Rethrow \/ Catch \/ FinishError
            \/ FinishCanceled \/ FinishLimit \/ FinishOk \/ FinishOkCanceled \/ WorkerNotify)
    BY <1>2 DEF Begin, Acquire, Command, Block, StatementEnds, Push, Retry, Rethrow, Catch, FinishError,
       FinishCanceled, FinishLimit, FinishOk, FinishOkCanceled, WorkerNotify, Finish, GoWorker
  <2>2. Attempt => \E m \in {"canceled", "error"} : Fails(m)
    BY DEF Attempt
  <2>3. Account => Fails("breach")
    BY <1>2 DEF Account
  <2> QED BY <2>1, <2>2, <2>3 DEF QueryThread
<1>4. CASE Attempt /\ \E m \in {"canceled", "error"} : Fails(m)
  <2>1. emitted' = 0 /\ job'.returned = 0
    BY <1>1, <1>4, FailedKeepsReturned DEF Attempt, CountInv
  <2> QED BY <2>1
<1>5. CASE StatementFails
  <2>1. PICK m : Fails(m)
    BY <1>5 DEF StatementFails
  <2>2. emitted' = emitted /\ emitted + 0 = job.returned
    BY <1>1, <1>5 DEF StatementFails, CountInv, InResult, Unemitted
  <2> QED BY <1>1, <2>1, <2>2, FailedKeepsReturned
<1>6. CASE EncodeFails
  <2>1. wpc = "push" /\ job.next = "receive" /\ emitted' = emitted
    BY <1>6 DEF EncodeFails
  <2>2. PICK r \in 0..Head(job.out).rows : job' = [job EXCEPT !.msg = "error", !.returned = @ + r, !.out = <<>>]
    BY <1>6 DEF EncodeFails
  <2>3. r \in Nat
    OBVIOUS
  <2>4. job'.returned = job.returned + r
    BY <1>1, <2>2, Zenon DEF ThreadJob
  <2>5. emitted + 0 = job.returned
    BY <1>1, <2>1 DEF CountInv, InResult, Unemitted
  <2> QED BY <1>1, <1>2, <2>1, <2>3, <2>4, <2>5
<1>7. CASE Account /\ Fails("breach")
  <2>1. wpc = "account" /\ job.next = "receive" /\ emitted' = emitted + Head(job.out).rows
    <3>1. job.next # "receive" => wpc' # "failed"
      BY <1>2, <1>7 DEF Account
    <3> QED BY <1>7, <3>1 DEF Account
  <2>2. emitted + Unemitted = job.returned /\ Unemitted = Head(job.out).rows
    BY <1>1, <2>1 DEF CountInv, InResult, Unemitted
  <2> QED BY <1>1, <1>2, <1>7, <2>1, <2>2, FailedKeepsReturned
<1> QED BY <1>3, <1>4, <1>5, <1>6, <1>7

(* A run that ended while nobody cancelled it pushes nothing more.          *)
LEMMA EndedRuns ==
  ASSUME SessionInv, ~cancelRequested, IsTerminal(status)
  PROVE  wpc \in {"notify", "ended"}
BY DEF SessionInv, StatusInv, IsTerminal

LEMMA PushAccounts ==
  ASSUME SessionInv, AccountInv, Push, WorkerFrame
  PROVE  RowsAddUp' /\ EndIsEmpty' /\ ToldIsAll' /\ QueueFits'
<1>1. /\ UNCHANGED <<cancelRequested, sent, mayContinue, emitted>> /\ wpc = "push" /\ wpc' = "account"
      /\ queue' = IF cancelRequested THEN queue ELSE Append(queue, Head(job.out))
      /\ cancelRequested \/ HasRoom(Head(job.out))
      /\ job' = [job EXCEPT !.returned = @ + Head(job.out).rows]
  BY DEF Push, GoWorker, WorkerFrame, streamVars
<1>2. job \in ThreadJob /\ job.out \in Seq(Event) /\ job.out # <<>> /\ queue \in Seq(Event) /\ emitted \in Nat
  BY <1>1, JobFields DEF SessionInv, DataInv, WorkerTypes, OutInv
<1>3. PICK e \in Event : e = Head(job.out)
  BY <1>2
<1>4. e.rows \in Nat /\ Size(e) \in Nat
  BY DEF Event, Size
<1>5. job'.out = job.out
  BY <1>1, <1>2, <1>3, <1>4, ReturnedJob
<1>6. CASE cancelRequested
  BY <1>1, <1>6 DEF AccountInv, RowsAddUp, EndIsEmpty, ToldIsAll, QueueFits
<1>7. CASE ~cancelRequested
  <2>1. \A s \in Streams : ~SawTheEnd(s)
    BY <1>1, <1>7 DEF AccountInv, EndIsEmpty
  <2>2. EndIsEmpty' /\ ToldIsAll'
    BY <1>1, <2>1 DEF EndIsEmpty, ToldIsAll, SawTheEnd
  <2>3. /\ Rows(Append(queue, e)) = Rows(queue) + e.rows /\ Bytes(Append(queue, e)) = Bytes(queue) + Size(e)
        /\ Rows(queue) \in Nat /\ Bytes(queue) \in Nat
    BY <1>2, AppendCounts
  <2>4. queue' = Append(queue, e)
    BY <1>1, <1>3, <1>7
  <2>5. Unemitted = 0 /\ Unemitted' = e.rows
    BY <1>1, <1>3, <1>5 DEF Unemitted
  <2>6. AllRows(sent) \in Nat /\ AllRows(sent') = AllRows(sent)
    BY <1>1, LogsOfTheStreams, AllRowsIs
  <2>7. AllRows(sent) + Rows(queue) = emitted + 0
    BY <1>7, <2>5 DEF AccountInv, RowsAddUp
  <2>8. RowsAddUp'
    <3>1. AllRows(sent') + Rows(queue') = emitted' + Unemitted'
      <4>1. PICK a \in Nat, r \in Nat, n \in Nat : a = AllRows(sent) /\ r = Rows(queue) /\ n = e.rows
        BY <1>4, <2>3, <2>6
      <4>2. a + r = emitted
        BY <1>2, <2>7, <4>1
      <4>3. Rows(queue') = r + n
        BY <2>3, <2>4, <4>1
      <4> QED BY <1>1, <2>5, <2>6, <4>1, <4>2, <4>3
    <3> QED BY <3>1 DEF RowsAddUp
  <2>9. QueueFits'
    <3>1. CASE queue = <<>>
      <4>1. Len(queue') = 1
        BY <2>4, <3>1
      <4> QED BY <4>1 DEF QueueFits
    <3>2. CASE Bytes(queue) + Size(e) <= QueueBytes
      <4>1. Bytes(queue') <= QueueBytes
        BY <2>3, <2>4, <3>2
      <4> QED BY <4>1 DEF QueueFits
    <3> QED BY <1>1, <1>3, <1>7, <3>1, <3>2 DEF HasRoom
  <2> QED BY <2>2, <2>8, <2>9
<1> QED BY <1>6, <1>7

LEMMA AccountAccounts ==
  ASSUME SessionInv, AccountInv, Account, WorkerFrame
  PROVE  RowsAddUp' /\ EndIsEmpty' /\ ToldIsAll' /\ QueueFits'
<1>1. /\ UNCHANGED <<cancelRequested, sent, mayContinue, queue>> /\ wpc = "account"
      /\ emitted' = emitted + Head(job.out).rows
  BY DEF Account, WorkerFrame, streamVars
<1>2. wpc' # "account"
  <2>1. job.next # "account"
    BY JobFields DEF SessionInv, DataInv, WorkerTypes
  <2> QED BY <2>1 DEF Account, Fails
<1>3. QueueFits'
  BY <1>1 DEF AccountInv, QueueFits
<1>4. CASE cancelRequested
  BY <1>1, <1>3, <1>4 DEF AccountInv, RowsAddUp, EndIsEmpty, ToldIsAll
<1>5. CASE ~cancelRequested
  <2>1. \A s \in Streams : ~SawTheEnd(s)
    BY <1>1, <1>5 DEF AccountInv, EndIsEmpty
  <2>2. EndIsEmpty' /\ ToldIsAll'
    BY <1>1, <2>1 DEF EndIsEmpty, ToldIsAll, SawTheEnd
  <2>3. AllRows(sent) + Rows(queue) = emitted + Unemitted /\ Unemitted = Head(job.out).rows
    BY <1>1, <1>5 DEF AccountInv, RowsAddUp, Unemitted
  <2>4. Unemitted' = 0
    BY <1>2 DEF Unemitted
  <2>5. emitted \in Nat /\ Head(job.out).rows \in Nat
    <3>1. job.out \in Seq(Event) /\ job.out # <<>> /\ Len(job.out) <= 3 /\ emitted \in Nat
      BY <1>1, JobFields DEF SessionInv, DataInv, WorkerTypes, OutInv
    <3> QED BY <3>1, TailPending
  <2>6. RowsAddUp'
    <3>1. AllRows(sent') + Rows(queue') = emitted' + 0
      BY <1>1, <2>3, <2>5
    <3> QED BY <2>4, <3>1 DEF RowsAddUp
  <2> QED BY <1>3, <2>2, <2>6
<1> QED BY <1>4, <1>5

LEMMA RetryAccounts ==
  ASSUME SessionInv, AccountInv, Retry, WorkerFrame
  PROVE  RowsAddUp' /\ EndIsEmpty' /\ ToldIsAll' /\ QueueFits'
<1>1. /\ UNCHANGED <<cancelRequested, sent, mayContinue, queue>> /\ wpc = "failed" /\ wpc' = "attempt"
      /\ emitted' = 0 /\ job.returned = 0
  BY DEF Retry, GoWorker, MayRetry, WorkerFrame, streamVars
<1>2. emitted = 0
  BY <1>1 DEF AccountInv, FailedCounts, SessionInv, DataInv, WorkerTypes
<1>3. Unemitted = 0 /\ Unemitted' = 0
  BY <1>1 DEF Unemitted
<1>4. RowsAddUp'
  BY <1>1, <1>2, <1>3 DEF AccountInv, RowsAddUp
<1>5. EndIsEmpty' /\ ToldIsAll' /\ QueueFits'
  BY <1>1, <1>2 DEF AccountInv, EndIsEmpty, ToldIsAll, QueueFits, SawTheEnd
<1> QED BY <1>4, <1>5

LEMMA ThreadAccounts ==
  ASSUME SessionInv, AccountInv, QueryThread
  PROVE  AccountInv'
<1>1. WorkerFrame
  BY QueryThreadFrame
<1>2. FailedCounts'
  BY FailedCountsStep DEF AccountInv
<1>3. CASE Push \/ Account \/ Retry
  BY <1>1, <1>2, <1>3, PushAccounts, AccountAccounts, RetryAccounts DEF AccountInv
<1>4. CASE ~(Push \/ Account \/ Retry)
  <2>1. job.next \in {"receive", "fin_ok", "error_set"}
    BY JobFields DEF SessionInv, DataInv, WorkerTypes
  <2>2. UNCHANGED <<queue, emitted>>
    BY <1>4 DEF QueryThread, Begin, Acquire, Command, Attempt, Block, StatementEnds, StatementFails, EncodeFails,
       Rethrow, Catch, FinishError, FinishCanceled, FinishLimit, FinishOk, FinishOkCanceled, WorkerNotify, Finish
  <2>3. wpc # "account" /\ wpc' # "account"
    BY <1>4, <2>1 DEF QueryThread, Begin, Acquire, Command, Attempt, Block, StatementEnds, StatementFails, EncodeFails,
       Rethrow, Catch, FinishError, FinishCanceled, FinishLimit, FinishOk, FinishOkCanceled, WorkerNotify, Finish,
       GoWorker, Fails
  <2>4. wpc \in {"notify", "ended"} => wpc' \in {"notify", "ended"}
    BY <1>4 DEF QueryThread, Begin, Acquire, Command, Attempt, Block, StatementEnds, StatementFails, EncodeFails,
       Rethrow, Catch, FinishError, FinishCanceled, FinishLimit, FinishOk, FinishOkCanceled, WorkerNotify, Finish,
       GoWorker
  <2>5. UNCHANGED <<cancelRequested, sent, mayContinue>>
    BY <1>1 DEF WorkerFrame, streamVars
  <2>6. Unemitted = 0 /\ Unemitted' = 0
    BY <2>3 DEF Unemitted
  <2>7. RowsAddUp'
    BY <2>2, <2>5, <2>6 DEF AccountInv, RowsAddUp
  <2>8. EndIsEmpty' /\ ToldIsAll' /\ QueueFits'
    BY <2>2, <2>4, <2>5 DEF AccountInv, EndIsEmpty, ToldIsAll, QueueFits, SawTheEnd
  <2> QED BY <1>2, <2>7, <2>8 DEF AccountInv
<1> QED BY <1>3, <1>4

(* A pop moves events from the queue into the batch of its stream.           *)
LEMMA PopAccounts ==
  ASSUME SessionInv, BatchInv, AccountInv, NEW s \in Streams, PopBatch(s)
  PROVE  AccountInv' /\ TakesRows
<1>1. PICK n \in 1..BatchEvents : /\ n <= Len(queue)
                                  /\ sent' = [sent EXCEPT ![s].batch = SubSeq(queue, 1, n)]
                                  /\ queue' = SubSeq(queue, n + 1, Len(queue))
  BY DEF PopBatch
<1>2. LogsTyped
  BY LogTypes
<1> DEFINE taken == SubSeq(queue, 1, n)
           rest  == SubSeq(queue, n + 1, Len(queue))
           l     == [sent[s] EXCEPT !.batch = taken]
<1>3. sent[s].batch = <<>> /\ sent[s].log \in Seq(Event) /\ queue \in Seq(Event) /\ sent[s] \in StreamLog
  BY <1>2 DEF PopBatch, GoStream, BatchInv, LogsTyped
<1>4. taken \in Seq(Event) /\ rest \in Seq(Event) /\ taken \o rest = queue
  <2>1. n \in Nat \ {0}
    BY SessionAssumption
  <2> QED BY <1>1, <1>3, <2>1, SplitQueue, Zenon
<1>5. Len(rest) <= Len(queue) /\ queue # <<>>
  BY <1>1, <1>3
<1>6. queue' = rest /\ sent' = [sent EXCEPT ![s] = l]
  BY <1>1, <1>2 DEF LogsTyped
<1> HIDE DEF taken, rest
<1>7. l.batch = taken /\ l.log = sent[s].log /\ l.drained = sent[s].drained /\ l.rowsTold = sent[s].rowsTold
  BY <1>3, Zenon DEF StreamLog
<1> HIDE DEF l
<1>8. sent'[s] = l /\ DOMAIN sent' = Streams /\ \A r \in Streams \ {s} : sent'[r] = sent[r]
  BY <1>2, <1>6 DEF LogsTyped
<1>9. UNCHANGED <<cancelRequested, wpc, job, emitted, mayContinue>>
  BY DEF PopBatch, lifeVars, workerVars
<1>10. \A r \in Streams : ~cancelRequested => ~SawTheEnd(r)
  BY <1>5 DEF AccountInv, EndIsEmpty
<1>11. EndIsEmpty' /\ ToldIsAll'
  <2>1. \A r \in Streams : sent'[r].drained = sent[r].drained
    BY <1>7, <1>8
  <2> QED BY <1>9, <1>10, <2>1 DEF EndIsEmpty, ToldIsAll, SawTheEnd
<1>12. /\ Rows(queue) = Rows(taken) + Rows(rest) /\ Bytes(queue) = Bytes(taken) + Bytes(rest)
       /\ Rows(taken) \in Nat /\ Rows(rest) \in Nat /\ Bytes(taken) \in Nat /\ Bytes(rest) \in Nat
  BY <1>4, ConcatCounts
<1>13. QueueFits'
  <2>1. CASE Bytes(queue) <= QueueBytes
    <3>1. Bytes(queue') <= QueueBytes
      BY <1>6, <1>12, <2>1, SessionAssumption
    <3> QED BY <3>1 DEF QueueFits
  <2>2. CASE Len(queue) <= 1
    <3>1. Len(queue') <= 1
      BY <1>3, <1>4, <1>5, <1>6, <2>2
    <3> QED BY <3>1 DEF QueueFits
  <2> QED BY <2>1, <2>2 DEF AccountInv, QueueFits
<1>14. AllRows(sent') = AllRows(sent) + Rows(taken) /\ AllRows(sent) \in Nat
  <2>1. Logs(sent) /\ Logs(sent')
    BY <1>2, <1>4, <1>7, <1>8, LogsOfTheStreams DEF LogsTyped, Logs
  <2>2. /\ AllRows(sent') + RowsHeld(sent)[s] = AllRows(sent) + RowsHeld(sent')[s]
        /\ AllRows(sent) \in Nat /\ AllRows(sent') \in Nat /\ RowsHeld(sent)[s] \in Nat
    BY <1>8, <2>1, OneLogChanges
  <2>3. RowsHeld(sent)[s] = Rows(sent[s].log) + 0 /\ RowsHeld(sent')[s] = Rows(sent[s].log) + Rows(taken)
    <3>1. Rows(<<>>) = 0
      BY NothingCounts
    <3> QED BY <1>3, <1>7, <1>8, <3>1 DEF RowsHeld
  <2>4. PICK a \in Nat, b \in Nat, m \in Nat, k \in Nat :
          a = AllRows(sent) /\ b = AllRows(sent') /\ m = Rows(sent[s].log) /\ k = Rows(taken)
    BY <1>3, <1>12, <2>2, ConcatCounts
  <2>5. b + (m + 0) = a + (m + k)
    BY <2>2, <2>3, <2>4
  <2>6. b = a + k
    BY <2>5
  <2> QED BY <2>4, <2>6
<1>15. RowsAddUp'
  <2> SUFFICES ASSUME ~cancelRequested PROVE AllRows(sent') + Rows(queue') = emitted' + Unemitted'
    BY <1>9 DEF RowsAddUp
  <2>1. AllRows(sent) + Rows(queue) = emitted + Unemitted
    BY DEF AccountInv, RowsAddUp
  <2>2. Unemitted' = Unemitted
    BY <1>9 DEF Unemitted
  <2> QED BY <1>6, <1>9, <1>12, <1>14, <2>1, <2>2
<1>16. FailedCounts'
  BY <1>9 DEF AccountInv, FailedCounts
<1>17. TakesRows
  <2>1. Unemitted' = Unemitted
    BY <1>9 DEF Unemitted
  <2> QED BY <1>6, <1>9, <1>12, <1>14, <2>1 DEF TakesRows
<1> QED BY <1>11, <1>13, <1>15, <1>16, <1>17 DEF AccountInv

(* A write moves the batch of its stream into the log.                      *)
LEMMA WriteAccounts ==
  ASSUME SessionInv, AccountInv, NEW s \in Streams, WriteBatch(s)
  PROVE  AccountInv' /\ TakesRows
<1> DEFINE longer == sent[s].log \o sent[s].batch
           none   == <<>>
           l      == [sent[s] EXCEPT !.log = longer, !.batch = none]
<1>1. LogsTyped
  BY LogTypes
<1>2. UNCHANGED <<cancelRequested, wpc, job, emitted, mayContinue, queue>> /\ sent' = [sent EXCEPT ![s] = l]
  BY <1>1 DEF WriteBatch, LogsTyped, resultVars, lifeVars, workerVars
<1>3. sent[s] \in StreamLog /\ sent[s].log \in Seq(Event) /\ sent[s].batch \in Seq(Event)
  BY <1>1 DEF LogsTyped
<1>4. longer \in Seq(Event) /\ none \in Seq(Event)
  BY <1>3, ConcatProperties
<1>5. /\ Rows(longer) = Rows(sent[s].log) + Rows(sent[s].batch)
      /\ Rows(sent[s].log) \in Nat /\ Rows(sent[s].batch) \in Nat
  BY <1>3, ConcatCounts
<1>6. Rows(none) = 0
  BY NothingCounts
<1> HIDE DEF longer
<1>7. l.batch = none /\ l.log = longer /\ l.drained = sent[s].drained /\ l.rowsTold = sent[s].rowsTold
  BY <1>3, Zenon DEF StreamLog
<1> HIDE DEF l, none
<1>8. sent'[s] = l /\ DOMAIN sent' = Streams /\ \A r \in Streams \ {s} : sent'[r] = sent[r]
  BY <1>1, <1>2 DEF LogsTyped
<1>9. AllRows(sent') = AllRows(sent)
  <2>1. Logs(sent) /\ Logs(sent')
    BY <1>1, <1>4, <1>7, <1>8, LogsOfTheStreams DEF LogsTyped, Logs
  <2>2. /\ AllRows(sent') + RowsHeld(sent)[s] = AllRows(sent) + RowsHeld(sent')[s]
        /\ AllRows(sent) \in Nat /\ AllRows(sent') \in Nat /\ RowsHeld(sent)[s] \in Nat
    BY <1>8, <2>1, OneLogChanges
  <2>3. RowsHeld(sent)[s] = Rows(sent[s].log) + Rows(sent[s].batch) /\ RowsHeld(sent')[s] = Rows(longer) + 0
    BY <1>6, <1>7, <1>8 DEF RowsHeld
  <2>4. RowsHeld(sent')[s] = RowsHeld(sent)[s]
    BY <1>5, <2>3
  <2> QED BY <2>2, <2>4
<1>10. \A r \in Streams : sent'[r].drained = sent[r].drained /\ sent'[r].rowsTold = sent[r].rowsTold
  BY <1>7, <1>8
<1>11. Unemitted' = Unemitted
  BY <1>2 DEF Unemitted
<1>12. RowsAddUp'
  BY <1>2, <1>9, <1>11 DEF AccountInv, RowsAddUp
<1>13. FailedCounts' /\ QueueFits'
  BY <1>2 DEF AccountInv, FailedCounts, QueueFits
<1>14. EndIsEmpty' /\ ToldIsAll'
  BY <1>2, <1>10 DEF AccountInv, EndIsEmpty, ToldIsAll, SawTheEnd
<1>15. TakesRows
  BY <1>2, <1>9, <1>11, HeldRows DEF TakesRows
<1> QED BY <1>12, <1>13, <1>14, <1>15 DEF AccountInv

(* Steps that move no events: what a stream sees of the end, it sees of a   *)
(* run that ended, with an empty queue.                                     *)
LEMMA QuietAccounts ==
  ASSUME SessionInv, AccountInv, SessionInv', KeepsLogs,
         UNCHANGED <<queue, emitted, job>>, wpc' = wpc \/ (wpc = "off" /\ wpc' = "begin"),
         cancelRequested => cancelRequested',
         \A s \in Streams : mayContinue'[s] = mayContinue[s] \/ mayContinue'[s] \/ (queue = <<>> /\ IsTerminal(status)),
         \A s \in Streams : \/ sent'[s].drained = sent[s].drained /\ sent'[s].rowsTold = sent[s].rowsTold
                            \/ sent'[s].drained = ~mayContinue[s] /\ sent'[s].rowsTold = emitted
  PROVE  AccountInv' /\ TakesRows
<1>1. AllRows(sent') = AllRows(sent)
  <2>1. Logs(sent) /\ Logs(sent')
    BY LogsOfTheStreams, LogTypes DEF Logs, LogsTyped, SessionInv, StreamData, KeepsLogs
  <2> QED BY <2>1, SameLogsSameRows DEF KeepsLogs
<1>2. Unemitted' = Unemitted
  BY DEF Unemitted
<1>3. RowsAddUp'
  BY <1>1, <1>2 DEF AccountInv, RowsAddUp
<1>4. FailedCounts' /\ QueueFits'
  BY DEF AccountInv, FailedCounts, QueueFits
<1>5. ASSUME NEW s \in Streams, ~cancelRequested', SawTheEnd(s)'
      PROVE  SawTheEnd(s) \/ (queue = <<>> /\ IsTerminal(status))
  BY <1>5 DEF SawTheEnd
<1>6. EndIsEmpty'
  <2> SUFFICES ASSUME NEW s \in Streams, ~cancelRequested', SawTheEnd(s)'
               PROVE  queue' = <<>> /\ wpc' \in {"notify", "ended"}
    BY DEF EndIsEmpty
  <2>1. CASE SawTheEnd(s)
    BY <2>1 DEF AccountInv, EndIsEmpty
  <2>2. CASE queue = <<>> /\ IsTerminal(status)
    BY <2>2, EndedRuns
  <2> QED BY <1>5, <2>1, <2>2
<1>7. ToldIsAll'
  BY DEF AccountInv, ToldIsAll
<1>8. TakesRows
  BY <1>1, <1>2, HeldRows DEF TakesRows
<1> QED BY <1>3, <1>4, <1>6, <1>7, <1>8 DEF AccountInv

(* What a step of the environment or of a stream does to the accounts.      *)
LEMMA QuietStep ==
  ASSUME SessionInv, [Next]_vars, ~QueryThread, \A s \in Streams : ~PopBatch(s) /\ ~WriteBatch(s)
  PROVE  /\ UNCHANGED <<queue, emitted, job>> /\ (cancelRequested => cancelRequested')
         /\ wpc' = wpc \/ (wpc = "off" /\ wpc' = "begin")
         /\ \A s \in Streams : \/ mayContinue'[s] = mayContinue[s] \/ mayContinue'[s]
                               \/ queue = <<>> /\ IsTerminal(status)
<1> USE DEF streamVars, lifeVars, resultVars, workerVars, serverVars
<1>1. UNCHANGED <<queue, emitted, job>> /\ (cancelRequested => cancelRequested')
  <2>1. CASE ApiCancel \/ StopBegin \/ StopSweep \/ ReaperPick \/ ReaperErase \/ UNCHANGED vars
    BY <2>1 DEF ApiCancel, StopBegin, StopSweep, ReaperPick, ReaperErase, vars
  <2>2. CASE \E c \in Callers : CancelStep(c)
    BY <2>2 DEF CancelStep, CancelFlag, CancelLock, CancelNotify
  <2>3. CASE \E s \in Streams : StreamBegin(s) \/ SpawnThrows(s) \/ ClientCut(s)
    BY <2>3 DEF StreamBegin, StreamRoute, StreamFind, StreamAttach, Start, StartCheck, Spawn, SpawnThrows, ClientCut
  <2>4. ASSUME NEW s \in Streams, StreamProvides(s)
        PROVE  UNCHANGED <<queue, emitted, job, cancelRequested>>
    <3>1. CASE WriteMeta(s) \/ WriteDone(s) \/ WriteDoneFails(s) \/ WriteFails(s) \/ PopNothing(s) \/ WriteTick(s)
      BY <3>1 DEF WriteMeta, WriteDone, WriteDoneFails, WriteFails, PopNothing, WriteTick
    <3>2. CASE EraseAtDone(s) \/ CutNoticed(s) \/ Release(s) \/ EraseAtRelease(s) \/ CancelReturns(s)
      BY <3>2 DEF EraseAtDone, CutNoticed, Release, EraseAtRelease, CancelReturns
    <3> QED BY <2>4, <3>1, <3>2 DEF StreamProvides
  <2> QED BY <2>1, <2>2, <2>3, <2>4 DEF Next
<1>2. UNCHANGED wpc \/ \E s \in Streams : Spawn(s)
  BY DEF Next, ApiCancel, StopBegin, StopSweep, ReaperPick, ReaperErase, CancelStep, CancelFlag, CancelLock,
     CancelNotify, StreamBegin, StreamRoute, StreamFind, StreamAttach, Start, StartCheck, SpawnThrows,
     StreamProvides, ClientCut, WriteFails, WriteMeta, PopNothing, WriteDone, WriteDoneFails, WriteTick, EraseAtDone,
     CutNoticed, Release, EraseAtRelease, CancelReturns, vars
<1>3. UNCHANGED mayContinue \/ \E s \in Streams : PopNothing(s)
  BY DEF Next, ApiCancel, StopBegin, StopSweep, ReaperPick, ReaperErase, CancelStep, CancelFlag, CancelLock,
     CancelNotify, StreamBegin, StreamRoute, StreamFind, StreamAttach, Start, StartCheck, Spawn, SpawnThrows,
     StreamProvides, ClientCut, WriteFails, WriteMeta, WriteDone, WriteDoneFails, WriteTick, EraseAtDone,
     CutNoticed, Release, EraseAtRelease, CancelReturns, vars
<1>4. ASSUME NEW s \in Streams, Spawn(s) PROVE wpc = "off" /\ wpc' = "begin"
  BY <1>4 DEF Spawn, GoStream, SessionInv, StartInv
<1>5. ASSUME NEW s \in Streams, PopNothing(s), NEW r \in Streams
      PROVE  mayContinue'[r] = mayContinue[r] \/ mayContinue'[r] \/ (queue = <<>> /\ IsTerminal(status))
  <2>1. mayContinue \in [Streams -> BOOLEAN]
    BY DEF SessionInv, StreamData
  <2>2. queue = <<>> /\ mayContinue' = [mayContinue EXCEPT ![s] = ~IsTerminal(status)]
    BY <1>5 DEF PopNothing
  <2>3. CASE r = s
    <3>1. CASE IsTerminal(status)
      BY <2>2, <3>1
    <3>2. CASE ~IsTerminal(status)
      BY <2>1, <2>2, <2>3, <3>2
    <3> QED BY <3>1, <3>2
  <2>4. CASE r # s
    BY <2>1, <2>2, <2>4
  <2> QED BY <2>3, <2>4
<1> QED BY <1>1, <1>2, <1>3, <1>4, <1>5

(* What a stream was told changes with its end only, and then with what the *)
(* session has counted.                                                     *)
LEMMA ToldStep ==
  ASSUME SessionInv, [Next]_vars, ~QueryThread, \A s \in Streams : ~PopBatch(s) /\ ~WriteBatch(s)
  PROVE  \A s \in Streams : \/ sent'[s].drained = sent[s].drained /\ sent'[s].rowsTold = sent[s].rowsTold
                            \/ sent'[s].drained = ~mayContinue[s] /\ sent'[s].rowsTold = emitted
<1> USE DEF streamVars, lifeVars, resultVars, workerVars, serverVars
<1> DEFINE SaysSo(s) == \/ sent'[s].drained = sent[s].drained /\ sent'[s].rowsTold = sent[s].rowsTold
                        \/ sent'[s].drained = ~mayContinue[s] /\ sent'[s].rowsTold = emitted
<1>1. UNCHANGED sent \/ \E s \in Streams : WriteMeta(s) \/ WriteDone(s) \/ WriteDoneFails(s)
  BY DEF Next, ApiCancel, StopBegin, StopSweep, ReaperPick, ReaperErase, CancelStep, CancelFlag,
     CancelLock, CancelNotify, StreamBegin, StreamRoute, StreamFind, StreamAttach, Start, StartCheck, Spawn,
     SpawnThrows, StreamProvides, ClientCut, WriteFails, PopNothing, WriteTick, EraseAtDone, CutNoticed, Release,
     EraseAtRelease, CancelReturns, vars
<1>2. CASE UNCHANGED sent
  BY <1>2
<1>3. ASSUME NEW s \in Streams, WriteMeta(s) \/ WriteDone(s) \/ WriteDoneFails(s)
      PROVE  \A r \in Streams : SaysSo(r)
  <2>1. sent \in [Streams -> StreamLog] /\ sent[s] \in StreamLog
    BY LogTypes DEF LogsTyped
  <2>2. SaysSo(s) /\ \A r \in Streams \ {s} : sent'[r] = sent[r]
    <3>1. CASE WriteMeta(s)
      <4> DEFINE l == [sent[s] EXCEPT !.metas = sent[s].metas + 1]
      <4>1. l.drained = sent[s].drained /\ l.rowsTold = sent[s].rowsTold
        BY <2>1, Zenon DEF StreamLog
      <4>2. sent' = [sent EXCEPT ![s] = l]
        BY <2>1, <3>1 DEF WriteMeta
      <4> HIDE DEF l
      <4> QED BY <2>1, <4>1, <4>2
    <3>2. CASE WriteDone(s)
      <4> DEFINE errors == IF stopping /\ status = "Canceled" THEN 1 ELSE 0
                 saw    == ~mayContinue[s]
                 l == [sent[s] EXCEPT !.termSent = TRUE, !.done = status, !.rowsTold = emitted,
                                      !.drained = saw, !.stopErrors = errors]
      <4>1. sent' = [sent EXCEPT ![s] = l]
        BY <2>1, <3>2 DEF WriteDone
      <4> HIDE DEF errors, saw
      <4>2. l.drained = saw /\ l.rowsTold = emitted
        BY <2>1, Zenon DEF StreamLog
      <4> HIDE DEF l
      <4>3. sent'[s] = l /\ \A r \in Streams \ {s} : sent'[r] = sent[r]
        BY <2>1, <4>1
      <4>4. sent'[s].drained = saw /\ sent'[s].rowsTold = emitted
        BY <4>2, <4>3
      <4> QED BY <4>3, <4>4 DEF saw
    <3>3. CASE WriteDoneFails(s)
      <4> DEFINE l == [sent[s] EXCEPT !.termSent = TRUE]
      <4>1. l.drained = sent[s].drained /\ l.rowsTold = sent[s].rowsTold
        BY <2>1, Zenon DEF StreamLog
      <4>2. sent' = [sent EXCEPT ![s] = l]
        BY <2>1, <3>3 DEF WriteDoneFails
      <4> HIDE DEF l
      <4> QED BY <2>1, <4>1, <4>2
    <3> QED BY <1>3, <3>1, <3>2, <3>3
  <2> QED BY <2>2
<1> QED BY <1>1, <1>2, <1>3

LEMMA OthersTakeRows ==
  ASSUME SessionInv, BatchInv, AccountInv, [Next]_vars, ~QueryThread
  PROVE  AccountInv' /\ TakesRows
<1>1. ASSUME NEW s \in Streams, PopBatch(s) \/ WriteBatch(s)
      PROVE  AccountInv' /\ TakesRows
  BY <1>1, PopAccounts, WriteAccounts
<1>2. CASE \A s \in Streams : ~PopBatch(s) /\ ~WriteBatch(s)
  <2>1. SessionInv' /\ KeepsLogs
    BY <1>2, SessionStep, LogsStep
  <2> QED BY <1>2, <2>1, QuietStep, ToldStep, QuietAccounts
<1> QED BY <1>1, <1>2

LEMMA AccountInvStep ==
  ASSUME SessionInv, BatchInv, AccountInv, [Next]_vars
  PROVE  AccountInv'
BY ThreadAccounts, OthersTakeRows

(* Streams that have nothing have no rows.                                  *)
LEMMA NothingHeld ==
  ASSUME NEW f, Logs(f), \A s \in Streams : f[s].log = <<>> /\ f[s].batch = <<>>
  PROVE  AllRows(f) = 0
<1> DEFINE a == RowsHeld(f)
           S == {n \in Nat : \A V \in SUBSET Streams : Cardinality(V) = n => Total(a, V) = 0}
<1>1. Rows(<<>>) = 0
  BY NothingCounts
<1>2. \A s \in Streams : a[s] = 0
  BY <1>1 DEF RowsHeld
<1>3. \A V \in SUBSET Streams : IsFiniteSet(V) /\ Cardinality(V) \in Nat /\ (Cardinality(V) = 0 <=> V = {})
  BY SessionAssumption, FS_Subset, FS_CardinalityType, FS_EmptySet
<1> HIDE DEF a
<1>4. 0 \in S
  BY <1>3, TotalIs
<1>5. ASSUME NEW n \in Nat, n \in S PROVE n + 1 \in S
  <2> SUFFICES ASSUME NEW V \in SUBSET Streams, Cardinality(V) = n + 1 PROVE Total(a, V) = 0
    OBVIOUS
  <2>1. IsFiniteSet(V) /\ V # {} /\ Pick(V) \in V
    BY <1>3, PickIsOne
  <2>2. Cardinality(V \ {Pick(V)}) = n /\ V \ {Pick(V)} \in SUBSET Streams
    BY <2>1, OneLess
  <2>3. Total(a, V) = a[Pick(V)] + Total(a, V \ {Pick(V)})
    BY <2>1, TotalIs
  <2>4. a[Pick(V)] = 0 /\ Total(a, V \ {Pick(V)}) = 0
    BY <1>2, <1>5, <2>1, <2>2
  <2> QED BY <2>3, <2>4
<1> HIDE DEF S
<1>6. Nat \subseteq S
  BY <1>4, <1>5, Induct
<1>7. Cardinality(Streams) \in S
  BY <1>3, <1>6
<1>8. Total(a, Streams) = 0
  BY <1>7 DEF S
<1> QED BY <1>8, AllRowsIs DEF a

LEMMA AccountInit == Init => AccountInv
<1> SUFFICES ASSUME Init PROVE AccountInv
  OBVIOUS
<1>1. queue = <<>> /\ emitted = 0 /\ wpc = "off" /\ mayContinue = [s \in Streams |-> TRUE]
  BY DEF Init
<1>2. \A s \in Streams : sent[s].log = <<>> /\ sent[s].batch = <<>> /\ sent[s].drained = FALSE
  BY DEF Init
<1>3. AllRows(sent) = 0
  BY <1>2, SessionInit, LogsOfTheStreams, NothingHeld
<1>4. Rows(<<>>) = 0
  BY NothingCounts
<1>5. RowsAddUp
  BY <1>1, <1>3, <1>4 DEF RowsAddUp, Unemitted
<1>6. EndIsEmpty /\ ToldIsAll
  BY <1>1, <1>2 DEF EndIsEmpty, ToldIsAll, SawTheEnd
<1>7. FailedCounts /\ QueueFits
  BY <1>1 DEF FailedCounts, QueueFits
<1> QED BY <1>5, <1>6, <1>7 DEF AccountInv

(* push_sse_json_event, wait_pop_sse_batch and handle_query_stream: while   *)
(* nobody cancels, every row the session counted was written to a stream,   *)
(* is in its batch or in the queue, and a stream that ends on a queue it    *)
(* found empty tells exactly the rows that were written; the queue stays    *)
(* within its bytes, for every number of streams.                           *)
THEOREM EveryRowIsAccounted == Spec => []EveryRowAccounted
<1>1. Init => SessionInv /\ BatchInv /\ AccountInv
  BY SessionInit, ErrorInit, AccountInit DEF ErrorInv
<1>2. SessionInv /\ BatchInv /\ AccountInv /\ [Next]_vars => (SessionInv /\ BatchInv /\ AccountInv)'
  BY SessionStep, BatchStep, AccountInvStep
<1>3. SessionInv /\ AccountInv => EveryRowAccounted
  <2> SUFFICES ASSUME SessionInv, AccountInv PROVE EveryRowAccounted
    OBVIOUS
  <2>1. ~cancelRequested => AllRows(sent) + Rows(queue) = Made
    BY DEF AccountInv, RowsAddUp, Unemitted, Made
  <2>2. ASSUME NEW s \in Streams, sent[s].drained, ~cancelRequested
        PROVE  AllRows(sent) = sent[s].rowsTold
    <3>1. queue = <<>> /\ wpc \in {"notify", "ended"} /\ sent[s].rowsTold = emitted
      BY <2>2 DEF AccountInv, EndIsEmpty, ToldIsAll, SawTheEnd
    <3>2. Rows(<<>>) = 0
      BY NothingCounts
    <3>3. AllRows(sent) + 0 = emitted + 0
      BY <2>2, <3>1, <3>2 DEF AccountInv, RowsAddUp, Unemitted
    <3>4. AllRows(sent) \in Nat /\ emitted \in Nat
      BY LogsOfTheStreams, AllRowsIs DEF SessionInv, DataInv, WorkerTypes
    <3> QED BY <3>1, <3>3, <3>4
  <2>3. QueueFits
    BY DEF AccountInv
  <2> QED BY <2>1, <2>2, <2>3 DEF EveryRowAccounted, QueueFits
<1> QED BY <1>1, <1>2, <1>3, PTL DEF Spec

-----------------------------------------------------------------------------
(* What a run promises.  Beside the invariants so far it needs that nothing  *)
(* comes out of the queue that was not put into it, also after a cancel; that *)
(* a run that was started is not Created any more; that only a limit ends a  *)
(* run as limited; and that who is about to tell of a cancel has asked for it. *)
RowsAreMade == AllRows(sent) + Rows(queue) <= Made
WasBegun    == started => status # "Created"
LimitExists == wpc = "fin_limit" => RowLimit > 0
HasAsked    == \A c \in Callers : call[c] = "notify" => cancelRequested
RunInv      == SessionInv /\ ReportInv /\ BatchInv /\ AccountInv /\ RowsAreMade /\ WasBegun /\ LimitExists /\ HasAsked

Promised == [Promise!RunNext]_(Promise!promiseVars)

(* The first event of those that are to be pushed.                          *)
LEMMA HeadEvent ==
  ASSUME SessionInv, wpc \in {"push", "account"}
  PROVE  /\ job \in ThreadJob /\ emitted \in Nat /\ queue \in Seq(Event) /\ Head(job.out) \in Event
         /\ Head(job.out).rows \in Nat /\ Pending(job.out) \in Nat /\ Head(job.out).rows <= Pending(job.out)
         /\ job.next \in {"receive", "fin_ok", "error_set"}
<1>1. job \in ThreadJob /\ emitted \in Nat /\ queue \in Seq(Event) /\ job.out # <<>> /\ Len(job.out) <= 3
  BY DEF SessionInv, DataInv, WorkerTypes, OutInv
<1>2. job.out \in Seq(Event) /\ job.next \in {"receive", "fin_ok", "error_set"}
  BY <1>1, JobFields
<1>3. Head(job.out) \in Event
  BY <1>1, <1>2
<1>4. /\ Pending(job.out) = Head(job.out).rows + Pending(Tail(job.out))
      /\ Head(job.out).rows \in Nat /\ Pending(Tail(job.out)) \in Nat
  BY <1>1, <1>2, TailPending
<1> HIDE DEF Pending
<1> QED BY <1>1, <1>2, <1>3, <1>4

(* The rows of an event keep within the limit before they are counted.      *)
LEMMA PushIsInLimit ==
  ASSUME SessionInv, wpc = "push", RowLimit > 0
  PROVE  emitted + Head(job.out).rows <= RowLimit
<1>1. /\ emitted \in Nat /\ Head(job.out).rows \in Nat /\ Pending(job.out) \in Nat
      /\ Head(job.out).rows <= Pending(job.out) /\ job.next \in {"receive", "fin_ok", "error_set"}
  BY HeadEvent
<1>2. RowLimit \in Nat /\ job.received \in Nat /\ job.returned \in Nat
  BY SessionAssumption, JobFields DEF SessionInv, DataInv, WorkerTypes
<1>3. CountInv
  BY DEF SessionInv, DataInv
<1>4. CASE job.next = "receive"
  <2>1. job.returned + Pending(job.out) = Cut(job.received) /\ emitted + 0 = job.returned
    BY <1>3, <1>4 DEF CountInv, InResult, Unreturned, Unemitted
  <2>2. Cut(job.received) \in Nat /\ Cut(job.received) <= RowLimit
    BY <1>2 DEF Cut
  <2> QED BY <1>1, <1>2, <2>1, <2>2
<1>5. CASE job.next = "fin_ok"
  <2>1. emitted + Pending(job.out) <= 1
    BY <1>3, <1>5 DEF CountInv
  <2> QED BY <1>1, <1>2, <2>1
<1>6. CASE job.next = "error_set"
  <2>1. Pending(job.out) = 0 /\ emitted <= RowLimit
    BY <1>3, <1>6 DEF CountInv
  <2> QED BY <1>1, <1>2, <2>1
<1> QED BY <1>1, <1>4, <1>5, <1>6

(* A push makes the rows of its event, and a cancel drops the event.        *)
LEMMA PushMakes ==
  ASSUME SessionInv, RowsAreMade, Push
  PROVE  /\ UNCHANGED Taken /\ Made \in Nat /\ Made' \in Nat /\ Made' >= Made /\ (RowLimit > 0 => Made' <= RowLimit)
         /\ RowsAreMade'
<1>1. /\ UNCHANGED <<cancelRequested, sent, emitted>> /\ wpc = "push" /\ wpc' = "account"
      /\ queue' = IF cancelRequested THEN queue ELSE Append(queue, Head(job.out))
      /\ job' = [job EXCEPT !.returned = @ + Head(job.out).rows]
  BY QueryThreadFrame DEF QueryThread, Push, GoWorker, WorkerFrame, streamVars
<1>2. /\ job \in ThreadJob /\ emitted \in Nat /\ queue \in Seq(Event)
      /\ Head(job.out) \in Event /\ Head(job.out).rows \in Nat
  BY <1>1, HeadEvent
<1>3. PICK e \in Event : e = Head(job.out)
  BY <1>2
<1>4. e.rows \in Nat
  BY <1>2, <1>3
<1>5. job'.out = job.out
  BY <1>1, <1>2, <1>3, ReturnedJob
<1>6. Made = emitted /\ Made' = emitted + e.rows
  BY <1>1, <1>2, <1>3, <1>5 DEF Made
<1>7. UNCHANGED Taken /\ AllRows(sent') = AllRows(sent) /\ AllRows(sent) \in Nat /\ Rows(queue) \in Nat
  BY <1>1, HeldRows DEF Taken
<1>8. Rows(queue') = Rows(queue) \/ Rows(queue') = Rows(queue) + e.rows
  <2>1. Rows(Append(queue, e)) = Rows(queue) + e.rows
    BY <1>2, AppendCounts
  <2> QED BY <1>1, <1>3, <2>1
<1>9. PICK a \in Nat, r \in Nat, n \in Nat : a = AllRows(sent) /\ r = Rows(queue) /\ n = e.rows
  BY <1>4, <1>7
<1>10. a + r <= emitted
  BY <1>6, <1>9 DEF RowsAreMade
<1>11. RowsAreMade'
  <2>1. AllRows(sent') + Rows(queue') <= Made'
    BY <1>2, <1>6, <1>7, <1>8, <1>9, <1>10
  <2> QED BY <2>1 DEF RowsAreMade
<1>12. RowLimit > 0 => emitted + e.rows <= RowLimit
  BY <1>1, <1>3, PushIsInLimit
<1> QED BY <1>2, <1>4, <1>6, <1>7, <1>11, <1>12

(* The other steps of the query thread make no rows; one that counts them,  *)
(* or takes an attempt back, counts what was made.                          *)
LEMMA ThreadKeepsRows ==
  ASSUME SessionInv, AccountInv, QueryThread, ~Push
  PROVE  UNCHANGED <<Made, Taken, queue, sent>>
<1>1. WorkerFrame
  BY QueryThreadFrame
<1>2. UNCHANGED <<sent, Taken>>
  BY <1>1 DEF WorkerFrame, streamVars, Taken
<1>3. job.next \in {"receive", "fin_ok", "error_set"} /\ emitted \in Nat
  BY JobFields DEF SessionInv, DataInv, WorkerTypes
<1>4. CASE Account
  <2>1. wpc = "account" /\ wpc' # "account" /\ emitted' = emitted + Head(job.out).rows /\ UNCHANGED queue
    BY <1>3, <1>4 DEF Account, Fails
  <2>2. emitted' \in Nat
    BY <1>3, <2>1, HeadEvent
  <2> QED BY <1>2, <2>1, <2>2 DEF Made
<1>5. CASE Retry
  <2>1. wpc = "failed" /\ wpc' = "attempt" /\ emitted' = 0 /\ job.returned = 0 /\ UNCHANGED queue
    BY <1>5 DEF Retry, GoWorker, MayRetry
  <2>2. emitted = 0
    BY <1>3, <2>1 DEF AccountInv, FailedCounts
  <2> QED BY <1>2, <2>1, <2>2 DEF Made
<1>6. CASE ~(Account \/ Retry)
  <2>1. UNCHANGED <<queue, emitted>>
    BY <1>6 DEF QueryThread, Begin, Acquire, Command, Attempt, Block, StatementEnds, StatementFails, EncodeFails,
       Rethrow, Catch, FinishError, FinishCanceled, FinishLimit, FinishOk, FinishOkCanceled, WorkerNotify, Finish
  <2>2. wpc # "account" /\ wpc' # "account"
    BY <1>3, <1>6 DEF QueryThread, Begin, Acquire, Command, Attempt, Block, StatementEnds, StatementFails, EncodeFails,
       Rethrow, Catch, FinishError, FinishCanceled, FinishLimit, FinishOk, FinishOkCanceled, WorkerNotify, Finish,
       GoWorker, Fails
  <2> QED BY <1>2, <2>1, <2>2 DEF Made
<1> QED BY <1>4, <1>5, <1>6

LEMMA RowsAreMadeStep ==
  ASSUME SessionInv, BatchInv, AccountInv, RowsAreMade, [Next]_vars
  PROVE  RowsAreMade'
<1>1. CASE Push
  BY <1>1, PushMakes
<1>2. CASE QueryThread /\ ~Push
  <2>1. UNCHANGED <<Made, queue, sent>>
    BY <1>2, ThreadKeepsRows
  <2> QED BY <2>1 DEF RowsAreMade
<1>3. CASE ~QueryThread
  <2>1. TakesRows
    BY <1>3, OthersTakeRows
  <2>2. Made' = Made
    BY <2>1 DEF TakesRows, Made, Unemitted
  <2> QED BY <2>1, <2>2 DEF TakesRows, RowsAreMade
<1> QED BY <1>1, <1>2, <1>3

(* Who else changes the status, the flag or what was told.                  *)
LEMMA QuietLife ==
  ASSUME [Next]_vars, ~QueryThread, \A c \in Callers : ~CancelStep(c), \A s \in Streams : ~Start(s) /\ ~StartCheck(s)
  PROVE  UNCHANGED <<started, status, cancelRequested, report>>
<1> USE DEF streamVars, lifeVars, resultVars, workerVars, serverVars
<1>1. CASE ApiCancel \/ StopBegin \/ StopSweep \/ ReaperPick \/ ReaperErase \/ UNCHANGED vars
  BY <1>1 DEF ApiCancel, StopBegin, StopSweep, ReaperPick, ReaperErase, vars
<1>2. CASE \E s \in Streams : StreamBegin(s) \/ SpawnThrows(s) \/ ClientCut(s)
  BY <1>2 DEF StreamBegin, StreamRoute, StreamFind, StreamAttach, Spawn, SpawnThrows, ClientCut
<1>3. ASSUME NEW s \in Streams, StreamProvides(s)
      PROVE  UNCHANGED <<started, status, cancelRequested, report>>
  <2>1. CASE WriteMeta(s) \/ WriteDone(s) \/ WriteDoneFails(s) \/ WriteFails(s) \/ PopNothing(s) \/ WriteTick(s)
    BY <2>1 DEF WriteMeta, WriteDone, WriteDoneFails, WriteFails, PopNothing, WriteTick
  <2>2. CASE EraseAtDone(s) \/ CutNoticed(s) \/ Release(s) \/ EraseAtRelease(s) \/ CancelReturns(s) \/ PopBatch(s)
             \/ WriteBatch(s)
    BY <2>2 DEF EraseAtDone, CutNoticed, Release, EraseAtRelease, CancelReturns, PopBatch, WriteBatch
  <2> QED BY <1>3, <2>1, <2>2 DEF StreamProvides
<1> QED BY <1>1, <1>2, <1>3 DEF Next

Finishes == FinishError \/ FinishCanceled \/ FinishLimit \/ FinishOk

LEMMA QuietThread ==
  ASSUME QueryThread, ~Finishes, ~WorkerNotify
  PROVE  UNCHANGED <<started, status, cancelRequested, report>>
<1>1. UNCHANGED <<started, cancelRequested>>
  BY QueryThreadFrame DEF WorkerFrame
<1>2. UNCHANGED <<status, report>>
  BY DEF Finishes, QueryThread, StatusFrame, Begin, Acquire, Command, Attempt, Block, StatementEnds, StatementFails,
     Push, EncodeFails, Account, Retry, Rethrow, Catch, FinishOkCanceled
<1> QED BY <1>1, <1>2

LEMMA WasBegunStep ==
  ASSUME SessionInv, WasBegun, [Next]_vars
  PROVE  WasBegun'
<1>1. CASE QueryThread
  <2>1. UNCHANGED started
    BY <1>1, QueryThreadFrame DEF WorkerFrame
  <2>2. UNCHANGED status \/ status' \in Terminal
    BY <1>1, QuietThread
    DEF Finishes, FinishError, FinishCanceled, FinishLimit, FinishOk, Finish, WorkerNotify, Terminal
  <2> QED BY <2>1, <2>2 DEF WasBegun, Terminal
<1>2. ASSUME NEW c \in Callers, CancelStep(c) PROVE WasBegun'
  BY <1>2 DEF CancelStep, CancelFlag, CancelLock, CancelNotify, WasBegun
<1>3. ASSUME NEW s \in Streams, Start(s) \/ StartCheck(s) PROVE WasBegun'
  BY <1>3 DEF Start, StartCheck, WasBegun
<1> QED BY <1>1, <1>2, <1>3, QuietLife DEF WasBegun

LEMMA LimitExistsStep ==
  ASSUME SessionInv, LimitExists, [Next]_vars
  PROVE  LimitExists'
<1> SUFFICES ASSUME wpc' = "fin_limit" PROVE RowLimit > 0
  BY DEF LimitExists
<1>1. CASE QueryThread
  <2>1. job.next \in {"receive", "fin_ok", "error_set"}
    BY JobFields DEF SessionInv, DataInv, WorkerTypes
  <2>2. StatementEnds
    BY <1>1, <2>1 DEF QueryThread, Begin, Acquire, Command, Attempt, Block, StatementFails, Push, EncodeFails,
       Account, Retry, Rethrow, Catch, FinishError, FinishCanceled, FinishLimit, FinishOk, FinishOkCanceled, WorkerNotify,
       Finish, GoWorker, Fails
  <2>3. InResult /\ job.limit
    BY <2>2 DEF StatementEnds, GoWorker, InResult
  <2> QED BY <2>3 DEF SessionInv, DataInv, CountInv
<1>2. ASSUME NEW s \in Streams, PopBatch(s) \/ WriteBatch(s) PROVE wpc' = wpc
  BY <1>2 DEF PopBatch, WriteBatch, workerVars
<1>3. CASE ~QueryThread
  BY <1>2, <1>3, QuietStep DEF LimitExists
<1> QED BY <1>1, <1>3

LEMMA HasAskedStep ==
  ASSUME SessionInv, HasAsked, [Next]_vars
  PROVE  HasAsked'
<1> USE DEF streamVars, lifeVars, resultVars, workerVars, serverVars
<1>1. call \in [Callers -> Calls] /\ \A c \in Callers : call[c] = "lock" => cancelRequested
  BY DEF SessionInv, StatusInv
<1>2. CASE QueryThread
  BY <1>2, QueryThreadFrame DEF WorkerFrame, HasAsked
<1>3. ASSUME NEW c \in Callers, CancelStep(c) PROVE HasAsked'
  <2>1. CASE CancelFlag(c)
    BY <2>1 DEF CancelFlag, HasAsked
  <2>2. CASE CancelLock(c)
    BY <1>1, <2>2 DEF CancelLock, HasAsked
  <2>3. CASE CancelNotify(c)
    BY <1>1, <2>3 DEF CancelNotify, HasAsked
  <2> QED BY <1>3, <2>1, <2>2, <2>3 DEF CancelStep
<1>4. ASSUME NEW s \in Streams, Start(s) \/ StartCheck(s) PROVE HasAsked'
  BY <1>4 DEF Start, StartCheck, HasAsked
<1>5. CASE ~QueryThread /\ (\A c \in Callers : ~CancelStep(c)) /\ \A s \in Streams : ~Start(s) /\ ~StartCheck(s)
  <2>1. UNCHANGED cancelRequested
    BY <1>5, QuietLife
  <2>2. \A c \in Callers : call'[c] = "notify" => call[c] = "notify"
    <3>1. CASE ApiCancel \/ StopBegin \/ StopSweep \/ ReaperPick \/ ReaperErase \/ UNCHANGED vars
      BY <1>1, <3>1 DEF ApiCancel, StopBegin, StopSweep, ReaperPick, ReaperErase, vars
    <3>2. ASSUME NEW s \in Streams, StreamBegin(s) \/ SpawnThrows(s) \/ ClientCut(s) \/ StreamProvides(s)
          PROVE  UNCHANGED call \/ call' = [call EXCEPT ![s] = "flag"] \/ call' = [call EXCEPT ![s] = "idle"]
      BY <3>2 DEF StreamBegin, StreamRoute, StreamFind, StreamAttach, Start, StartCheck, Spawn, SpawnThrows, StreamProvides,
         ClientCut, WriteFails, WriteMeta, PopBatch, PopNothing, WriteBatch, WriteDone, WriteDoneFails, WriteTick,
         EraseAtDone, CutNoticed, Release, EraseAtRelease, CancelReturns, StreamCancels
    <3>3. (\E s \in Streams : StreamBegin(s) \/ SpawnThrows(s) \/ ClientCut(s) \/ StreamProvides(s))
          => \A c \in Callers : call'[c] = "notify" => call[c] = "notify"
      BY <1>1, <3>2
    <3> QED BY <1>5, <3>1, <3>3 DEF Next
  <2> QED BY <2>1, <2>2 DEF HasAsked
<1> QED BY <1>2, <1>3, <1>4, <1>5

(* Each step keeps the promise.                                             *)
LEMMA NothingPromised ==
  ASSUME UNCHANGED <<status, cancelRequested, report, Made, Taken>>
  PROVE  Promised
BY DEF Promised, Promise!promiseVars

LEMMA RowsKeepPromise ==
  ASSUME RunInv, [Next]_vars, ~QueryThread, UNCHANGED <<status, cancelRequested, report>>
  PROVE  Promised
<1>1. TakesRows /\ RowsAreMade'
  BY OthersTakeRows, RowsAreMadeStep DEF RunInv
<1>2. UNCHANGED Made
  BY <1>1 DEF TakesRows, Made, Unemitted
<1>3. Taken \in Nat /\ Taken' \in Nat /\ Taken' >= Taken
  BY <1>1 DEF TakesRows, Taken
<1>4. Taken' <= Made
  <2>1. Made \in Nat
    <3>1. emitted \in Nat /\ wpc = "account" => Head(job.out).rows \in Nat
      BY HeadEvent DEF RunInv
    <3>2. emitted \in Nat
      BY DEF RunInv, SessionInv, DataInv, WorkerTypes
    <3> QED BY <3>1, <3>2 DEF Made
  <2>2. AllRows(sent') \in Nat /\ Rows(queue') \in Nat /\ AllRows(sent') + Rows(queue') <= Made
    BY <1>1, <1>2 DEF TakesRows, RowsAreMade
  <2>3. Taken' = AllRows(sent')
    BY DEF Taken
  <2> QED BY <2>1, <2>2, <2>3
<1>5. CASE Taken' = Taken
  BY <1>2, <1>5, NothingPromised
<1>6. CASE Taken' # Taken
  <2>1. Taken' > Taken
    BY <1>3, <1>6
  <2> QED BY <1>2, <1>3, <1>4, <2>1 DEF Promised, Promise!RunNext, Promise!Takes
<1> QED BY <1>5, <1>6

LEMMA PushKeepsPromise ==
  ASSUME RunInv, Push
  PROVE  Promised
<1>1. /\ UNCHANGED Taken /\ Made \in Nat /\ Made' \in Nat /\ Made' >= Made /\ (RowLimit > 0 => Made' <= RowLimit)
  BY PushMakes DEF RunInv
<1>2. UNCHANGED <<status, report, cancelRequested>> /\ wpc = "push"
  BY QueryThreadFrame DEF QueryThread, Push, GoWorker, StatusFrame, WorkerFrame
<1>3. status \in {"Running", "Canceled"}
  BY <1>2 DEF RunInv, SessionInv, StatusInv, StartInv, WasBegun
<1>4. CASE Made' = Made
  BY <1>1, <1>2, <1>4, NothingPromised
<1>5. CASE Made' # Made
  <2>1. Made' > Made
    BY <1>1, <1>5
  <2> QED BY <1>1, <1>2, <1>3, <2>1 DEF Promised, Promise!RunNext, Promise!Makes
<1> QED BY <1>4, <1>5

(* The four ends and the report of the query thread.                        *)
LEMMA FinishKeepsPromise ==
  ASSUME RunInv, Finishes
  PROVE  Promised
<1>1. QueryThread /\ ~Push
  BY DEF Finishes, QueryThread, FinishError, FinishCanceled, FinishLimit, FinishOk, Finish, Push, GoWorker
<1>2. UNCHANGED <<Made, Taken>> /\ UNCHANGED <<cancelRequested, report>> /\ started /\ wpc # "off"
  BY <1>1, ThreadKeepsRows, QueryThreadFrame
  DEF Finishes, FinishError, FinishCanceled, FinishLimit, FinishOk, Finish, WorkerFrame, RunInv, SessionInv, StartInv
<1>3. wpc \in {"error_set", "fin_cancel", "fin_limit", "fin_ok"}
  BY DEF Finishes, FinishError, FinishCanceled, FinishLimit, FinishOk, Finish, GoWorker
<1>4. status \in {"Running", "Canceled"} /\ (status = "Canceled" => cancelRequested)
  BY <1>2, <1>3 DEF RunInv, SessionInv, StatusInv, WasBegun
<1>5. status = "Running" => report = "none"
  BY <1>2 DEF RunInv, ReportInv, ReportMatches, NeverRuns, SessionInv, DataInv, WorkerTypes, Terminal
<1>6. wpc = "fin_cancel" => cancelRequested
  BY DEF RunInv, SessionInv, StatusInv, MessageInv
<1>7. wpc = "fin_limit" => RowLimit > 0 /\ Made = RowLimit
  <2>1. wpc = "fin_limit" => RowLimit > 0 /\ emitted = RowLimit
    BY DEF RunInv, LimitExists, SessionInv, DataInv, CountInv
  <2> QED BY <2>1, SessionAssumption DEF Made
<1>8. CASE UNCHANGED status
  BY <1>2, <1>8, NothingPromised
<1>9. CASE status = "Canceled" /\ status' # status
  <2>1. status' = "ResultLimitReached" /\ wpc = "fin_limit"
    BY <1>9 DEF Finishes, FinishError, FinishCanceled, FinishLimit, FinishOk, Finish, GoWorker
  <2> QED BY <1>2, <1>7, <1>9, <2>1 DEF Promised, Promise!RunNext, Promise!LimitStands, Promise!AtItsLimit
<1>10. CASE status = "Running" /\ status' # status
  <2>1. \E end \in {"Finished", "Error", "Canceled", "ResultLimitReached"} :
          /\ status' = end
          /\ end = "Canceled" => cancelRequested
          /\ end = "Error" => ~cancelRequested
          /\ end = "ResultLimitReached" => wpc = "fin_limit"
    BY <1>6, <1>10 DEF Finishes, FinishError, FinishCanceled, FinishLimit, FinishOk, Finish, GoWorker
  <2> QED BY <1>2, <1>5, <1>7, <1>10, <2>1
      DEF Promised, Promise!RunNext, Promise!Stops, Promise!AtItsLimit, Promise!Ends
<1> QED BY <1>4, <1>8, <1>9, <1>10

LEMMA NotifyKeepsPromise ==
  ASSUME RunInv, WorkerNotify
  PROVE  Promised
<1>1. QueryThread /\ ~Push
  BY DEF QueryThread, WorkerNotify, Push, GoWorker
<1>2. UNCHANGED <<Made, Taken>> /\ UNCHANGED <<cancelRequested, status>>
  BY <1>1, ThreadKeepsRows, QueryThreadFrame DEF WorkerNotify, WorkerFrame, RunInv
<1>3. report' = (IF report = "none" THEN job.final ELSE report) /\ job.final = status /\ wpc = "notify"
  BY DEF WorkerNotify, GoWorker, Notify, RunInv, ReportInv, NoticesMatch
<1>4. job.final \in Terminal
  BY DEF RunInv, SessionInv, DataInv, WorkerTypes, ThreadJob
<1>5. CASE report # "none"
  BY <1>2, <1>3, <1>5, NothingPromised
<1>6. CASE report = "none"
  <2>1. Promise!Tells(status)
    BY <1>2, <1>3, <1>6 DEF Promise!Tells
  <2>2. status \in Promise!Ends
    BY <1>3, <1>4 DEF Terminal, Promise!Ends
  <2> QED BY <2>1, <2>2 DEF Promised, Promise!RunNext
<1> QED BY <1>5, <1>6

(* A report of a cancel.                                                    *)
LEMMA CanceledIsTold ==
  ASSUME UNCHANGED <<status, cancelRequested, Made, Taken>>, Notify("Canceled"), cancelRequested,
         status \in {"Created", "Running", "Canceled", "ResultLimitReached"}
  PROVE  Promised
<1>1. report' = IF report = "none" THEN "Canceled" ELSE report
  BY DEF Notify
<1>2. CASE report # "none"
  BY <1>1, <1>2, NothingPromised
<1>3. CASE report = "none"
  <2>1. Promise!Tells("Canceled")
    BY <1>1, <1>3 DEF Promise!Tells
  <2>2. "Canceled" \in Promise!Ends
    BY DEF Promise!Ends
  <2> QED BY <2>1, <2>2 DEF Promised, Promise!RunNext
<1> QED BY <1>2, <1>3

LEMMA CanceledIsState ==
  ASSUME UNCHANGED <<cancelRequested, report, Made, Taken>>, cancelRequested,
         status \in {"Created", "Running", "Canceled"}, status' = "Canceled"
  PROVE  Promised
<1>1. CASE status = "Canceled"
  BY <1>1, NothingPromised
<1>2. CASE status # "Canceled"
  <2>1. Promise!Stops("Canceled")
    BY <1>2 DEF Promise!Stops
  <2>2. "Canceled" \in Promise!Ends
    BY DEF Promise!Ends
  <2> QED BY <2>1, <2>2 DEF Promised, Promise!RunNext
<1> QED BY <1>1, <1>2

(* request_cancel.                                                          *)
LEMMA CancelKeepsPromise ==
  ASSUME RunInv, NEW c \in Callers, CancelStep(c)
  PROVE  Promised
<1>1. UNCHANGED <<Made, Taken>>
  BY DEF CancelStep, CancelFlag, CancelLock, CancelNotify, resultVars, workerVars, streamVars, Made, Taken
<1>2. CASE CancelFlag(c)
  <2>1. cancelRequested' = TRUE /\ UNCHANGED <<status, report>>
    BY <1>2 DEF CancelFlag
  <2>2. CASE cancelRequested
    BY <1>1, <2>1, <2>2 DEF Promised, Promise!promiseVars, RunInv, SessionInv, FlagsOk
  <2>3. CASE ~cancelRequested
    BY <1>1, <2>1, <2>3 DEF Promised, Promise!RunNext, Promise!IsAsked
  <2> QED BY <2>2, <2>3
<1>3. CASE CancelLock(c)
  <2>1. cancelRequested /\ UNCHANGED <<cancelRequested, report>>
    BY <1>3 DEF CancelLock, RunInv, SessionInv, StatusInv
  <2>2. UNCHANGED status \/ (status \in {"Created", "Running"} /\ status' = "Canceled")
    BY <1>3 DEF CancelLock
  <2> QED BY <1>1, <2>1, <2>2, NothingPromised, CanceledIsState
<1>4. CASE CancelNotify(c)
  <2>1. UNCHANGED <<status, cancelRequested>> /\ Notify("Canceled") /\ call[c] = "notify"
    BY <1>4 DEF CancelNotify
  <2>2. cancelRequested /\ status \in {"Canceled", "ResultLimitReached"}
    BY <2>1 DEF RunInv, HasAsked, ReportInv, NoticesMatch
  <2> QED BY <1>1, <2>1, <2>2, CanceledIsTold
<1> QED BY <1>2, <1>3, <1>4 DEF CancelStep

(* QuerySession::start.                                                     *)
LEMMA StartKeepsPromise ==
  ASSUME RunInv, NEW s \in Streams, Start(s) \/ StartCheck(s)
  PROVE  Promised
<1>1. UNCHANGED <<Made, Taken, cancelRequested>>
  BY DEF Start, StartCheck, resultVars, workerVars, Made, Taken
<1>2. CASE Start(s)
  <2>1. UNCHANGED report /\ status' = IF started THEN status ELSE IF cancelRequested THEN "Canceled" ELSE "Running"
    BY <1>2 DEF Start
  <2>2. CASE started
    BY <1>1, <2>1, <2>2, NothingPromised
  <2>3. CASE ~started
    <3>1. status \in {"Created", "Canceled"} /\ (status = "Canceled" => cancelRequested)
      BY <2>3 DEF RunInv, SessionInv, StatusInv
    <3>2. CASE cancelRequested
      BY <1>1, <2>1, <2>3, <3>1, <3>2, CanceledIsState
    <3>3. CASE ~cancelRequested
      <4>1. status = "Created" /\ status' = "Running"
        BY <2>1, <2>3, <3>1, <3>3
      <4>2. report = "none"
        BY <2>3, <4>1 DEF RunInv, ReportInv, ReportMatches, NeverRuns, SessionInv, DataInv, WorkerTypes, Terminal
      <4> QED BY <1>1, <2>1, <3>3, <4>1, <4>2 DEF Promised, Promise!RunNext, Promise!Runs
    <3> QED BY <3>2, <3>3
  <2> QED BY <2>2, <2>3
<1>3. CASE StartCheck(s)
  <2>1. /\ UNCHANGED status /\ (IF cancelRequested THEN Notify("Canceled") ELSE UNCHANGED report)
        /\ status \in {"Created", "Running", "Canceled"}
    BY <1>3 DEF StartCheck, GoStream, RunInv, SessionInv, StartInv, StatusInv
  <2> QED BY <1>1, <2>1, NothingPromised, CanceledIsTold
<1> QED BY <1>2, <1>3

LEMMA PromiseStep == ASSUME RunInv, [Next]_vars PROVE Promised
<1>1. CASE QueryThread
  <2>1. CASE Push
    BY <2>1, PushKeepsPromise
  <2>2. CASE Finishes \/ WorkerNotify
    BY <2>2, FinishKeepsPromise, NotifyKeepsPromise
  <2>3. CASE ~Push /\ ~Finishes /\ ~WorkerNotify
    BY <1>1, <2>3, ThreadKeepsRows, QuietThread, NothingPromised DEF RunInv
  <2> QED BY <2>1, <2>2, <2>3
<1>2. CASE (\E c \in Callers : CancelStep(c)) \/ (\E s \in Streams : Start(s) \/ StartCheck(s))
  BY <1>2, CancelKeepsPromise, StartKeepsPromise
<1>3. CASE ~QueryThread /\ (\A c \in Callers : ~CancelStep(c)) /\ \A s \in Streams : ~Start(s) /\ ~StartCheck(s)
  BY <1>3, QuietLife, RowsKeepPromise
<1> QED BY <1>1, <1>2, <1>3

LEMMA RunInvStep == ASSUME RunInv, [Next]_vars PROVE RunInv'
<1>1. SessionInv' /\ ReportInv' /\ BatchInv' /\ AccountInv'
  BY SessionStep, ReportStep, BatchStep, AccountInvStep DEF RunInv
<1>2. RowsAreMade' /\ WasBegun' /\ LimitExists' /\ HasAsked'
  BY RowsAreMadeStep, WasBegunStep, LimitExistsStep, HasAskedStep DEF RunInv
<1> QED BY <1>1, <1>2 DEF RunInv

LEMMA RunStarts == Init => RunInv /\ Promise!RunInit
<1> SUFFICES ASSUME Init PROVE RunInv /\ Promise!RunInit
  OBVIOUS
<1>1. SessionInv /\ ReportInv /\ BatchInv /\ AccountInv
  <2>1. ReportInv
    BY DEF Init, ReportInv, ReportMatches, NoticesMatch
  <2> QED BY <2>1, SessionInit, ErrorInit, AccountInit DEF ErrorInv
<1>2. /\ queue = <<>> /\ emitted = 0 /\ wpc = "off" /\ started = FALSE /\ status = "Created" /\ cancelRequested = FALSE
      /\ report = "none" /\ call = [c \in Callers |-> "idle"]
      /\ \A s \in Streams : sent[s].log = <<>> /\ sent[s].batch = <<>>
  BY DEF Init
<1>3. Made = 0 /\ AllRows(sent) = 0 /\ Rows(<<>>) = 0
  BY <1>1, <1>2, LogsOfTheStreams, NothingHeld, NothingCounts DEF Made
<1>4. RowsAreMade /\ WasBegun /\ LimitExists /\ HasAsked
  BY <1>2, <1>3 DEF RowsAreMade, WasBegun, LimitExists, HasAsked
<1>5. Promise!RunInit
  BY <1>2, <1>3 DEF Promise!RunInit, Taken
<1> QED BY <1>1, <1>4, <1>5 DEF RunInv

(* run_query, start, request_cancel and the streams, with their threads, the *)
(* queue, retries and failures, implement the promise of a run: one start,   *)
(* one end that the registry is told, no row outside of the run, beyond the  *)
(* limit or out of nothing, for any number of streams, callers and rows.     *)
THEOREM RunKeepsItsPromise == Spec => KeepsPromise
<1>1. RunInv /\ [Next]_vars => RunInv' /\ [Promise!RunNext]_(Promise!promiseVars)
  BY RunInvStep, PromiseStep DEF Promised
<1> QED BY RunStarts, <1>1, PTL DEF Spec, KeepsPromise, Promise!RunSpec
=============================================================================
