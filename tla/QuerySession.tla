---------------------------- MODULE QuerySession ----------------------------
(***************************************************************************)
(* One query run of the dashboard (src/src/query_session.cpp) and the HTTP *)
(* requests that read it (src/src/api_query_stream.cpp).                   *)
(*                                                                         *)
(* Five kinds of threads share a session: the HTTP thread of each stream   *)
(* request, the query thread that a stream starts, the HTTP thread of the  *)
(* cancel request, the thread that stops the server, and the reaper.  A    *)
(* step of this module is what one of them does under one hold of the      *)
(* mutex of the session (or of the server), or on one atomic flag.         *)
(*                                                                         *)
(* The blocks that ClickHouse sends are encoded by a second thread from    *)
(* the second block on.  It is joined before the query thread looks at how *)
(* the statement ended, so the events it pushes are pushed here by the     *)
(* query thread.  Ticks and samples carry no control and are left out.     *)
(*                                                                         *)
(* Some definitions follow a form of themselves with a bug that the code    *)
(* could have (RetryWithRows before MayRetry): no action uses it, it is     *)
(* there to show that the properties tell the two apart.                   *)
(***************************************************************************)
EXTENDS Naturals, SequencesExt

CONSTANTS
  Streams,        \* GET /api/query/stream requests for this query id
  Actors,         \* who else acts on the session, of {"api", "stop", "reaper"}
  Kinds,          \* what the SQL text is, of {"select", "command"}
  Plans,          \* how a select is planned, of {"direct", "retry", "described"}
  RowLimit,       \* query.result_preview_row_limit; 0 is no limit
  QueueBytes,     \* query.sse_queue_max_bytes
  BatchEvents,    \* query.sse_write_batch_events
  BlockRows,      \* row counts that a block of ClickHouse can have
  MaxBlocks,      \* bound of the model: blocks of one attempt
  HasCeiling,     \* the grant of the person has ceilings
  ThreadMayFail   \* the system can refuse a thread

ASSUME SessionAssumption ==
  /\ Actors \subseteq {"api", "stop", "reaper"}
  /\ Kinds \subseteq {"select", "command"} /\ Plans \subseteq {"direct", "retry", "described"}
  /\ RowLimit \in Nat /\ QueueBytes \in Nat /\ MaxBlocks \in Nat
  /\ BatchEvents \in Nat \ {0}
  /\ BlockRows \subseteq Nat
  /\ HasCeiling \in BOOLEAN /\ ThreadMayFail \in BOOLEAN
  /\ IsFiniteSet(Streams) /\ Streams \cap {"api", "stop", "reaper"} = {}

VARIABLES
  started,          \* started_
  cancelRequested,  \* cancel_requested_
  status,           \* status_
  report,           \* what terminal_status_observer_ was told
  attached,         \* stream_attached_
  queue,            \* sse_chunks_
  emitted,          \* result_rows_emitted_
  wpc,              \* where the query thread is
  job,              \* the locals of run_query
  inTable,          \* Server::sessions_ has the session
  stopping,         \* Server::stopping_
  call,             \* where each caller of request_cancel is
  spc,              \* where the thread of each stream is
  back,             \* where a stream goes on after request_cancel
  mayContinue,      \* query_may_continue of the last pop
  open,             \* the client of the stream still reads
  sent              \* what was written to the stream

lifeVars   == <<started, cancelRequested, status, report>>
resultVars == <<queue, emitted>>
workerVars == <<wpc, job>>
serverVars == <<inTable, stopping>>
streamVars == <<spc, back, mayContinue, open, sent>>
vars       == <<lifeVars, attached, resultVars, workerVars, serverVars, call, streamVars>>

Terminal  == {"Finished", "Error", "Canceled", "ResultLimitReached"}
Statuses  == {"Created", "Running"} \cup Terminal
Callers   == Streams \cup {"api", "stop", "reaper"}
Messages  == {"none", "canceled", "breach", "compat", "error"}
Event     == [kind : {"result_meta", "result_rows", "error"}, rows : Nat, attempt : Nat]

(* queued_sse_bytes_: an event has one byte of frame and one for each row.  *)
Size(e)   == 1 + e.rows
Bytes(q)  == SumFunction([i \in DOMAIN q |-> Size(q[i])])

ThreadJob ==
  [kind : {"select", "command"}, attempt : Nat, retried : BOOLEAN, mayRetry : BOOLEAN,
   described : BOOLEAN, useCache : BOOLEAN, planCached : BOOLEAN, metaSent : BOOLEAN,
   received : Nat, returned : Nat, blocks : Nat, limit : BOOLEAN, msg : Messages,
   out : Seq(Event), next : {"receive", "fin_ok", "error_set"}, final : Terminal]

NoJob ==
  [kind |-> "select", attempt |-> 0, retried |-> FALSE, mayRetry |-> FALSE, described |-> FALSE,
   useCache |-> TRUE, planCached |-> FALSE, metaSent |-> FALSE, received |-> 0, returned |-> 0,
   blocks |-> 0, limit |-> FALSE, msg |-> "none", out |-> <<>>, next |-> "receive", final |-> "Finished"]

StreamLog ==
  [metas : Nat, batch : Seq(Event), log : Seq(Event), stopErrors : Nat, termSent : BOOLEAN,
   done : Terminal \cup {"none"}, rowsTold : Nat, drained : BOOLEAN]

TypeOK ==
  /\ started \in BOOLEAN /\ cancelRequested \in BOOLEAN /\ attached \in BOOLEAN
  /\ status \in Statuses
  /\ report \in Terminal \cup {"none"}
  /\ queue \in Seq(Event) /\ emitted \in Nat
  /\ wpc \in {"off", "begin", "acquire", "command", "attempt", "receive", "push", "account", "failed",
              "catch", "error_set", "fin_ok", "fin_cancel", "fin_limit", "notify", "ended"}
  /\ job \in ThreadJob
  /\ inTable \in BOOLEAN /\ stopping \in BOOLEAN
  /\ call \in [Callers -> {"idle", "sweep", "erase", "flag", "lock", "notify", "done"}]
  /\ spc \in [Streams -> {"idle", "routed", "found", "start", "start_check", "spawn", "meta", "pop", "write", "snap",
                          "cancelling", "erase", "release", "erase_again", "end", "refused", "failed"}]
  /\ back \in [Streams -> {"meta", "erase", "release", "erase_again"}]
  /\ mayContinue \in [Streams -> BOOLEAN]
  /\ open \in [Streams -> BOOLEAN]
  /\ sent \in [Streams -> StreamLog]

-----------------------------------------------------------------------------
(* The session that POST /api/query/run put into the table.  The DESCRIBE   *)
(* mode and the SQL text decide whether the first attempt reads a plan, and *)
(* whether a failed direct attempt may be retried with one.                 *)
Init ==
  /\ started = FALSE /\ cancelRequested = FALSE /\ status = "Created" /\ report = "none"
  /\ attached = FALSE
  /\ queue = <<>> /\ emitted = 0
  /\ wpc = "off"
  /\ \E kind \in Kinds, plan \in Plans :
        /\ kind = "command" => plan = "direct"
        /\ job = [NoJob EXCEPT !.kind = kind, !.mayRetry = plan = "retry", !.described = plan = "described"]
  /\ inTable = TRUE /\ stopping = FALSE
  /\ call = [c \in Callers |-> "idle"]
  /\ spc = [s \in Streams |-> "idle"]
  /\ back = [s \in Streams |-> "release"]
  /\ mayContinue = [s \in Streams |-> TRUE]
  /\ open = [s \in Streams |-> TRUE]
  /\ sent = [s \in Streams |-> [metas |-> 0, batch |-> <<>>, log |-> <<>>, stopErrors |-> 0, termSent |-> FALSE,
                                done |-> "none", rowsTold |-> 0, drained |-> FALSE]]

(* A status that ends a run: the same list in three places of the code.      *)
IsTerminalNoError(st) == st \in {"Finished", "Canceled", "ResultLimitReached"}
IsTerminal(st)        == st \in {"Finished", "Error", "Canceled", "ResultLimitReached"}

(* notify_terminal_status: the first caller tells the observer, and only it. *)
Notify(s) == report' = IF report = "none" THEN s ELSE report

-----------------------------------------------------------------------------
(* request_cancel, run by any caller in three steps: the flag, the status   *)
(* under the mutex, the observer.                                           *)
CancelFlag(c) ==
  /\ call[c] = "flag"
  /\ cancelRequested' = TRUE
  /\ call' = [call EXCEPT ![c] = "lock"]
  /\ UNCHANGED <<started, status, report, attached, resultVars, workerVars, serverVars, streamVars>>

CancelLockSilent(c) ==
  /\ call[c] = "lock"
  /\ status' = IF status \in {"Created", "Running"} THEN "Canceled" ELSE status
  /\ call' = [call EXCEPT ![c] = "done"]
  /\ UNCHANGED <<started, cancelRequested, report, attached, resultVars, workerVars, serverVars, streamVars>>

CancelLockAlways(c) ==
  /\ call[c] = "lock"
  /\ status' = "Canceled"
  /\ call' = [call EXCEPT ![c] = "notify"]
  /\ UNCHANGED <<started, cancelRequested, report, attached, resultVars, workerVars, serverVars, streamVars>>

CancelLock(c) ==
  /\ call[c] = "lock"
  /\ IF status \in {"Created", "Running"}
       THEN status' = "Canceled" /\ call' = [call EXCEPT ![c] = "notify"]
       ELSE status' = status /\ call' = [call EXCEPT ![c] = "done"]
  /\ UNCHANGED <<started, cancelRequested, report, attached, resultVars, workerVars, serverVars, streamVars>>

CancelNotify(c) ==
  /\ call[c] = "notify"
  /\ Notify("Canceled")
  /\ call' = [call EXCEPT ![c] = "done"]
  /\ UNCHANGED <<started, cancelRequested, status, attached, resultVars, workerVars, serverVars, streamVars>>

CancelStep(c) == CancelFlag(c) \/ CancelLock(c) \/ CancelNotify(c)

(* POST /api/query/cancel: a session that left the table is only killed in  *)
(* ClickHouse.                                                              *)
ApiCancel ==
  /\ "api" \in Actors
  /\ call["api"] = "idle"
  /\ call' = [call EXCEPT !["api"] = IF inTable THEN "flag" ELSE "done"]
  /\ UNCHANGED <<lifeVars, attached, resultVars, workerVars, serverVars, streamVars>>

(* Server::stop: the flag first, then the sessions of the table.            *)
StopBegin ==
  /\ "stop" \in Actors
  /\ ~stopping
  /\ stopping' = TRUE
  /\ call' = [call EXCEPT !["stop"] = "sweep"]
  /\ UNCHANGED <<lifeVars, attached, resultVars, workerVars, inTable, streamVars>>

StopSweepUnread ==
  /\ call["stop"] = "sweep"
  /\ call' = [call EXCEPT !["stop"] = IF inTable /\ ~attached THEN "flag" ELSE "done"]
  /\ UNCHANGED <<lifeVars, attached, resultVars, workerVars, serverVars, streamVars>>

StopSweep ==
  /\ call["stop"] = "sweep"
  /\ call' = [call EXCEPT !["stop"] = IF inTable THEN "flag" ELSE "done"]
  /\ UNCHANGED <<lifeVars, attached, resultVars, workerVars, serverVars, streamVars>>

(* Server::reap_sessions_once: should_reap under the mutex of the session   *)
(* (its ages are free here), the table under the mutex of the server, then  *)
(* a session that is not terminal is cancelled.                             *)
ShouldReapUnended == ~attached /\ ~IsTerminal(status)
ShouldReapEnded   == ~attached /\ IsTerminal(status)
ShouldReap        == ~attached

ReaperPick ==
  /\ "reaper" \in Actors
  /\ call["reaper"] = "idle"
  /\ inTable
  /\ ShouldReap
  /\ call' = [call EXCEPT !["reaper"] = "erase"]
  /\ UNCHANGED <<lifeVars, attached, resultVars, workerVars, serverVars, streamVars>>

ReaperErase ==
  /\ call["reaper"] = "erase"
  /\ inTable' = FALSE
  /\ call' = [call EXCEPT !["reaper"] = IF IsTerminal(status) THEN "done" ELSE "flag"]
  /\ UNCHANGED <<lifeVars, attached, resultVars, workerVars, stopping, streamVars>>

-----------------------------------------------------------------------------
(* handle_query_stream and QuerySession::start.                             *)
GoStream(s, from, to) == spc[s] = from /\ spc' = [spc EXCEPT ![s] = to]

(* The thread of the stream runs request_cancel, then goes on at `next`.    *)
StreamCancels(s, next) ==
  /\ spc' = [spc EXCEPT ![s] = "cancelling"]
  /\ back' = [back EXCEPT ![s] = next]
  /\ call' = [call EXCEPT ![s] = "flag"]

CancelReturns(s) ==
  /\ call[s] = "done"
  /\ GoStream(s, "cancelling", back[s])
  /\ call' = [call EXCEPT ![s] = "idle"]
  /\ UNCHANGED <<lifeVars, attached, resultVars, workerVars, serverVars, back, mayContinue, open, sent>>

(* A request that comes while the server stops is refused before routing.   *)
StreamRoute(s) ==
  /\ GoStream(s, "idle", IF stopping THEN "refused" ELSE "routed")
  /\ UNCHANGED <<lifeVars, attached, resultVars, workerVars, serverVars, call, back, mayContinue, open, sent>>

StreamFind(s) ==
  /\ GoStream(s, "routed", IF inTable THEN "found" ELSE "refused")
  /\ UNCHANGED <<lifeVars, attached, resultVars, workerVars, serverVars, call, back, mayContinue, open, sent>>

StreamAttachAlways(s) ==
  /\ GoStream(s, "found", "start")
  /\ attached' = TRUE
  /\ UNCHANGED <<lifeVars, resultVars, workerVars, serverVars, call, back, mayContinue, open, sent>>

StreamAttach(s) ==
  /\ GoStream(s, "found", IF attached THEN "refused" ELSE "start")
  /\ attached' = TRUE
  /\ UNCHANGED <<lifeVars, resultVars, workerVars, serverVars, call, back, mayContinue, open, sent>>

Start(s) ==
  /\ GoStream(s, "start", IF started THEN "meta" ELSE "start_check")
  /\ started' = TRUE
  /\ status' = IF started THEN status ELSE IF cancelRequested THEN "Canceled" ELSE "Running"
  /\ UNCHANGED <<cancelRequested, report, attached, resultVars, workerVars, serverVars, call, back, mayContinue,
                 open, sent>>

StartCheck(s) ==
  /\ GoStream(s, "start_check", IF cancelRequested THEN "meta" ELSE "spawn")
  /\ IF cancelRequested THEN Notify("Canceled") ELSE UNCHANGED report
  /\ UNCHANGED <<started, cancelRequested, status, attached, resultVars, workerVars, serverVars, call, back,
                 mayContinue, open, sent>>

(* The worker group of the server is open: it closes in the destructor of    *)
(* the server, after the HTTP library has joined every thread of a request.  *)
Spawn(s) ==
  /\ GoStream(s, "spawn", "meta")
  /\ wpc' = "begin"
  /\ UNCHANGED <<lifeVars, attached, resultVars, job, serverVars, call, back, mayContinue, open, sent>>

(* std::thread throws: the handler ends with 500 before a content provider  *)
(* exists, so nothing will release the stream.                              *)
SpawnThrows(s) ==
  /\ ThreadMayFail
  /\ GoStream(s, "spawn", "failed")
  /\ UNCHANGED <<lifeVars, attached, resultVars, workerVars, serverVars, call, back, mayContinue, open, sent>>

StreamBegin(s) ==
  StreamRoute(s) \/ StreamFind(s) \/ StreamAttach(s) \/ Start(s) \/ StartCheck(s) \/ Spawn(s)

-----------------------------------------------------------------------------
(* The chunk provider, called again and again by the HTTP library.          *)

(* A write to a client that is gone cancels the session.                    *)
WriteFails(s) ==
  /\ ~open[s]
  /\ spc[s] \in {"meta", "write"}
  /\ StreamCancels(s, "release")
  /\ UNCHANGED <<lifeVars, attached, resultVars, workerVars, serverVars, mayContinue, open, sent>>

WriteMeta(s) ==
  /\ open[s]
  /\ GoStream(s, "meta", "pop")
  /\ sent' = [sent EXCEPT ![s].metas = @ + 1]
  /\ UNCHANGED <<lifeVars, attached, resultVars, workerVars, serverVars, call, back, mayContinue, open>>

(* wait_pop_sse_batch with something to take.  The first event is always    *)
(* taken; the byte limit of a batch can end it after any of them.           *)
PopBatch(s) ==
  /\ GoStream(s, "pop", "write")
  /\ \E n \in 1..BatchEvents :
       /\ n <= Len(queue)
       /\ sent' = [sent EXCEPT ![s].batch = SubSeq(queue, 1, n)]
       /\ queue' = SubSeq(queue, n + 1, Len(queue))
  /\ UNCHANGED <<lifeVars, attached, emitted, workerVars, serverVars, call, back, mayContinue, open>>

(* wait_pop_sse_batch after its wait: nothing came, or the session is over. *)
PopNothingEarly(s) ==
  /\ GoStream(s, "pop", "snap")
  /\ mayContinue' = [mayContinue EXCEPT ![s] = ~IsTerminal(status)]
  /\ UNCHANGED <<lifeVars, attached, resultVars, workerVars, serverVars, call, back, open, sent>>

PopNothing(s) ==
  /\ queue = <<>>
  /\ GoStream(s, "pop", "snap")
  /\ mayContinue' = [mayContinue EXCEPT ![s] = ~IsTerminal(status)]
  /\ UNCHANGED <<lifeVars, attached, resultVars, workerVars, serverVars, call, back, open, sent>>

WriteBatch(s) ==
  /\ open[s]
  /\ GoStream(s, "write", "pop")
  /\ sent' = [sent EXCEPT ![s].log = @ \o sent[s].batch, ![s].batch = <<>>]
  /\ UNCHANGED <<lifeVars, attached, resultVars, workerVars, serverVars, call, back, mayContinue, open>>

(* The pop had nothing.  The status is read again, after the mutex was      *)
(* given back, and a terminal one ends the stream.                          *)
StreamOver(s) == ~mayContinue[s] \/ IsTerminal(status)

WriteDone(s) ==
  /\ StreamOver(s)
  /\ GoStream(s, "snap", "erase")
  /\ open[s]
  /\ sent' = [sent EXCEPT ![s].termSent = TRUE, ![s].done = status, ![s].rowsTold = emitted,
                          ![s].drained = ~mayContinue[s],
                          ![s].stopErrors = IF stopping /\ status = "Canceled" THEN 1 ELSE 0]
  /\ UNCHANGED <<lifeVars, attached, resultVars, workerVars, serverVars, call, back, mayContinue, open>>

WriteDoneFails(s) ==
  /\ StreamOver(s)
  /\ spc[s] = "snap"
  /\ ~open[s]
  /\ sent' = [sent EXCEPT ![s].termSent = TRUE]
  /\ StreamCancels(s, "erase")
  /\ UNCHANGED <<lifeVars, attached, resultVars, workerVars, serverVars, mayContinue, open>>

WriteTick(s) ==
  /\ ~StreamOver(s)
  /\ spc[s] = "snap"
  /\ IF open[s] THEN GoStream(s, "snap", "pop") /\ UNCHANGED <<back, call>>
                ELSE StreamCancels(s, "release")
  /\ UNCHANGED <<lifeVars, attached, resultVars, workerVars, serverVars, mayContinue, open, sent>>

EraseAtDone(s) ==
  /\ GoStream(s, "erase", "release")
  /\ inTable' = FALSE
  /\ UNCHANGED <<lifeVars, attached, resultVars, workerVars, stopping, call, back,
                 mayContinue, open, sent>>

(* The client goes away; the library notices it at a write or between two   *)
(* calls of the provider.                                                   *)
ClientCut(s) ==
  /\ open[s]
  /\ spc[s] \in {"meta", "pop", "write", "snap"}
  /\ open' = [open EXCEPT ![s] = FALSE]
  /\ UNCHANGED <<lifeVars, attached, resultVars, workerVars, serverVars, call, spc, back, mayContinue, sent>>

CutNoticed(s) ==
  /\ ~open[s]
  /\ GoStream(s, "pop", "release")
  /\ UNCHANGED <<lifeVars, attached, resultVars, workerVars, serverVars, call, back, mayContinue, open, sent>>

(* The release callback of the response.                                    *)
Release(s) ==
  /\ spc[s] = "release"
  /\ attached' = FALSE
  /\ IF sent[s].termSent THEN GoStream(s, "release", "erase_again") /\ UNCHANGED <<back, call>>
                         ELSE StreamCancels(s, "erase_again")
  /\ UNCHANGED <<lifeVars, resultVars, workerVars, serverVars, mayContinue, open, sent>>

EraseAtRelease(s) ==
  /\ GoStream(s, "erase_again", "end")
  /\ inTable' = FALSE
  /\ UNCHANGED <<lifeVars, attached, resultVars, workerVars, stopping, call, back,
                 mayContinue, open, sent>>

StreamProvides(s) ==
  \/ WriteFails(s) \/ WriteMeta(s) \/ PopBatch(s) \/ PopNothing(s) \/ WriteBatch(s)
  \/ WriteDone(s) \/ WriteDoneFails(s) \/ WriteTick(s) \/ EraseAtDone(s)
  \/ CutNoticed(s) \/ Release(s) \/ EraseAtRelease(s) \/ CancelReturns(s)

-----------------------------------------------------------------------------
(* run_query, the query thread.                                             *)
GoWorker(from, to) == wpc = from /\ wpc' = to

(* What every step of the query thread leaves alone.                        *)
WorkerFrame == UNCHANGED <<started, cancelRequested, attached, serverVars, call, streamVars>>
StatusFrame == UNCHANGED <<status, report>>

Fails(message) ==
  /\ wpc' = "failed"
  /\ job' = [job EXCEPT !.msg = message, !.out = <<>>]

Begin ==
  /\ GoWorker("begin", IF cancelRequested THEN "fin_cancel" ELSE "acquire")
  /\ UNCHANGED <<job, queue, emitted>> /\ StatusFrame /\ WorkerFrame

(* The connection of the pool and the USE statement.                        *)
Acquire ==
  /\ wpc = "acquire"
  /\ \/ /\ wpc' = IF job.kind = "select" THEN "attempt" ELSE "command"
        /\ UNCHANGED job
     \/ /\ wpc' = "catch"
        /\ job' = [job EXCEPT !.msg = "error"]
  /\ UNCHANGED <<queue, emitted>> /\ StatusFrame /\ WorkerFrame

(* A statement that is not a SELECT: it answers one row "OK".               *)
Command ==
  /\ wpc = "command"
  /\ \/ /\ ~cancelRequested
        /\ wpc' = "push"
        /\ job' = [job EXCEPT !.attempt = 1, !.next = "fin_ok",
                     !.out = <<[kind |-> "result_meta", rows |-> 0, attempt |-> 1],
                               [kind |-> "result_rows", rows |-> 1, attempt |-> 1]>>]
     \/ \E m \in {"error"} \cup (IF HasCeiling THEN {"breach"} ELSE {})
                           \cup (IF cancelRequested THEN {"canceled"} ELSE {}) :
          wpc' = "catch" /\ job' = [job EXCEPT !.msg = m]
  /\ UNCHANGED <<queue, emitted>> /\ StatusFrame /\ WorkerFrame

(* execute_select_attempt up to the statement: the plan of a described      *)
(* attempt comes from the cache or from a DESCRIBE, which can fail.         *)
Attempt ==
  /\ wpc = "attempt"
  /\ \/ cancelRequested /\ Fails("canceled")
     \/ job.described /\ Fails("error")
     \/ /\ ~cancelRequested
        /\ wpc' = "receive"
        /\ \E cached \in BOOLEAN :
             /\ cached => job.described /\ job.useCache
             /\ job' = [job EXCEPT !.attempt = @ + 1, !.planCached = cached]
  /\ UNCHANGED <<queue, emitted>> /\ StatusFrame /\ WorkerFrame

(* One block: past the limit it only ends the result, otherwise its events  *)
(* are encoded.  A block of no rows is the header of the result.            *)
AtLimit == RowLimit > 0 /\ job.received >= RowLimit

ShownWhole(n) == n
Shown(n)      == IF RowLimit > 0 /\ n > RowLimit - job.returned THEN RowLimit - job.returned ELSE n

(* The rows of a block can need a second event.                             *)
MetaEvent     == IF job.metaSent THEN <<>> ELSE <<[kind |-> "result_meta", rows |-> 0, attempt |-> job.attempt]>>
RowEvent(q, n) == IF n = 0 THEN q ELSE Append(q, [kind |-> "result_rows", rows |-> n, attempt |-> job.attempt])
BlockEvents(n, k) == RowEvent(RowEvent(MetaEvent, k), n - k)

Block ==
  /\ wpc = "receive"
  /\ ~job.limit /\ ~cancelRequested
  /\ job.blocks < MaxBlocks
  /\ \E n \in BlockRows \cup {0} :
       IF n > 0 /\ AtLimit
         THEN /\ job' = [job EXCEPT !.limit = TRUE]
              /\ UNCHANGED wpc
         ELSE \E k \in 0..Shown(n) :
              /\ k = 0 => Shown(n) = 0
              /\ job' = [job EXCEPT !.blocks = @ + 1, !.metaSent = TRUE, !.received = @ + n,
                           !.out = BlockEvents(Shown(n), k), !.next = "receive",
                           !.limit = RowLimit > 0 /\ job.received + n > RowLimit]
              /\ wpc' = IF BlockEvents(Shown(n), k) = <<>> THEN "receive" ELSE "push"
  /\ UNCHANGED <<queue, emitted>> /\ StatusFrame /\ WorkerFrame

(* The statement ends, fails, or a callback sees the cancel or a ceiling.   *)
StatementEnds ==
  /\ GoWorker("receive", IF job.limit THEN "fin_limit" ELSE "fin_ok")
  /\ job' = NoJob
  /\ UNCHANGED <<queue, emitted>> /\ StatusFrame /\ WorkerFrame

StatementFails ==
  /\ wpc = "receive"
  /\ \E m \in {"compat", "error"} \cup (IF HasCeiling THEN {"breach"} ELSE {})
                                  \cup (IF cancelRequested THEN {"canceled"} ELSE {}) : Fails(m)
  /\ UNCHANGED <<queue, emitted>> /\ StatusFrame /\ WorkerFrame

(* push_sse_json_event: the wait for room, given up by a cancel, which also *)
(* drops the event.                                                         *)
HasRoomBefore(e) == queue = <<>> \/ Bytes(queue) <= QueueBytes
HasRoom(e)       == queue = <<>> \/ Bytes(queue) + Size(e) <= QueueBytes

PushAwaitsRoom ==
  /\ GoWorker("push", "account")
  /\ HasRoom(Head(job.out))
  /\ queue' = IF cancelRequested THEN queue ELSE Append(queue, Head(job.out))
  /\ job' = [job EXCEPT !.returned = @ + Head(job.out).rows]
  /\ UNCHANGED emitted /\ StatusFrame /\ WorkerFrame

Push ==
  /\ GoWorker("push", "account")
  /\ cancelRequested \/ HasRoom(Head(job.out))
  /\ queue' = IF cancelRequested THEN queue ELSE Append(queue, Head(job.out))
  /\ job' = [job EXCEPT !.returned = @ + Head(job.out).rows]
  /\ UNCHANGED emitted /\ StatusFrame /\ WorkerFrame

(* A cell or an event that is too large, after some rows of the event.      *)
EncodeFails ==
  /\ wpc = "push"
  /\ Head(job.out).kind = "result_rows" /\ job.next = "receive"
  /\ wpc' = "failed"
  /\ \E r \in 0..Head(job.out).rows :
       job' = [job EXCEPT !.msg = "error", !.returned = @ + r, !.out = <<>>]
  /\ UNCHANGED <<queue, emitted>> /\ StatusFrame /\ WorkerFrame

(* What follows the push of an event: the rows of a result event are        *)
(* counted, and the meter of the ceilings can end the run.                  *)
Account ==
  /\ wpc = "account"
  /\ emitted' = emitted + Head(job.out).rows
  /\ \/ /\ job' = [job EXCEPT !.out = Tail(@)]
        /\ wpc' = IF Len(job.out) > 1 THEN "push" ELSE job.next
     \/ /\ HasCeiling /\ job.next = "receive" /\ Head(job.out).kind = "result_rows"
        /\ Fails("breach")
  /\ UNCHANGED queue /\ StatusFrame /\ WorkerFrame

(* A failed attempt is made again once, with a plan, while no row was       *)
(* returned: a plan of the cache was stale, or the client cannot decode.    *)
RetryWithRows ==
  /\ ~job.retried
  /\ job.msg \notin {"canceled", "breach"}
  /\ ~cancelRequested
  /\ (job.described /\ job.planCached) \/ (job.mayRetry /\ job.msg = "compat")

MayRetry ==
  /\ ~job.retried
  /\ job.returned = 0
  /\ job.msg \notin {"canceled", "breach"}
  /\ ~cancelRequested
  /\ (job.described /\ job.planCached) \/ (job.mayRetry /\ job.msg = "compat")

(* ResultEventWriter::restart and the statistics that start again.          *)
RestartKeepsMeta ==
  [job EXCEPT !.retried = TRUE, !.useCache = ~job.described, !.described = TRUE, !.planCached = FALSE,
              !.received = 0, !.returned = 0, !.blocks = 0, !.limit = FALSE, !.msg = "none", !.out = <<>>]

Restart ==
  [job EXCEPT !.retried = TRUE, !.useCache = ~job.described, !.described = TRUE, !.planCached = FALSE,
              !.metaSent = FALSE, !.received = 0, !.returned = 0, !.blocks = 0, !.limit = FALSE,
              !.msg = "none", !.out = <<>>]

RetryTakesBack ==
  /\ GoWorker("failed", "attempt")
  /\ MayRetry
  /\ emitted' = emitted - job.received
  /\ job' = Restart
  /\ UNCHANGED queue /\ StatusFrame /\ WorkerFrame

Retry ==
  /\ GoWorker("failed", "attempt")
  /\ MayRetry
  /\ emitted' = 0
  /\ job' = Restart
  /\ UNCHANGED queue /\ StatusFrame /\ WorkerFrame

(* No retry, no connection for it, or the deadline of max_duration has      *)
(* passed (its thread sets a flag and kills the statement).                 *)
Rethrow ==
  /\ GoWorker("failed", "catch")
  /\ job' = [NoJob EXCEPT !.attempt = job.attempt, !.msg = IF MayRetry THEN "error" ELSE job.msg]
  /\ UNCHANGED <<queue, emitted>> /\ StatusFrame /\ WorkerFrame

(* The catch of run_query, and the first part of finish_error.              *)
Catch ==
  /\ wpc = "catch"
  /\ IF job.msg = "canceled" \/ cancelRequested
       THEN wpc' = "fin_cancel" /\ job' = NoJob
       ELSE /\ wpc' = "push"
            /\ job' = [NoJob EXCEPT !.next = "error_set",
                         !.out = <<[kind |-> "error", rows |-> 0, attempt |-> job.attempt]>>]
  /\ UNCHANGED <<queue, emitted>> /\ StatusFrame /\ WorkerFrame

(* The ends of a run: the status under the mutex, then the observer.        *)
Finish(from, s) ==
  /\ GoWorker(from, "notify")
  /\ status' = s
  /\ job' = [NoJob EXCEPT !.final = s]
  /\ UNCHANGED <<queue, emitted, report>> /\ WorkerFrame

FinishErrorByStatus == Finish("error_set", IF status = "Canceled" THEN "Canceled" ELSE "Error")
FinishError    == Finish("error_set", IF status = "Canceled" \/ cancelRequested THEN "Canceled" ELSE "Error")
FinishCanceled == Finish("fin_cancel", "Canceled")
FinishLimit    == Finish("fin_limit", "ResultLimitReached")
FinishOkAlways == Finish("fin_ok", "Finished")
FinishOk       == status # "Canceled" /\ Finish("fin_ok", "Finished")

FinishOkCanceled ==
  /\ status = "Canceled"
  /\ GoWorker("fin_ok", "ended")
  /\ job' = NoJob
  /\ UNCHANGED <<queue, emitted>> /\ StatusFrame /\ WorkerFrame

WorkerNotify ==
  /\ GoWorker("notify", "ended")
  /\ Notify(job.final)
  /\ job' = NoJob
  /\ UNCHANGED <<queue, emitted, status>> /\ WorkerFrame

QueryThread ==
  \/ Begin \/ Acquire \/ Command \/ Attempt \/ Block \/ StatementEnds \/ StatementFails
  \/ Push \/ EncodeFails \/ Account \/ Retry \/ Rethrow \/ Catch
  \/ FinishError \/ FinishCanceled \/ FinishLimit \/ FinishOk \/ FinishOkCanceled \/ WorkerNotify

-----------------------------------------------------------------------------
Next ==
  \/ QueryThread
  \/ ApiCancel \/ StopBegin \/ StopSweep \/ ReaperPick \/ ReaperErase
  \/ \E c \in Callers : CancelStep(c)
  \/ \E s \in Streams : StreamBegin(s) \/ SpawnThrows(s) \/ StreamProvides(s) \/ ClientCut(s)

Spec == Init /\ [][Next]_vars

(* Threads run.  Nothing makes a person cancel, the server stop, the client *)
(* go away, a second request come or a thread fail.  A statement need not   *)
(* end unless it is cancelled (its callbacks throw, and KILL QUERY is sent). *)
(* The reaper comes back, and the ages it waits for pass.                   *)
WorkerMoves == QueryThread /\ (wpc \in {"receive", "command"} => cancelRequested)

Fairness ==
  /\ WF_vars(WorkerMoves)
  /\ \A c \in Callers : WF_vars(CancelStep(c))
  /\ WF_vars(StopSweep)
  /\ WF_vars(ReaperPick) /\ WF_vars(ReaperErase)
  /\ \A s \in Streams : WF_vars(StreamProvides(s)) /\ WF_vars(spc[s] # "idle" /\ StreamBegin(s))

FairSpec == Spec /\ Fairness

-----------------------------------------------------------------------------
(* What the properties count.                                               *)
Rows(q)    == SumFunction([i \in DOMAIN q |-> q[i].rows])
AllRows(f) == SumFunction([s \in DOMAIN f |-> Rows(f[s].log) + Rows(f[s].batch)])
History(s) == sent[s].log \o sent[s].batch \o queue
SoleReader(s) == \A r \in Streams \ {s} : sent[r].log = <<>> /\ sent[r].batch = <<>>
Reads(s)   == spc[s] \in {"start", "start_check", "spawn", "meta", "pop", "write", "snap", "cancelling", "erase",
                          "release"} /\ ~(spc[s] = "cancelling" /\ back[s] = "erase_again")

(* The rows that were encoded into events, and those that streams took.     *)
Made  == emitted + (IF wpc = "account" THEN Head(job.out).rows ELSE 0)
Taken == AllRows(sent)

(* attach_stream and the release callback: of all stream requests for a     *)
(* run, one at most is between its attachment and its detachment, so the    *)
(* events of the queue never split between two responses that both read.    *)
OneConsumer == \A s, r \in Streams : Reads(s) /\ Reads(r) => s = r

(* While nobody cancelled, every row that was encoded is on its way: the    *)
(* rows counted for the result are exactly those written to a stream, popped *)
(* by one, or still queued, through retries, failed events and full queues. *)
(* A pop that saw the end of the run with an empty queue delivers it all:   *)
(* the client that stays has every row that `done` tells it of.  And the    *)
(* queue between them never holds more than its bytes, except for one event *)
(* that is larger than the whole queue (push_sse_json_event).               *)
EveryRowAccounted ==
  /\ ~cancelRequested =>
       AllRows(sent) + Rows(queue) = Made
  /\ \A s \in Streams : sent[s].drained /\ sent[s].done \in {"Finished", "Error", "ResultLimitReached"}
                          /\ ~cancelRequested /\ sent[s].done = status =>
       AllRows(sent) = sent[s].rowsTold
  /\ Bytes(queue) <= QueueBytes \/ Len(queue) <= 1

(* ResultEventWriter and the retry of run_query: to a single reader, every  *)
(* row of the result comes after the meta of the attempt that made it, and  *)
(* no meta of another attempt stands between them.                          *)
RowsFollowTheirMeta ==
  \A s \in Streams : SoleReader(s) =>
    \A i \in DOMAIN History(s) : History(s)[i].kind = "result_rows" =>
      \E j \in 1..(i - 1) :
        /\ History(s)[j].kind = "result_meta"
        /\ \A k \in j..i : History(s)[k].attempt = History(s)[i].attempt

(* The preview limit: no more rows than the limit go out, also when blocks  *)
(* cross it, and a run is called limited only with exactly that many rows.  *)
LimitIsHonest ==
  RowLimit > 0 =>
    /\ emitted <= RowLimit
    /\ status = "ResultLimitReached" => emitted = RowLimit

(* finish_error: a run whose status is Error has put its error event into   *)
(* the stream, as the last event of all.  A cancel drops the event of a run *)
(* that fails at the same moment: that run is not an Error.                 *)
ErrorIsTold ==
  status = "Error" =>
    \A s \in Streams : SoleReader(s) => History(s) # <<>> /\ Last(History(s)).kind = "error"

(* notify_terminal_status: the registry hears of one end of the run, and it *)
(* is the status the session keeps; only a run that reached its limit while *)
(* it was being cancelled can be told as canceled.                          *)
ReportAgrees ==
  report # "none" /\ status \in Terminal =>
    report = status \/ (report = "Canceled" /\ status = "ResultLimitReached")

(* The four finish functions and request_cancel race: the first terminal    *)
(* status stays, except that the limit replaces a cancel.                   *)
TerminalStays ==
  [][(status \in Terminal) =>
       status' = status \/ (status = "Canceled" /\ status' = "ResultLimitReached")]_vars

(* run_query, request_cancel, start and the streams together keep what a run *)
(* promises: one start and one end, which the registry is told; no row after *)
(* an end but a cancel, none beyond the limit, and no more for the streams   *)
(* than were made, also after a second attempt and a cancel that drops some. *)
Promise == INSTANCE RunPromise WITH
  Limit <- RowLimit, state <- status, canceled <- cancelRequested, told <- report, made <- Made, taken <- Taken

KeepsPromise == Promise!RunSpec

-----------------------------------------------------------------------------
(* request_cancel reaches a query thread wherever it is, also one that waits *)
(* for room in the queue or for a client that reads nothing more; and so does *)
(* Server::stop, which with the destructor waits for the thread.            *)
ThreadIsEnded ==
  /\ cancelRequested /\ wpc # "off" ~> wpc = "ended"
  /\ stopping ~> wpc \in {"off", "ended"}

(* Every end of a run is told: to a stream whose client stays with `done`,  *)
(* and to the registry.                                                     *)
EndIsTold ==
  /\ \A s \in Streams : spc[s] = "pop" /\ status \in Terminal ~> sent[s].done # "none" \/ ~open[s]
  /\ status \in Terminal ~> report # "none"

(* The table of the server lets go of every run that ended, whether a       *)
(* stream was opened, finished, was cut, or never came.                     *)
EndedRunsLeave == status \in Terminal ~> ~inTable

(* The reaper: a run that no stream reads, because none was opened, or it   *)
(* went away, leaves the table, whatever became of its statement.           *)
UnreadRunsLeave == inTable /\ (\A s \in Streams : ~Reads(s)) ~> ~inTable \/ (\E s \in Streams : Reads(s))

(* Both together, where every thread can be created.                        *)
RunsLeave == EndedRunsLeave /\ UnreadRunsLeave

-----------------------------------------------------------------------------
(* What the repository says and the code does not keep.                     *)

(* docs/configuration.md, "Query behavior": "The dashboard does not truncate *)
(* data silently".  A stream that ends with `done` of a finished run has    *)
(* shown every row that this `done` counts.                                 *)
DoneMeansDelivered ==
  \A s \in Streams : sent[s].done = "Finished" => AllRows(sent) - Rows(sent[s].batch) = sent[s].rowsTold

(* query_session.hpp, attach_stream: the reaper "does not touch active      *)
(* downloads".                                                              *)
ReaperSparesDownloads == call["reaper"] = "flag" => ~attached

=============================================================================
