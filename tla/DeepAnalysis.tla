---------------------------- MODULE DeepAnalysis -----------------------------
(* Jobs of Deep Analyze with their place in the admission and in the group   *)
(* of workers, up to the end of the server (src/src/deep_analysis_jobs.cpp,  *)
(* admission.hpp, worker_group.hpp, the job of api_analysis.cpp, and the     *)
(* stop and the destructor of server.cpp).                                   *)
(*                                                                           *)
(* A POST is an HTTP thread; the job that it creates has its id, and the     *)
(* thread of that job goes on in its record.  What a thread still has to     *)
(* give back is its list `back`.  Of the jobs that ended the number is kept: *)
(* no guard reads more.  Results are left out; by their bytes the table may  *)
(* drop more of the jobs that ended than it must.                            *)
(* Some definitions follow a form of themselves with a bug that the code     *)
(* could have; no action uses it.                                            *)
EXTENDS Naturals, FiniteSets, Sequences

CONSTANTS
  Posts,     \* POSTs of api/query/deep-analysis, and the jobs that they create
  Replayed,  \* the runs that they ask to analyse
  NoRun,
  MaxKept,   \* max_jobs of the table
  Places     \* admission.analysis_per_host; 0 is no limit

ASSUME DeepAssumption == /\ MaxKept \in Nat \ {0} /\ Places \in Nat
                         /\ NoRun \notin Replayed /\ IsFiniteSet(Posts)

VARIABLES
  table,     \* jobs_: the jobs that run, and how many ended
  work,      \* what each POST, and then the thread of its job, does
  canceled,  \* DeepJobControl::cancel_
  inUse,     \* in_use of the analysis class of the host
  workers,   \* WorkerGroup::active_
  jobHooks,  \* stop_hooks_
  server     \* how far the stop and the destructor are, and the hooks still to call

deepVars == <<table, work, canceled, inUse, workers, jobHooks, server>>

Requesting == {"start", "place", "group"}
Analysing  == {"hook", "analyses"}
Debts      == {"discard", "unhook", "place", "group"}

DeepTypeOK ==
  /\ table \in [running : SUBSET Posts, ended : Nat]
  /\ work \in [Posts -> [step : {"new", "over", "gives_back"} \cup Requesting \cup Analysing,
                         run : Replayed \cup {NoRun}, own : BOOLEAN, back : UNION {[1..n -> Debts] : n \in 0..3}]]
  /\ canceled \subseteq Posts /\ jobHooks \subseteq Posts
  /\ inUse \in Nat /\ workers \in Nat
  /\ server \in [step : {"up", "flagged", "calls", "called", "waits", "destroyed", "exited"}, todo : SUBSET Posts]

DeepInit ==
  /\ table = [running |-> {}, ended |-> 0]
  /\ work = [p \in Posts |-> [step |-> "new", run |-> NoRun, own |-> FALSE, back |-> <<>>]]
  /\ canceled = {} /\ inUse = 0 /\ workers = 0 /\ jobHooks = {}
  /\ server = [step |-> "up", todo |-> {}]

IsAt(p, step)    == server.step # "exited" /\ work[p].step = step
Proceeds(p, step) == work' = [work EXCEPT ![p].step = step]
\* The last thing: `debts` are given back in their order.
GivesBack(p, debts) == work' = [work EXCEPT ![p].step = "gives_back", ![p].back = debts]
StopFlag  == server.step # "up"
RunOf(p)  == work[p].run
-----------------------------------------------------------------------------
(* The table.                                                                *)
\* make_room_locked: until one more job fits, or only running jobs are left.
RoomMade(running, ended) == {n \in 0..ended : Cardinality(running) + n < MaxKept \/ n = 0}

AsksAnalysis(p, r) ==
  /\ IsAt(p, "new") /\ ~StopFlag
  /\ work' = [work EXCEPT ![p].step = "start", ![p].run = r]
  /\ UNCHANGED <<table, canceled, inUse, workers, jobHooks, server>>

\* prune_locked: what is older than the retention goes.
Pruned(t) == {[t EXCEPT !.ended = n] : n \in 0..t.ended}

SameRun(p) == {j \in table.running : RunOf(j) = RunOf(p)}

\* A job of the run that is in the table is this job too.
StartJob(p) ==
  /\ IsAt(p, "start")
  /\ \/ SameRun(p) # {} /\ table' \in Pruned(table) /\ work' = [work EXCEPT ![p].step = "over", ![p].run = NoRun]
     \/ /\ SameRun(p) = {}
        /\ \E ended \in RoomMade(table.running, table.ended) : table' = [running |-> table.running \cup {p}, ended |-> ended]
        /\ Proceeds(p, "place")
  /\ UNCHANGED <<canceled, inUse, workers, jobHooks, server>>

PollsJobs ==
  /\ server.step \notin {"waits", "destroyed", "exited"}
  /\ table' \in Pruned(table)
  /\ UNCHANGED <<work, canceled, inUse, workers, jobHooks, server>>

CancelsJobAtOnce(p) ==
  /\ server.step \notin {"waits", "destroyed", "exited"} /\ p \in table.running
  /\ table' = [running |-> table.running \ {p}, ended |-> table.ended + 1]
  /\ UNCHANGED <<work, canceled, inUse, workers, jobHooks, server>>

\* request_cancel and the KILL of what the job runs.
CancelsJob(p) ==
  /\ server.step \notin {"waits", "destroyed", "exited"} /\ p \in table.running
  /\ canceled' = canceled \cup {p}
  /\ UNCHANGED <<table, work, inUse, workers, jobHooks, server>>
-----------------------------------------------------------------------------
(* The POST that created a job.                                              *)
HasPlace == Places = 0 \/ inUse < Places

\* Admission::acquire: a place, or none until the time is over or the stop comes.
Admits(p) ==
  /\ IsAt(p, "place")
  /\ \/ HasPlace /\ inUse' = inUse + 1 /\ Proceeds(p, "group")
     \/ ~HasPlace /\ GivesBack(p, <<"discard">>) /\ UNCHANGED inUse
  /\ UNCHANGED <<table, canceled, workers, jobHooks, server>>

\* The group is closed after the last request ended: it takes every worker.  Then
\* the unit of the budget, and the thread, either of which may be refused.
StartsThread(p) ==
  /\ IsAt(p, "group")
  /\ workers' = workers + 1
  /\ \/ work' = [work EXCEPT ![p].step = "hook", ![p].own = TRUE]
     \/ GivesBack(p, <<"discard", "group", "place">>)
     \/ GivesBack(p, <<"place", "group", "discard">>)
  /\ UNCHANGED <<table, canceled, inUse, jobHooks, server>>
-----------------------------------------------------------------------------
(* The thread of the job.                                                    *)
AddsJobHookAlways(p) ==
  /\ IsAt(p, "hook")
  /\ jobHooks' = jobHooks \cup {p} /\ Proceeds(p, "analyses")
  /\ UNCHANGED <<table, canceled, inUse, workers, server>>

AddsJobHook(p) ==
  /\ IsAt(p, "hook")
  /\ IF StopFlag THEN canceled' = canceled \cup {p} /\ UNCHANGED jobHooks
                 ELSE jobHooks' = jobHooks \cup {p} /\ UNCHANGED canceled
  /\ Proceeds(p, "analyses")
  /\ UNCHANGED <<table, inUse, workers, server>>

LastDebtsUngrouped == <<"unhook", "group", "place">>
LastDebts          == <<"unhook", "place", "group">>

\* The analysis ends, or sees the stop or the cancel: finish, fail or cancel_done.
\* Only finish makes room, for its result.  The control goes with the job.
EndsJob(p) ==
  /\ IsAt(p, "analyses")
  /\ LET others == table.running \ {p}
         itself == Cardinality(table.running \cap {p})
     IN \/ /\ p \notin canceled
           /\ \E ended \in RoomMade(others, table.ended) : table' = [running |-> others, ended |-> ended + itself]
        \/ table' = [running |-> others, ended |-> table.ended + itself]
  /\ canceled' = canceled \ {p}
  /\ GivesBack(p, LastDebts)
  /\ UNCHANGED <<inUse, workers, jobHooks, server>>

\* One thing after the other; a place that comes back wakes all that wait.
PaysBack(p) ==
  /\ IsAt(p, "gives_back")
  /\ LET debt == Head(work[p].back) IN
       /\ table' = IF debt = "discard" THEN [table EXCEPT !.running = @ \ {p}] ELSE table
       /\ canceled' = IF debt = "discard" THEN canceled \ {p} ELSE canceled
       /\ jobHooks' = IF debt = "unhook" THEN jobHooks \ {p} ELSE jobHooks
       /\ inUse' = IF debt = "place" THEN inUse - 1 ELSE inUse
       /\ workers' = IF debt = "group" THEN workers - 1 ELSE workers
  /\ work' = [work EXCEPT ![p].back = Tail(@), ![p].step = IF Len(work[p].back) = 1 THEN "over" ELSE "gives_back",
                             ![p].run = IF Len(work[p].back) = 1 THEN NoRun ELSE @]
  /\ UNCHANGED server
-----------------------------------------------------------------------------
(* The stop of the server, and its destructor.                               *)
ServerGoes(step, todo) == server' = [step |-> step, todo |-> todo]

FlagsStop ==
  /\ server.step = "up" /\ ServerGoes("flagged", {})
  /\ UNCHANGED <<table, work, canceled, inUse, workers, jobHooks>>

CopiesJobHooks ==
  /\ server.step = "flagged" /\ ServerGoes("calls", jobHooks)
  /\ UNCHANGED <<table, work, canceled, inUse, workers, jobHooks>>

CallsJobHook ==
  /\ server.step = "calls"
  /\ \/ \E h \in server.todo : ServerGoes("calls", server.todo \ {h}) /\ canceled' = canceled \cup {h}
     \/ server.todo = {} /\ ServerGoes("called", {}) /\ UNCHANGED canceled
  /\ UNCHANGED <<table, work, inUse, workers, jobHooks>>

\* run returns after the HTTP threads; then close_and_wait.
InRequest(p) == work[p].step \in Requesting \/ (work[p].step = "gives_back" /\ ~work[p].own)

ClosesGroup ==
  /\ server.step = "called" /\ \A p \in Posts : ~InRequest(p)
  /\ ServerGoes("waits", {})
  /\ UNCHANGED <<table, work, canceled, inUse, workers, jobHooks>>

\* The last worker left, or the deadline of the stop passed and the process ends.
WaitIsOver ==
  /\ server.step = "waits"
  /\ IF workers = 0 THEN ServerGoes("destroyed", {}) ELSE ServerGoes("exited", {})
  /\ UNCHANGED <<table, work, canceled, inUse, workers, jobHooks>>

DeepNext ==
  \/ \E p \in Posts :
       \/ \E r \in Replayed : AsksAnalysis(p, r)
       \/ StartJob(p) \/ Admits(p) \/ StartsThread(p) \/ CancelsJob(p)
       \/ AddsJobHook(p) \/ EndsJob(p) \/ PaysBack(p)
  \/ PollsJobs \/ FlagsStop \/ CopiesJobHooks \/ CallsJobHook \/ ClosesGroup \/ WaitIsOver

DeepSpec == DeepInit /\ [][DeepNext]_deepVars
-----------------------------------------------------------------------------
(* docs/query-analysis.md: "ChDash does not run the same EXPLAIN ANALYZE     *)
(* twice at the same time", although jobs are discarded, evicted from a full *)
(* table and pruned meanwhile (start, make_room_locked, discard).            *)
OneAnalysisPerRun ==
  \A p, q \in Posts : work[p].step \in Analysing /\ work[q].step \in Analysing /\ RunOf(p) = RunOf(q) => p = q

(* A job and the stop: once the hooks were called no job analyses that was   *)
(* not told (add_stop_hook); and when the destructor goes on after           *)
(* close_and_wait, no thread of a job is there that would still use the      *)
(* table, the hooks or the admission, and every place came back.             *)
ServerOutlivesItsJobs ==
  /\ server.step \in {"called", "waits", "destroyed"} => \A p \in Posts : work[p].step \in Analysing \ {"hook"} => p \in canceled
  /\ server.step = "destroyed" =>
       /\ \A p \in Posts : work[p].step \in {"new", "over"}
       /\ table.running = {} /\ jobHooks = {} /\ inUse = 0
=============================================================================
