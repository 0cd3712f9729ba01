------------------------------- MODULE Exports -------------------------------
(* The streams of exports and the stop of the server (src/src/api_export.cpp,*)
(* export_job.cpp, and the stop hooks of server.cpp).  A first request puts  *)
(* an export into the store and gets a token; a stream request takes it out  *)
(* and runs its statements.                                                  *)
(*                                                                           *)
(* A stream request, here a download, is one thread.  The archive, the       *)
(* ceilings and the bytes of the SQL are left out.  KILL QUERY, which is     *)
(* external, ends a statement that runs; one that ClickHouse has not begun   *)
(* it does not find.                                                         *)
(* Some definitions follow a form of themselves with a bug that the code     *)
(* could have; no action uses it.                                            *)
EXTENDS Naturals, FiniteSets

CONSTANTS
  Downloads,    \* requests of api/export/stream
  ExportIds,    \* exports that api/export/run may make
  NoExport,
  NStatements,  \* statements of an export
  MaxPending,   \* export.pending_max_entries
  MaxActive     \* export.max_concurrent

ASSUME ExportAssumption == /\ NStatements \in Nat \ {0} /\ MaxPending \in Nat \ {0} /\ MaxActive \in Nat
                           /\ NoExport \notin ExportIds /\ IsFiniteSet(Downloads)

VARIABLES
  pending,   \* ExportJobStore::jobs_
  made,      \* the exports whose token a client has
  download,  \* what each download does
  active,    \* active_exports_
  hooks,     \* stop_hooks_: the download and the statement that each would kill
  stop,      \* how far Server::stop is, and the hooks it has still to call
  ran        \* history: the downloads that ran statements of each export

exportVars == <<pending, made, download, active, hooks, stop, ran>>

Refusable == {"peeks", "slot", "consumes", "preflight", "use", "puts_back"}
Streaming == {"next", "hook", "connects", "runs", "logs", "closes"}
Hooks     == Downloads \X (1..NStatements)

ExportTypeOK ==
  /\ pending \subseteq ExportIds /\ made \subseteq ExportIds
  /\ download \in [Downloads -> [step : {"new", "over"} \cup Refusable \cup Streaming, export : ExportIds \cup {NoExport},
                                 index : 1..NStatements + 1, kill : {"none", "early", "killed"}]]
  /\ active \in Nat
  /\ hooks \subseteq Hooks
  /\ stop \in [step : {"up", "flagged", "calls", "called"}, todo : SUBSET Hooks]
  /\ ran \in [ExportIds -> SUBSET Downloads]

ExportsInit ==
  /\ pending = {} /\ made = {} /\ active = 0 /\ hooks = {}
  /\ download = [d \in Downloads |-> [step |-> "new", export |-> NoExport, index |-> 1, kill |-> "none"]]
  /\ stop = [step |-> "up", todo |-> {}]
  /\ ran = [e \in ExportIds |-> {}]

Doing(d, step)   == download[d].step = step
MovesTo(d, step) == download' = [download EXCEPT ![d].step = step]
JobOf(d)         == download[d].export
HookOf(d)        == <<d, download[d].index>>
ServerStops      == stop.step # "up"
-----------------------------------------------------------------------------
(* The store.                                                                *)
PutJob(e) == pending' = IF Cardinality(pending) < MaxPending THEN pending \cup {e} ELSE pending

\* A full store refuses the export, and no token is made.
Handshake(e) ==
  /\ e \notin made /\ Cardinality(pending) < MaxPending
  /\ PutJob(e)
  /\ made' = made \cup {e}
  /\ UNCHANGED <<download, active, hooks, stop, ran>>

\* prune_locked, which every call begins with.
JobExpires(e) ==
  /\ e \in pending
  /\ pending' = pending \ {e}
  /\ UNCHANGED <<made, download, active, hooks, stop, ran>>
-----------------------------------------------------------------------------
(* handle_export_stream, up to the first byte of the archive.                *)
AsksStream(d, e) ==
  /\ Doing(d, "new") /\ ~ServerStops /\ e \in made
  /\ download' = [download EXCEPT ![d].step = "peeks", ![d].export = e]
  /\ UNCHANGED <<pending, made, active, hooks, stop, ran>>

\* peek_access, and the PDP: neither takes the job.
PeeksJob(d) ==
  /\ Doing(d, "peeks")
  /\ \/ JobOf(d) \in pending /\ MovesTo(d, "slot")
     \/ MovesTo(d, "over")
  /\ UNCHANGED <<pending, made, active, hooks, stop, ran>>

TakesSlot(d) ==
  /\ Doing(d, "slot")
  /\ \/ active < MaxActive /\ active' = active + 1 /\ MovesTo(d, "consumes")
     \/ active >= MaxActive /\ MovesTo(d, "over") /\ UNCHANGED active
  /\ UNCHANGED <<pending, made, hooks, stop, ran>>

ConsumesPeeked(d) ==
  /\ Doing(d, "consumes")
  /\ pending' = pending \ {JobOf(d)} /\ MovesTo(d, "preflight")
  /\ UNCHANGED <<made, active, hooks, stop, ran>>

ConsumesJob(d) ==
  /\ Doing(d, "consumes")
  /\ \/ JobOf(d) \in pending /\ pending' = pending \ {JobOf(d)} /\ MovesTo(d, "preflight") /\ UNCHANGED active
     \/ JobOf(d) \notin pending /\ active' = active - 1 /\ MovesTo(d, "over") /\ UNCHANGED pending
  /\ UNCHANGED <<made, hooks, stop, ran>>

PreflightKeepsSlot(d) ==
  /\ Doing(d, "preflight")
  /\ MovesTo(d, "use") \/ MovesTo(d, "over")
  /\ UNCHANGED <<pending, made, active, hooks, stop, ran>>

\* The objects that the runner may read: without them the job is gone.
Preflight(d) ==
  /\ Doing(d, "preflight")
  /\ \/ MovesTo(d, "use") /\ UNCHANGED active
     \/ active' = active - 1 /\ MovesTo(d, "over")
  /\ UNCHANGED <<pending, made, hooks, stop, ran>>

\* The unit of the budget: without it the job goes back.
TakesUse(d) ==
  /\ Doing(d, "use")
  /\ \/ MovesTo(d, "next") /\ UNCHANGED active
     \/ active' = active - 1 /\ MovesTo(d, "puts_back")
  /\ UNCHANGED <<pending, made, hooks, stop, ran>>

PutsBack(d) ==
  /\ Doing(d, "puts_back")
  /\ PutJob(JobOf(d)) /\ MovesTo(d, "over")
  /\ UNCHANGED <<made, active, hooks, stop, ran>>
-----------------------------------------------------------------------------
(* The content provider: one statement after the other.                      *)
NextStatement(d) ==
  /\ Doing(d, "next")
  /\ MovesTo(d, IF ServerStops \/ download[d].index > NStatements THEN "closes" ELSE "hook")
  /\ UNCHANGED <<pending, made, active, hooks, stop, ran>>

AddsHookAlways(d) ==
  /\ Doing(d, "hook")
  /\ hooks' = hooks \cup {HookOf(d)} /\ MovesTo(d, "connects")
  /\ UNCHANGED <<pending, made, active, stop, ran>>

\* add_stop_hook: during the stop the hook is called at once.
AddsHook(d) ==
  /\ Doing(d, "hook")
  /\ \/ ~ServerStops /\ hooks' = hooks \cup {HookOf(d)} /\ MovesTo(d, "connects")
     \/ /\ ServerStops /\ UNCHANGED hooks
        /\ download' = [download EXCEPT ![d].step = "connects", ![d].kill = "early"]
  /\ UNCHANGED <<pending, made, active, stop, ran>>

\* A client of its own, and the statement begins.
ConnectsRunner(d) ==
  /\ Doing(d, "connects")
  /\ \/ MovesTo(d, "runs") /\ ran' = [ran EXCEPT ![JobOf(d)] = @ \cup {d}]
     \/ MovesTo(d, "logs") /\ UNCHANGED ran
  /\ UNCHANGED <<pending, made, active, hooks, stop>>

StatementEnds(d) ==
  /\ Doing(d, "runs")
  /\ MovesTo(d, "logs")
  /\ UNCHANGED <<pending, made, active, hooks, stop, ran>>

\* execution.csv is written, the hook goes, and an error ends the archive.
Logged(d) ==
  /\ Doing(d, "logs")
  /\ hooks' = hooks \ {HookOf(d)}
  /\ \/ download' = [download EXCEPT ![d].step = "next", ![d].index = @ + 1, ![d].kill = "none"]
     \/ MovesTo(d, "closes")
  /\ UNCHANGED <<pending, made, active, stop, ran>>

\* The client is gone: a write fails, or the watchdog saw it and sent KILL.
Disconnects(d) ==
  /\ download[d].step \in {"next", "runs", "logs"}
  /\ hooks' = hooks \ {HookOf(d)}
  /\ MovesTo(d, "closes")
  /\ UNCHANGED <<pending, made, active, stop, ran>>

\* The release callback of the provider.
ReleasesSlot(d) ==
  /\ Doing(d, "closes")
  /\ active' = active - 1
  /\ MovesTo(d, "over")
  /\ UNCHANGED <<pending, made, hooks, stop, ran>>
-----------------------------------------------------------------------------
(* Server::stop.                                                             *)
StopBegins ==
  /\ stop.step = "up"
  /\ stop' = [stop EXCEPT !.step = "flagged"]
  /\ UNCHANGED <<pending, made, download, active, hooks, ran>>

CopiesHooks ==
  /\ stop.step = "flagged"
  /\ stop' = [step |-> "calls", todo |-> hooks]
  /\ UNCHANGED <<pending, made, download, active, hooks, ran>>

\* KILL QUERY by the id of one statement: that one may run, be about to, or be over.
KillSent(h) ==
  [d \in Downloads |->
     IF h # HookOf(d) THEN download[d]
     ELSE CASE Doing(d, "runs") -> [download[d] EXCEPT !.kill = "killed"]
            [] Doing(d, "connects") -> [download[d] EXCEPT !.kill = "early"]
            [] OTHER -> download[d]]

CallsHook ==
  /\ stop.step = "calls"
  /\ \/ \E h \in stop.todo : stop' = [stop EXCEPT !.todo = @ \ {h}] /\ download' = KillSent(h)
     \/ stop.todo = {} /\ stop' = [stop EXCEPT !.step = "called"] /\ UNCHANGED download
  /\ UNCHANGED <<pending, made, active, hooks, ran>>

ExportsNext ==
  \/ \E e \in ExportIds : Handshake(e) \/ JobExpires(e)
  \/ \E d \in Downloads :
       \/ \E e \in ExportIds : AsksStream(d, e)
       \/ PeeksJob(d) \/ TakesSlot(d) \/ ConsumesJob(d) \/ Preflight(d) \/ TakesUse(d) \/ PutsBack(d)
       \/ NextStatement(d) \/ AddsHook(d) \/ ConnectsRunner(d) \/ StatementEnds(d) \/ Logged(d) \/ Disconnects(d) \/ ReleasesSlot(d)
  \/ StopBegins \/ CopiesHooks \/ CallsHook

ExportsSpec == ExportsInit /\ [][ExportsNext]_exportVars
-----------------------------------------------------------------------------
(* docs/massive-export.md, one-time capability: however many downloads bring *)
(* the token of an export, and although a refused use puts the job back, the *)
(* SQL runs for one of them at most (peek_access, consume, put).             *)
OneDownloadPerExport == \A e \in ExportIds : Cardinality(ran[e]) <= 1

(* active_exports_ counts the downloads between the slot and the release, on *)
(* every way out, and never goes over export.max_concurrent.                 *)
SlotsAreCounted ==
  /\ active = Cardinality({d \in Downloads : download[d].step \in {"consumes", "preflight", "use"} \cup Streaming})
  /\ active <= MaxActive

(* Server::stop and add_stop_hook: once the stop has called its hooks, no    *)
(* statement of an export is left for which no KILL was sent.  One that the  *)
(* KILL came too early for goes on.                                          *)
StopMissesNoStatement ==
  stop.step = "called" => \A d \in Downloads : download[d].step \in {"connects", "runs"} => download[d].kill # "none"
=============================================================================
