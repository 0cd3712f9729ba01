# Verification of clickhouse-dash

clickhouse-dash is one C++ process that serves a dashboard for ClickHouse: a
browser starts a query with `POST /api/query/run`, reads its result as a stream
of server-sent events from `GET /api/query/stream`, and may cancel it with
`POST /api/query/cancel`. The process keeps the running queries, caches what it
read from ClickHouse, asks a policy decision point what a person may do, and
serves other programs with access keys (MCP). This directory holds TLA+ modules
of its parts, the TLC runs that check them on small instances, and proofs that
TLAPS checks for every instance.

## The system

| Part | State it keeps | Operations | What makes it hard | What makes it correct |
|---|---|---|---|---|
| Query session and stream (`query_session.cpp`, `api_query_stream.cpp`, `query_result_events.cpp`) | status, cancel flag, attachment, queue of events with its bytes, counters of the run | start, cancel, attach and detach, the query thread with its attempts and ends, the pops and writes of a stream | five kinds of threads; a blocked producer; a retry after events went out; the end of a run racing its last events | every row reaches the client once and in order, one consumer, one final status, the limit is honest, cancels reach a blocked thread, sessions leave the table |
| Server lifecycle (`server.cpp`, `server_http.cpp`, `worker_group.hpp`) | table of sessions, stop flag and hooks, number of workers | create, look up, erase, reap, stop, destructor | requests in flight while the server stops, two sweeps | nothing outlives the server, every run is cancelled, the stop ends |
| Admission (`admission.hpp`) | places in use and waiters for each class of work and host | acquire with a deadline, give back | barging, a stop during a wait | the bound, no slot lost, refusals only after the deadline |
| TTL cache (`ttl_cache.hpp`) | entries with value, generation, age; background refresher | lookup, forced lookup, background refresh, eviction | one fetch for many readers, a forced read during a fetch, eviction of an entry that readers hold | a forced reader sees a later fetch, one fetch at a time, bounds, stale answers only where allowed |
| Connection pool (`ch_client_pool.cpp`) | leases and idle clients for each server | acquire, give back, release, stop | one condition variable for all servers, one notification for a release | the bound for each server, no dirty client again, a waiter is served |
| Block encoder (`block_encoder.hpp`) | queue of blocks, an error | submit, finish, cancel | producer and consumer with an error between them | order, no block lost unless an error is told, no deadlock |
| Query registry (`query_registry.cpp`) | finished and running queries with a bound and a budget | register, add an id, mark the end, find | the end of a run that comes before its registration | bounds; a run that ended is not shown as running |
| System log flush gate (`system_log_flush.hpp`) | start of the last flush that succeeded, one in flight | flush for a moment | callers during a flush | a caller returns only when a flush covers its moment |
| Policy client (`access_pdp.cpp`, `pdp_transport.cpp`, `server_access.cpp`) | cached decisions | decide, take a use | answers that are late, lost, old or in another order | no grant without a recent answer that allows it, no use taken twice |
| MCP keys (`mcp_keys.cpp`) | keys in memory and in a file | create, revoke, adopt, load | a failed write, a crash between the file and the memory | memory and file agree after each operation; a revoked key stays revoked |
| MCP usage (`mcp_usage*.cpp`) | counters, a file for each instance | add, save, merge | several processes on a directory | nothing counted twice or lost by a save |
| Creator access, ceilings (`mcp_creator_access.cpp`, `access_ceilings.cpp`) | last answer for each creator; meters of a run | check, account | saturating counters, changed answers | a breach is told once and ends the run |
| Deep analysis jobs, exports (`deep_analysis_jobs.cpp`, `export_job.cpp`, `api_export.cpp`) | tables of jobs | create, take, cancel, expire | a job that is taken and expires at once | a job is used once, the table is bounded |
| Query library (`query_library*.cpp`) | entries with revisions, a file | save, import, delete | two writers | a write on an old revision is refused |
| Health, telemetry export (`health_runner.cpp`, `otlp_export.cpp`) | checks in flight; a bounded queue | run; push, flush | deadlines, a full queue, the stop | ends in time, drops are counted |
| Explorer, system pages, traces, logs, metrics | none of their own but caches | SQL from a request, JSON from blocks | text | tests and corpora of the repository |
| Formatter and scanners, configuration, pages in the browser | none | text to text | text | tests, fuzzers and corpora of the repository |

How they interact: an HTTP thread passes the stop flag (`Server::before_routing`),
the policy client and admission, and calls a handler. The handler of
`/api/query/run` puts a session into the table and registers it. The handler of
`/api/query/stream` attaches to the session and starts a query thread in the
worker group of the server; this thread takes a client from the pool, and pushes
events into the queue of the session, from which the chunk provider of the stream
pops them. The session calls back into the registry when it ends. The reaper
thread and `Server::stop` reach sessions through the table. The caches are called
by the handlers of the other pages and start their own background fetches.

`PROJECT.json` lists the hazards, each at its line.

## The query session

`QuerySession.tla` models one session, from the moment in which
`POST /api/query/run` has put it into the table, with every thread that can touch
it. A step of the module is what one thread does under one hold of a mutex
(`mu_` of the session or of the server) or on one atomic flag, so that every
place at which another thread can come between is a place between two steps.

| Thread | Where in the code | Place | Actions |
|---|---|---|---|
| the HTTP thread of each stream request `s` | `before_routing`, `handle_query_stream`, its chunk provider and release callback | `spc[s]`, `back[s]` | `StreamRoute` to `SpawnThrows`, `WriteMeta` to `EraseAtRelease` |
| the query thread | `run_query`, `execute_select_attempt`, `push_sse_json_event`, the `finish_*` functions | `wpc`, `job` | `Begin` to `WorkerNotify` |
| callers of `request_cancel`: the cancel route, the stop of the server, the reaper, a stream whose client went away | `request_cancel` | `call[c]` | `CancelFlag`, `CancelLock`, `CancelNotify` |
| the stop of the server | `Server::stop` | `stopping`, `call["stop"]` | `StopBegin`, `StopSweep` |
| the reaper | `reap_sessions_once` | `call["reaper"]` | `ReaperPick`, `ReaperErase` |

The other variables are the members of the session under their names in the code.
`job` is the record of the locals of `run_query` that a later step reads; it is
put back to `NoJob` where the code leaves their scope. `sent[s]` is what the
client of a stream got.

What is abstracted, and why the properties do not see it:

- An event is its kind, its number of rows and the attempt that made it. It has
  one byte of frame and one for each row, which is enough for events that fit the
  queue, fill it and are larger than it.
- The rows of a block go out in one or two events, split anywhere; the code splits
  by bytes. The batch of a pop ends anywhere, for the same reason.
- Statements, connections and plans choose freely among their outcomes: blocks of
  any size from `BlockRows`, an end, an error that may be retried or not, a plan
  from the cache or not.
- From the second block on a helper thread encodes. The query thread joins it
  before it looks at how the statement ended, and only that helper pushes while it
  runs, so its pushes are steps of the query thread here.
- Ages and deadlines pass at any time: the reaper may find a session old enough
  whenever it is not attached. The deadline of `max_duration` is one way in which
  `Rethrow` answers.
- Ticks, samples and the profile of the statement change no state of the session.
- `worker_group.enter()` is always granted: the group closes in the destructor of
  the server, after the HTTP library has joined the threads of its requests.

### What is checked

`MCQuerySession.tla` gives the constants their values.

| Run | Instance | Properties |
|---|---|---|
| `session_result` | one stream, a command or a select planned in each way, limit 2, queue of 3 bytes, blocks of 0 to 2 rows, two blocks an attempt, ceilings, a cancel at any moment | `TypeOK`, `EveryRowAccounted`, `RowsFollowTheirMeta`, `LimitIsHonest`, `ErrorIsTold`, `KeepsPromise` |
| `session_actors` | two streams, the stop, the reaper, threads that may fail to start, a command | `OneConsumer`, `ReportAgrees` |
| `session_live` | one stream, the stop and the reaper, a queue of one byte, a command | `ThreadIsEnded`, `EndIsTold`, `RunsLeave` |
| `session_lost_rows` | one stream, a select, nobody else | `DoneMeansDelivered` is violated |
| `session_reaped_download` | one stream, the reaper | `ReaperSparesDownloads` is violated |
| `session_no_thread` | one stream, the reaper, a thread that cannot start | `UnreadRunsLeave` is violated |

Why these bounds are enough for what they look for. A limit of 2 with blocks of 1
and 2 rows has a block that ends at the limit, one that crosses it, and one that
comes after it. A queue of 3 bytes holds a meta and a row, blocks on the next
event, and is smaller than an event of two rows beside any other. One retry is all
the code makes. Two streams are enough for a second consumer; a third adds no new
order between two of them, and the theorem below covers any number. The runs about
several actors use commands, whose thread has few steps, because what the actors
race for (status, flag, table, attachment) is the same for a select; the byte
accounting has a run of its own. Two streams are symmetric. Deadlock is not
checked: a session that ended has nothing more to do.

Fairness (`Fairness`). Threads that can run do run: the query thread, callers of
`request_cancel`, the stop, the reaper (it sleeps and comes back, and the ages it
waits for pass), and the thread of a stream once its request came. Nothing makes a
person cancel, the server stop, the client leave, a request come or a thread fail.
A statement in ClickHouse need not end unless it was cancelled: then its callbacks
throw and `KILL QUERY` is sent. Weak fairness is enough everywhere, as no step
that a thread waits for is taken away again by another for ever: a wait for room in
the queue ends by a pop that stays possible or by the cancel flag, which is never
reset. `EndIsTold` takes it that the HTTP library asks the provider of a stream again while its
client is there. The library may give that up when the server stops
(`http_.stop()`, server.cpp:1152); then the stream ends without an event, which is the
library's matter and outside the module.

What a run promises. `RunPromise.tla` says in seven actions what a page, a stream
and the registry may rely on, without threads, queue, attempts or mutex: a run
starts once and not after a cancel; it ends once, as canceled only if somebody
cancelled it, as failed only if nobody did, as limited only at the limit; the
registry is told one end and that one holds; rows are made while the run runs or is
being cancelled and never beyond the limit; streams take no more rows than were made.
`KeepsPromise` is that `QuerySession` implements it, under the mapping

| `RunPromise` | `QuerySession` |
|---|---|
| `state`, `canceled`, `told` | `status`, `cancelRequested`, `report` |
| `made` | `Made`: the rows emitted, and those of an event between its push and its count |
| `taken` | `Taken`: the rows in the histories of all streams |

So a retry after rows went out, a success over a cancel, an end told twice, a row
after the end or streams that take more rows than there are is a step that
`RunPromise` does not have. Which rows they take is `EveryRowAccounted`. The refinement contains
`TerminalStays`, which is proved too and needs no run of its own.

What the violated runs show:

- `session_lost_rows`: the provider of a stream pops nothing, gives the mutex back
  and then reads the status again. A run that queues its last events and finishes
  between the two is over for the provider, which writes `done` and ends the
  stream while rows are still queued. `done` counts rows that were never sent. The
  documentation says that the dashboard does not truncate data silently.
  The part of `EveryRowAccounted` about `drained`, which holds, is the same promise
  for streams whose pop itself saw the end.
- `session_reaped_download`: the reaper looks at a session and erases and cancels it
  later, under other locks. A stream that found the session before can attach
  between, and its run is cancelled. The header says that the reaper does not touch
  active downloads.
- `session_no_thread`: when the system refuses a thread, the stream request ends
  with an error, but nothing detaches it; the session stays attached and running in
  the table for ever. This is why `ThreadMayFail` is off in `session_live`.

### What is proved

`QuerySession_proofs.tla`, for any number of streams, any actors, every limit, bound
and size of blocks, under `SessionAssumption` alone (the types of the constants,
that no stream has the name of another caller, and that the streams are finite,
over which the rows are summed):

| Theorem | Statement |
|---|---|
| `ConsumerIsOne` | `Spec => []OneConsumer` |
| `TypeCorrect` | `Spec => []TypeOK` |
| `LimitHolds` | `Spec => []LimitIsHonest` |
| `TerminalStatusStays` | `Spec => TerminalStays` |
| `ReportIsTheStatus` | `Spec => []ReportAgrees` |
| `ErrorIsShown` | `Spec => []ErrorIsTold` |
| `RowsAreExplained` | `Spec => []RowsFollowTheirMeta` |
| `EveryRowIsAccounted` | `Spec => []EveryRowAccounted` |
| `RunKeepsItsPromise` | `Spec => KeepsPromise`: the refinement of `RunPromise` |

The argument. `OneConsumer` is inductive together with "who reads is attached"
(`ConsumerInv`), given the types of the places of the streams. The next three
share one inductive invariant, `SessionInv`, whose parts need each other:

- `StartInv`: a thread is spawned only while there is none, because only the one
  consumer can be about to spawn it.
- `CountInv`: while a result is received, the rows returned plus those of the
  events still to be pushed are the rows received, cut at the limit, and the rows
  emitted are those returned but for an event between its push and its count.
  `LimitIsHonest` follows. `BlockPending` is the lemma that a block becomes at most
  three events which carry exactly its rows.
- `StatusInv`: the status is `Canceled` only after the flag is set. That is why
  `start`, which reads the flag, never puts `Running` over a cancel, and with it
  why terminal statuses stay.
- `PopSawTheEnd`: a pop that saw the end of the run is still right when its stream
  acts on it. The type of `done` depends on it, so `TypeCorrect` is not a matter of
  types alone.

The next four are about what the registry and the streams are told of a run. Each
has an inductive invariant of its own, beside `SessionInv`:

- `ReportInv`: what was reported is the status, or a cancel that the limit replaced,
  or a cancel of a run that has not begun. The last case is right only because of
  `NeverRuns`: that report comes from the stream which had taken the start, and no
  other stream can take it again.
- `ErrorInv`: from its push on, the error event is the last one of the history of
  the only reader, unless a cancel dropped it, and then the status is not `Error`.
  Pops and writes only move events along a history (`KeepsHistories`), because a
  stream pops no batch over one that it still holds (`BatchInv`).
- `RowsInv`: where the thread can go on to a row, the meta of its attempt is already
  in the history of the single reader (`MetaIsOut`), and a history whose rows are
  explained stays so under a block in its order (`BlockInOrder`).

- `AccountInv`, while nobody cancels: the rows written, in batches and in the queue
  are those the session counted and the event between its push and its count
  (`RowsAddUp`). A retry sets the count back to nothing, so it needs that a failed
  attempt counted no more than it returned (`FailedCounts`), and one that is made
  again returned nothing. What a stream is told at its end is right because who saw
  the end saw an empty queue of a thread that pushes no more (`EndIsEmpty`). The bytes
  and rows are sums over sequences: `ConcatCounts` and `AppendCounts` say what they
  are for the changes of a queue, by induction over the length, and `OneLogChanges`
  what the change of one stream does to the sum over all.

The refinement needs them together (`RunInv`) and four facts more, each of which a
step of `RunPromise` asks for:

- `RowsAreMade`: rows in the queue and in the histories are at most those made. Unlike
  `AccountInv` it also holds after a cancel, which drops rows but never adds any.
- `WasBegun`: a query thread exists only of a run that was started or cancelled, so
  an end of the thread is an end of a run that runs.
- `LimitExists`: the thread can be on its way to the end at the limit only if there
  is a limit; with `CountInv` it has then made exactly so many rows.
- `HasAsked`: who reports a cancel has set the flag before.

`PromiseStep` then has a case for each kind of step: `Push` makes rows, `PopBatch`
takes them, the `finish_*` steps stop the run or let the limit stand, `CancelFlag`
asks, `CancelLock` stops, `Start` runs, the notifications tell. All other steps stutter
(`NothingPromised`), because they change neither the three members nor the rows.

`Totals.tla` has the theory of sums that this proof and those of the cache, the pool
and the library use: the sum of numbers over a finite set exists, is a natural number,
splits, and changes with one number as it should (`SumsExist`, `TotalSplits`,
`TotalSame` and their companions). Its `Induct` is induction over the natural numbers
with a set in the place of the predicate, a form which the provers can instantiate.

Only model-checked: all liveness, which is out of the prover's reach.

## The TTL cache

`TtlCache.tla` models one `TtlCache` with its `CacheRefresher`, which every page of
metadata, access, system tables and traces reads through. A step is what a thread
does under one hold of the mutex of the cache (or of the refresher); a fetch runs
between two steps of its thread, without the mutex.

| Thread | Where in the code | Place | Actions |
|---|---|---|---|
| a request that reads | `lookup` with `find_or_insert_locked`, `sweep_locked`, `enforce_limits_locked`, `start_background_locked`; `run_fetch_locked`, `complete_locked` | `pc[r]`, locals in `req[r]` | `Lookup`, `Wake`, `TimesOut`, `FetchEnds` |
| a request that changes a source | `invalidate`, `invalidate_prefix`, `invalidate_all` | | `Invalidate` |
| a thread of the refresher | `CacheRefresher::run` and the task of a refresh | `worker[w]` | `Take`, `Run`, `TaskEnds` |
| the end of the server | `CacheRefresher::stop` | `stopping` | `StopRefresher` |
| the clock | | | `Ages`, `BackoffEnds` |

`cache` is `map_`, `lru_`, `bytes_` and the entries in memory. An entry is a slot,
not a key: `lookup` keeps a `shared_ptr`, so a reader may wait on, or fill, an entry
that has left the map, while another entry of the same key is in it. `Held` says
which slots some thread, task or the map still points to; the others are free.
`Round` is one pass of the loop of `lookup`, `Serve` the part before it.

What is abstracted:

- A value is its weight in bytes and an age class: within its ttl, within
  `stale_for`, within `max_age`, past it. Time passes at any moment, so every order
  of the deadlines is there; so are a back-off that ended and a wait that timed out
  at any moment of a wait.
- `at` and `epoch` are history, in no guard. `epoch[k]` counts how often a newer
  value of `k` was asked for, by a forced lookup or an invalidation; `at` is the
  count when the fetch of the value began. An answer is `outdated` when its value
  began before the last such request that preceded the lookup.
- The sweep, which runs at most once in an interval, may or may not run when a key
  is inserted.
- Requests that bypass the cache read and keep nothing, and are left out with the
  counters of the statistics.

### What is checked

| Run | Instance | Properties |
|---|---|---|
| `cache_fair` | one key, two readers, one thread and one place in the queue of the refresher, four lookups or invalidations, under fairness | `AnswersAreCurrent`, `OneFetchPerEntry`, `BackoffHolds`, `LookupsReturn`, `RefreshesRun` |
| `cache_evict` | two keys, room for one, three readers, values of 1 and 3 bytes, no refresher, four lookups or invalidations | `TypeOK`, `CacheIsBounded` |
| `cache_two_fetches` | as `cache_evict`, values of one size | `OneFetchPerKey` is violated |

The bounds. `MaxCalls` bounds the lookups and invalidations, and with them all
generations and counts. Four calls are enough for a value to be fetched, go stale,
be queued for a refresh, be invalidated, and be taken over by a reader while the
thread of the refresher holds the task. In one entry the readers differ only in when
they came, and two of them with the refresher give three that may want to fetch.
Eviction needs a third reader: one fetches, one waits for the fetch after it, and one
inserts the other key, so that the entry is evicted as soon as the first fetch ends.
`NSlots` is as many entries as are ever held at once: more slots give the same
states. In `cache_evict` the view of TLC leaves out free slots, because an entry is
reset before it is used again, and the stop of the refresher that is not there.
Readers are symmetric, and so are keys there.

Fairness. Threads that were notified run, a fetch ends with a value or an error (the
client of ClickHouse has timeouts of its own), and the threads of the refresher run.
No request has to come, no wait has to time out: `LookupsReturn` shows that the
timeout of a wait is never what a reader depends on. It holds after the stop of the
refresher too, because a reader takes over a refresh whose task was dropped.

The violated run. `complete_locked` clears the mark of the entry, notifies and then
enforces the limits, which may evict that same entry although a forced reader waits
for the fetch after it. That reader fetches into the evicted entry while a newcomer
inserts the key again and fetches as well: two fetches of one key at a time, which
the comment of the class excludes. The answers are right all the same
(`AnswersAreCurrent`), and the bytes too (`CacheIsBounded`).

### What is proved

`TtlCache_proofs.tla`, for any number of readers, keys, refresher threads and entries,
every limit and size, under `CacheAssumption`:

| Theorem | Statement |
|---|---|
| `FetchIsShared` | `Spec => []OneFetchPerEntry` |
| `AnswersStayCurrent` | `Spec => []AnswersAreCurrent` |
| `BackoffIsKept` | `Spec => BackoffHolds` |
| `CacheStaysBounded` | `Spec => []CacheIsBounded` |
| `CacheTypeCorrect` | `Spec => []TypeOK` |

The arguments:

- `FetchIsShared`. `FetchInv` says it of one slot after the other (`OneAt`): no two
  threads fill it; who fills it finds it marked and not queued; a held slot that is
  marked and not queued has someone who fills it; `queued` implies `refreshing`. Two
  things make it inductive. A slot that nothing holds is filled by nobody
  (`FreeIsIdle`), so a slot can be used again; and a queued task fills the entry only
  when it is still queued under the task's number, so that a takeover makes the task
  void. `SlotStays`, `SlotStarts` and `SlotIdles` are the three things that can happen
  to a slot, and each action is reduced to one of them on its own slot and to the
  first on all the others.
- `AnswersStayCurrent`. `CurrentInv` follows a value from the start of its fetch: the
  number under which an entry is fetched, the request a reader remembers and the
  count of the newest request of the key are in one order, in the map and in an entry
  that has left it. The step that needs it is that of a reader who was promised the
  *next* fetch: the fetch that answers it began after its lookup.
- `BackoffIsKept` comes from the same places of the threads: a fetch that begins in
  the back-off of an entry is a forced one, or the key was invalidated.
- `CacheStaysBounded` and `CacheTypeCorrect` share one invariant, `Sound`: the map, its
  order of use and the entries point to each other, and the bytes are the sum of the
  values in the map (`Whole`); and the limits hold but for an entry that some thread
  fills (`Roomy`). Inside a lookup an entry is made before the limits are enforced, so
  the lemmas on `Round` carry a weaker form (`Making`, `Blank`) from the insert to the
  eviction. The eviction is a recursive function on the length of the order, and the
  lemma on it is an induction over that length.

The bytes are a sum over the map, which `SumBytesIs` reduces to the sums of
`Totals.tla`. Only the two liveness properties, `LookupsReturn` and
`RefreshesRun`, are model-checked alone.

## The parts of `MCParts`

Nine parts share no state with the session, the cache or each other. Each has a
module of its own, with its own specification (`PolicySpec`, `KeysSpec`,
`PoolSpec`, `UsageSpec`, `LibrarySpec`, `FlushSpec`, `ExportsSpec`, `DeepSpec`,
`EncoderSpec`), about which its theorems speak. One run, `parts`, checks all nine: `MCParts` extends them, and the
variable `which`, chosen in the initial state, says which of them moves. The
behaviours of `PartsSpec` are exactly those of the nine; the view drops the
variables that stand still.

### The MCP key store: `McpKeys`, `KeySet`

`McpKeyStore` keeps the keys of the page in a vector and in a file. `write_mu_`
lets one change through at a time; `mu_` guards the vector only, so a reader sees
the old vector while the file is written.

| Code | Actions |
|---|---|
| `create`, `remove`, `adopt` up to the write | `Create`, `Remove`, `Adopt`, with all their refusals |
| `atomic_write_file`: temporary file, `fsync`, `rename`, `fsync` of the directory | `SyncTemp`, `Rename`, `SyncDirectory`, `WriteFails` |
| `keys_ = candidate` and the answer | `Publish` |
| kill, power loss, constructor | `KillStore`, `PowerLossStore`, `StartStore` |

`disk.file` is what the path names, and `disk.survivors` what it can name after a
power loss: a rename is on the disk only when the directory is synced, and the
failure of that is not told. A file whose bytes were never synced would come back
as `Torn`; `RenameUnsynced`, the form of `Rename` with that bug, shows that the
properties see it.

`KeySet` is what the page relies on: a set of keys that changes one whole change
at a time. A change is on the disk before its caller is told, a refused one left
nothing, a kill takes nothing back, and a power loss leaves a set that was written
as a whole. `KeySetIsAtomic` is the refinement `McpKeys!KeysSpec => KeySet!Spec`
with the mapping at the end of `McpKeys`: the keys in force are those of the
vector, or of the file while there is no process; the change is the candidate. In
the static mode the page has no key in force at all; the mapping takes the file
then too, because the file is what the next hybrid start serves.

The constructor loads a file that is well formed (`WellFormed`: whole, not too many
keys, no name twice) and not over 4 MiB (`TooLarge`). The checks of the changes go
with the first: `OnlySizeIsRefused` says that every file that can be found is well
formed. No change looks at the size that its file gets, and the limits of one key
(256 patterns of databases of 256 bytes, 1000 keys) let it go far past 4 MiB: the
change succeeds, and the next start is refused. The model has such files
(`KeySizes` are the bytes that a key can take, `MaxFileBytes` the room for them, and
two keys of two bytes do not fit into three), and with one of them `StartStore` can
only start the static mode.

Left out: secrets and their hashes and `last_used`, and of the lists of hosts, tools
and databases all but their size. They are data of a key which no guard of the three
changes reads.

### Policy decisions and creators: `PolicyAccess`

`PdpClient::decide` answers from its cache or asks the policy decision point (PDP),
in several requests when there are many questions; `McpCreatorAccess` keeps the
state of a key (active, or an orphan whose creator is gone) on top of that, and
`decide_use` takes one unit of a budget for a call. The module models one key and
its creator, tool calls (`CallTool`) and the page's adoption (`Forget`, which drops
the kept state and asks again).

| Code | Actions |
|---|---|
| `McpCreatorAccess::state`, `forget`, `call` | `LookUp`, `Forget`, `Concludes`, `OthersDecided` |
| `PdpClient::decide`, `ask_chunk`, `cache_store` | `Decide`, `Arrives`, `ArrivesInvalid`, `NoneComes` |
| `ensure_metadata`, `discover`, in a decide and in a use | `PlansRequests`, `SendsUse` |
| `PdpClient::decide_use` | `LooksUpUse`, `SendsUse`, `UseArrives`, `UseFails` |
| the PDP (external) | `PdpDecides`, `PdpTakes`, `ChangePolicy` |

The PDP decides at one moment of a request and the answer arrives at a later one,
so two requests can answer a question in the other order around a change of the
policy. `since[q]` is history: how long ago the policy last said what it says in
`q`. `GrantsAreRecent` and `OrphansAreGone` bound that age for what was let through
and for what was refused for good; the bound `AnswerAge` adds up the lifetimes that
the code has: the way of an answer, its time in the cache, the read of the metadata,
the other requests of a split call, and, for an orphan, the period of the kept state.

The metadata is read between the look at the cache and the first request, by this
thread or by another one that it waits for, and takes up to a timeout (`MetadataTime`
is the tick after it, in which the wait ends). The deadline of a split call counts
from the first request, so this time comes on top (`Asking`). A use may read the
metadata once more, and then waits `usage_timeout`: the time that the PDP published
and a second, from `Timeout` up to `UseTimeout` and chosen freely. The bound of
`GrantsAreRecent` therefore is `AnswerAge + MetadataTime + UseTimeout`. With the
values that the configuration has when nothing is set the last of these is the
largest by far: up to 121 seconds, against a `timeout` of half a second.

Abstractions: time passes in ticks and only while every request waits for the
network (computing takes none). The transport ends a wait at its deadline; it looks
up the name of the PDP without one (`pdp_transport.cpp:181`), and what that takes
longer comes on top of the bounds. The oldest entries of a full cache may go at each
store, chosen freely. What the metadata says is not modelled but for the time of a
use; the read of it takes any time up to its timeout and may fail at any moment.
Policies of the start are all or nothing; changes reach all others. In the run the
policy changes only while something of the one before is on its way, kept or decided
on, since otherwise nothing is there that could be old, and the first of its two
requests is a tool call (`PolicyIsSmall`).

### The connection pool: `ClientPool`

| Code | Actions |
|---|---|
| `acquire` under `mu_`, its wait and timeout | `Acquire`, `LooksAgain`, `WaitEnds` |
| ping and open, without `mu_` | `Ping`, `OpenClient`, `OpenFails` |
| `give_back`, `release`, `invalidate` | `OpenFails`, `Release`, `MarkDirty` |
| `reap_idle`, and time | `ReapIdle`, `IdleTime` |

A key of the pool is a host and whether its receives have a limit; leases are
counted by host. `waits` and `woken` are the two places of a thread in the wait:
`notify_one` moves one from the first to the second, and there need be none. Three
threads and two leases of one host give the cases that matter: two hold, one
waits, is woken and overtaken. One idle place makes a returned connection
compete for it, three sockets are what three threads can have open.

`NoStrandedWaiter` has `Cardinality(Hosts) = 1` in it: `lease_cv_` is shared by all
hosts, and with two of them the one that is woken may be of the other host. The
free lease is then found by the timeout of the wait. The hazard of `PROJECT.json`
says so; for several hosts there is no property, as nothing in the repository
promises more.

The destructor is left out: every caller and every lease keeps the pool alive.

### Usage accounting: `McpUsage`

`McpUsage` counts requests of keys, or of people in the identity mode, and
`save_if_due` writes them to the file of the instance. The mark `dirty` is cleared
before the first entry is taken, entries are taken one at a time, and calls go on
counting between them (`SaveBegins`, `OpensSave`, `TakesEntry`, `CommitsSave`,
`SaveEnds`, `RecordUse`, `DeleteKey`). `OpensSave` is
`McpUsageFileStore::begin`, which refuses when the header of the file says that
another process of the same name wrote it a short time ago. Processes start
(`StartUsage`), end or are killed (`ProcessEnds`) and start again. A start does what
the constructor and `sync_live_keys` do, in their order: the deleted entries of the
file are capped, keys that are back take theirs again, and the rest is capped once
more. So a key that is back can lose its requests when the file had more deleted
entries than the bound, which a save that deletions went past can leave: a key that
the save took while it was deleted may be dropped from memory, while the save goes on
to take the next one.
`SavesForgetNothing` names this as its one exception.

The instance has three minutes and room for one deleted entry. `UsageIsSmall` bounds
it to two starts of one process with two keys (both are deleted around a save, and one
is back at the next start), three starts with one key, or two processes of one name
with one key (a process that saved, one that finds its file, and a restart of one of
them, that one while no key is deleted; one request is enough to be lost between the
mark and the file).

Abstractions: the cells, tiers and clients of an entry are one number. Saves are a
minute apart (`last < now`), and the whole time of the model is shorter than what
is removed by age, so nothing is. The files of other instances, which a process
reads and prunes, are left out. People (`Subjects`) are in `usage_reload` only.

### The query library: `QueryLibrary`

`QueryLibrary` keeps folders and queries in memory, and a request holds `mu_` from
its look at the file to the end of its write. `Refreshes` is `refresh_locked`:
every request takes an edited file first. `Commits` is `require_editable`,
`check_if_match_locked` and the start of `commit_locked`; `Renames`, `RenameFails`
and `Publishes` are its write. Between the rename and the stat after it an editor
can still come (`Edits`), which is why `slipped` is there: that edit stays unseen,
a hazard of the list, and `FileIsKnown` says that it is the only one that does.

The loader asks less of a tree than the rules of the changes do (`Accepted`):
parents and folders that exist and are of the same host, and no cycle, but neither a
depth nor names. A process starts from any library that it accepts, and an edit
writes, changes or takes out any one item in a way that it accepts, removes the file
or makes it unreadable; longer edits are several of them. `TreeIsSound` is about
both: what is loaded is `Accepted` and every change keeps that; and a change puts no
item out of order (`FolderInOrder`, `QueryInOrder`): one that was not too deep and
had no sibling of its name, or was not there, is so after it. In a library that was
in order at the start and is never edited, everything is in order.

The page's editor (`tab`) holds a revision and sends it with each change.
`tab.fresh` is history: whether the library is still the one the tab loaded or
made. `EditorsKeepUpdates` is about one life of the process, because an edit moves
the revision forward in memory only and a restart takes that of the file again.

`Line` is the chain of a folder up to the top level, written as a recursive
function that stops after as many steps as there are folders, so that a cycle
would be a chain that contains its own start. Three folders, a depth of two and
two names let a move make a subtree too deep, a cycle, or two siblings of one name.
`LibraryIsSmall` bounds the instance to two folders and a query, or three folders, of
which the library of the start has two. An edit that comes while a change is written
removes the file, leaves it as it is or makes it unreadable there (`EditIsSmall`): what
counts of it is that the file is another one. Between two changes it is any edit.

Left out: the import, the texts and descriptions, the migration of version 1, a
library that is not writable, and a second host in the run (the rules compare hosts
all the same).

### The flush gate: `FlushGate`

`ensure_flushed_after(moment)` lets one thread run `SYSTEM FLUSH LOGS` for all that
wait. `Needs` is the moment at which the rows of a caller are there,
`LooksForFlush` the loop under `mu_`, `ServerFlushes` what the server does, and
`FlushEnds` the answer. The gate notes the *start* of the flush as what is covered;
`MomentOfEnd` is the form that notes its end, and violates `RowsAreWritten`.
Three threads are the one that flushes and two that wait with other moments; two
logs let a flush cover a part of what a caller needs. One server is modelled: the
scopes of two share the mutex and nothing else.

### Exports and the stop hooks: `Exports`

A first request puts an export into `ExportJobStore` and answers with a token; a
stream request with the token, a *download*, takes the export out and runs its
statements one after the other.

| Code | Actions |
|---|---|
| `ExportJobStore::put`, `prune_locked` | `Handshake`, `PutJob`, `JobExpires` |
| `handle_export_stream` before the archive | `AsksStream`, `PeeksJob`, `TakesSlot`, `ConsumesJob`, `Preflight`, `TakesUse`, `PutsBack` |
| the content provider and its release callback | `NextStatement`, `AddsHook`, `ConnectsRunner`, `StatementEnds`, `Logged`, `Disconnects`, `ReleasesSlot` |
| `Server::stop`, `add_stop_hook`, `remove_stop_hook` | `StopBegins`, `CopiesHooks`, `CallsHook`, `KillSent` |

The policy is asked between the look at the job (`peek_access`) and its removal
(`consume`), and a refused use puts the job back, into a store that may be full by
then: the job is dropped silently. `OneDownloadPerExport` is the one-time token of
`docs/massive-export.md`; `SlotsAreCounted` goes over every way out of the handler.

The stop raises its flag, copies the hooks under their mutex and calls them one by
one without it, while downloads go on to their next statement. `add_stop_hook`
reads the flag under the same mutex and calls a late hook itself, which is what
`StopMissesNoStatement` rests on. The KILL may come before the statement: the hook
is registered before the client connects, ClickHouse finds nothing to kill, and the
statement runs (`kill = "early"`). The property counts it as told; what ends such a
statement is its own end or `shutdown_timeout_ms`, which is not modelled.

Two downloads, two exports of two statements, one place in the store and one slot:
two requests for one token, a put-back into a full store, a refused slot, and a hook
of one statement that is called when the next one runs.

Left out: the bytes of the SQL as a second bound of the store, the ceilings, and the
archive.

### Jobs of deep analysis, admission and the end of the server: `DeepAnalysis`

A POST of `api/query/deep-analysis` puts a job into the table of jobs, takes a place
of the admission for its host and starts a detached thread, which enters the worker
group of the server. The thread registers a stop hook, analyses, writes its end into
the table and gives back what it has: hook, place, membership of the group.

| Code | Actions |
|---|---|
| the POST: `DeepAnalysisJobs::start`, `Admission::acquire`, the start of the thread | `AsksAnalysis`, `StartJob`, `Admits`, `StartsThread` |
| the thread of the job: `add_stop_hook`, `finish`, `fail`, `cancel_done` | `AddsJobHook`, `EndsJob` |
| what is given back, by the thread or by a POST that is refused: `discard`, `remove_stop_hook`, `give_back`, `leave` | `PaysBack` |
| polls and cancels of the page | `PollsJobs`, `CancelsJob` |
| `Server::stop`, the end of `run`, and of the destructor: `close_and_wait`, or `_Exit` at the deadline | `FlagsStop`, `CopiesJobHooks`, `CallsJobHook`, `ClosesGroup`, `WaitIsOver` |

`work[p].back` is the list of what is still to be given back, in the order of the
code, one step each, because the stop and the destructor come between them.
`LastDebtsUngrouped` leaves the group before the place is given back, and
`ServerOutlivesItsJobs` then sees the destructor go on under a thread that still has
to use the admission. The group is closed after the HTTP library joined the threads
of its requests, so no POST meets a closed group here; the code asks all the same.

A cancelled job stays in the table until its thread saw the cancel, which is what
`OneAnalysisPerRun` rests on (`CancelsJobAtOnce` is the other form). Two things that
the model shows need no property: a job that waits for a place counts as running,
and running jobs are never dropped, so the table can have more than the 16 jobs of
`docs/query-analysis.md`; and a second POST can be answered with the id of a job
that is discarded afterwards, so that its first poll finds nothing.

Of the jobs that ended only the number is kept, since nothing else decides what
happens; by the size of the results more of them may go at any time one ends. Of
the classes of the admission one is modelled, for one host; the others are the same
code with another bound. A wait for a place ends with a place, at its deadline or at
the stop (`Admits` finds none at any time there is none).

Three POSTs, two runs, a table of one job and two places: two requests for one run
with a third that takes the place or the room of the first.

### The block encoder: `BlockEncoder`

From the second block of a result on a thread of its own encodes, and the receiver
hands it blocks through a queue of a few. `Submits`, `SubmitWaits` and
`SubmitThrows` are `submit`; `StopsEncoder` and `Joins` are `finish`, or the
destructor when the statement failed; `LooksForBlock`, `TellsRoom`, `Encodes`,
`EncodeThrows` and `TellsError` are `run`, with each notification, which comes after
the mutex was given back, a step of its own. A thread that sleeps runs again only
when it is notified. `Revokes` is the flag of `request_cancel`, which notifies
nobody here: `BlocksAreEncoded` says why a submit that sleeps is woken all the same.

Four blocks and a queue of two: the queue fills, drains and fills again.

### What is checked

| Run | Instance | Properties |
|---|---|---|
| `parts`, policy | two questions, one in a request; lifetimes and timeouts of one tick, a use of one or two; two requests on two threads, the first a tool call; one change of the policy | `GrantsAreRecent`, `OrphansAreGone`, `UsesAreCounted` |
| `parts`, keys | two keys of the page of one or two bytes in a file of three, three names of which one belongs to the configuration, a person and the open mode, one caller, one crash | `KeySetIsAtomic`, `OnlySizeIsRefused` |
| `parts`, pool | one host, three threads, two leases, one idle place, three sockets | `LeasesAreCounted`, `SocketsHaveOneOwner`, `NoStrandedWaiter` |
| `parts`, usage | one or two processes of one name with three starts and one key, or one process with two starts and two keys; three minutes | `UnsavedIsDirty`, `SavesForgetNothing`, `RestartIsNoConflict` |
| `parts`, library | three folders, or two and a query, two names, depth two, any two items at the start, two more revisions, one edit or restart | `TreeIsSound`, `FileIsKnown`, `EditorsKeepUpdates` |
| `parts`, flush | three threads, two logs, four moments | `RowsAreWritten` |
| `parts`, exports | two downloads, two exports of two statements, one pending export, one slot | `OneDownloadPerExport`, `SlotsAreCounted`, `StopMissesNoStatement` |
| `parts`, deep analysis | three POSTs for two runs, a table of one job, two places | `OneAnalysisPerRun`, `ServerOutlivesItsJobs` |
| `parts`, encoder | four blocks, a queue of two | `BlocksAreEncoded` |
| `policy_late` | one thread, `TTL` of six ticks, three requests | `PolicyAppliesInTime` is violated |
| `usage_reload` | one process, one key, two people, room for two entries | `FileCanBeLoaded` is violated |

`PartsTypeOK` is the type invariant of the part that moves. Deadlock is not
checked: all nine stop at the bounds of the model. Fairness is not stated, as none
of the properties is about what must come; where a wait matters (`NoStrandedWaiter`)
the property says who has been told. The bounds on requests, changes, crashes, boots, revisions,
edits and moments are constants of the modules (`MaxRequests`, `MaxChanges`,
`MaxCrashes`, `MaxSurvivors`, `MaxBoots`, `MaxNow`, `MaxCount`, `MaxRevision`,
`MaxEvents`, `MaxClock`, `MaxReceived`, `Horizon`), and `MCParts` says in `PolicyIsSmall`,
`UsageIsSmall`, `EditIsSmall` and `LibraryIsSmall` what the run does not explore. What a part has
two or three of is symmetric in two of them where the part treats them alike
(`Two`, `Pair`): threads, keys, names, sockets, logs, downloads, exports, processes,
runs and POSTs. The views leave out what no later step and no property reads: of the
policy, caches, ages and the kept state when no request will ask for them, and ages
past the largest bound; of the usage, headers but for what a save compares of them.

What the violated runs show:

- `policy_late`: `McpCreatorAccess` keeps a state for `cache_ttl`, although the
  answer it was made of may have been in the cache of the PDP client for
  `cache_ttl` already. A key whose creator is known again is refused for almost
  twice `cache_ttl`; the documentation says that a change applies after `cache_ttl`
  at most. The property grants all the time that the requests of a decision can take
  on top of one `cache_ttl` (`AnswerAge`), and the run breaks it all the same, because
  its `cache_ttl` is longer than they are, as it is with the values of the configuration.
  `OrphansAreGone`, which holds, has the sum in it.
- `usage_reload`: `mark_deleted` makes an entry for a deleted key that was never
  used, without the bound that `record` has. When the entries are at the bound, the
  next save writes one more than the store accepts, and the next start stops with
  a file that is not valid. The header says that the file of the store has no more
  entries than the state.

### What is proved

Each for every value of the constants, under the assumption of its module.

| Module | Theorem | Statement |
|---|---|---|
| `Mcp_proofs` | `StoreImplementsKeySet` | `KeysSpec => KeySetIsAtomic` |
| | `OnlySizeIsRefusedAlways` | `KeysSpec => []OnlySizeIsRefused` |
| | `GrantsStayRecent` | `PolicySpec => GrantsAreRecent` |
| | `OrphansAreTrulyGone` | `PolicySpec => OrphansAreGone` |
| | `UsesStayCounted` | `PolicySpec => UsesAreCounted` |
| | `PolicyTypeCorrect` | `PolicySpec => []PolicyTypeOK` |
| | `KeysTypeCorrect` | `KeysSpec => []KeyTypeOK` |
| | `OwnFileIsNoConflict` | `UsageSpec => RestartIsNoConflict` |
| | `UnsavedIsMarked` | `UsageSpec => []UnsavedIsDirty` |
| | `SavesKeepRequests` | `UsageSpec => SavesForgetNothing` |
| | `UsageTypeCorrect` | `UsageSpec => []UsageTypeOK` |
| `Waiters_proofs` | `LeaseLimitHolds` | `PoolSpec => []LeasesAreCounted` |
| | `FreeLeaseIsAnnounced` | `PoolSpec => []NoStrandedWaiter` |
| | `OneOwnerAlways` | `PoolSpec => []SocketsHaveOneOwner` |
| | `ToldMeansWritten` | `FlushSpec => []RowsAreWritten` |
| | `BlocksReachTheResult` | `EncoderSpec => []BlocksAreEncoded` |
| | `PoolTypeCorrect` | `PoolSpec => []PoolTypeOK` |
| | `FlushTypeCorrect` | `FlushSpec => []FlushTypeOK` |
| | `EncoderTypeCorrect` | `EncoderSpec => []EncoderTypeOK` |
| `StopHooks_proofs` | `ExportRunsOnce` | `ExportsSpec => []OneDownloadPerExport` |
| | `SlotsComeBack` | `ExportsSpec => []SlotsAreCounted` |
| | `StopFindsEveryStatement` | `ExportsSpec => []StopMissesNoStatement` |
| | `OneAnalysisAtATime` | `DeepSpec => []OneAnalysisPerRun` |
| | `JobsEndBeforeServer` | `DeepSpec => []ServerOutlivesItsJobs` |
| | `ExportTypeCorrect` | `ExportsSpec => []ExportTypeOK` |
| | `DeepTypeCorrect` | `DeepSpec => []DeepTypeOK` |
| `QueryLibrary_proofs` | `FileIsKnownAlways` | `LibrarySpec => []FileIsKnown` |
| | `EditorsSeeWhatTheyChange` | `LibrarySpec => EditorsKeepUpdates` |
| | `TreeIsAlwaysSound` | `LibrarySpec => []TreeIsSound` |
| | `LibraryTypeCorrect` | `LibrarySpec => []LibraryTypeOK` |
| `Parts_proofs` | `PartsAreApart` | `PartsSpec =>` the specification of each part |
| | `PartsAreTyped` | `PartsSpec => []PartsTypeOK` |

The arguments:

- `Mcp_proofs`, the keys. `KeyInv` ties the file to the place of the write
  (`FileFollows`): before the rename the file has the keys of the vector, after it
  those of the change, and only the hybrid mode writes. `AllWellFormed` says of the
  vector, the file, every survivor and the change at once that they pass every check
  of the constructor but that of the size; it is inductive because each change keeps it
  (`CreatedWellFormed`, `RemovedWellFormed`, `AdoptedWellFormed`), and because the checks
  run on the vector that the change is made from. Nothing bounds the size, which is why
  the theorem does not say that the server starts again. The refinement follows: `SetSteps` maps each
  action to its step of `KeySet` or to a stutter.
- `Mcp_proofs`, the policy. `PolicyInv` keeps the age of everything that the server
  has of the PDP: an answer in the cache of the client is no older than its timeout and
  the part of the ttl that is over (`CacheOK`), and so is a state that the creator
  access keeps, with both ttls (`KeptOK`). A decision on its way (`OnTheWay`) counts how
  long it has waited against the deadline of its batch, and what it has decided so far
  is recent by the time it took (`Decided`). The wait for the metadata of the PDP comes
  before the deadline of the batch starts, and so it has a bound of its own
  (`ForMetadata`, `MetadataTime`); the use waits for its metadata once more and then for
  `UseTimeout` (`ForUse`). `AnswersToldAreRight` puts these together
  where a request ends. The assumption has three facts beside the types: questions are
  finite and are not the names of the use and of a gone creator;
  `Timeout <= BatchTimeout`, without which the configuration refuses to start; and
  `Timeout <= UseTimeout`, because `usage_timeout` is the larger of the two times.
- `Waiters_proofs`, the pool. `Counted` is `LeasesAreCounted` as an invariant of the sets
  of threads; a step moves one thread into or out of the leases of one host.
  `Awaited` is inductive beside it: a lease that ends while somebody sleeps wakes
  one, and a woken thread that gives up or sleeps again found all leases taken.
- `Waiters_proofs`, the owners of connections. `OneOwner` says that no two places (a
  thread, an idle list and its index) have the same connection, and that no idle one is
  marked dirty. The sweep of an idle list is a recursive function in the model; what it
  keeps is a part of the list in its order (`PartOf`), by induction over the length.
- `Mcp_proofs`, the usage. `SeesItsOwn`: while a process is up, a file that any start of
  it wrote is the one it saw last, because it saw the file when it started, and
  from then on only the process itself, or another one, replaces it.
- `Mcp_proofs`, what a save loses. `Tracks` bounds the rows of a save between the
  file that it saw and the entries that go on counting beside it; `Marked` says that a
  process that is not dirty has its entries in the file that it wrote; `Old` orders the
  headers of the starts of one process, so that a file with its boot is its own. `Safe`
  are the keys for which the bound holds: a key that is there, unless the file had more
  deleted keys than `MaxDeleted` and the key was one of them. The constructor caps before
  `sync_live_keys` takes a key back, and drops such a key with its requests.
- `QueryLibrary_proofs`. `WriteInv` says that the change on its way has the next
  revision and that its file is the one on the disk from the rename on; `KnownInv`
  is `FileIsKnown` for every step but that of a rename in progress; `TabInv` says
  that a tab with the revision of the library has seen the library. Each change is
  reduced to `Commits` of a well-formed library (`ChangesCommit`).
- `QueryLibrary_proofs`, the tree. `Line` climbs from a folder to its top and is a
  recursive function with as many steps as there are folders. `LineIsLeast` and its
  companions say that it is the least set closed under parents, so that it has every
  ancestor although it stops; a move under a folder is then sound when the folder is
  not in the line of its new parent (`Grafted`, `GraftIsTree`, `GraftIsDeep`). What holds of every
  library is `Accepted`, which is all that the loader asks of a file (`SoundInv`):
  parents and folders of queries are there and of the same host, and no folder is above itself. An edited file may be too deep
  or have two siblings of one name, and stays so. Each change then `Follows` the library it is made
  from: what it touches is in order, and nothing else goes out of order
  (`FolderFollows`, `QueryFollows`, `DeletionFollows`, `ChangesFollow`).
- `Waiters_proofs`, the flush gate. A log was written at the latest flush that
  counts for it or later (`FlushMoments`), and what a thread may conclude depends only on
  its own record and on that (`Knows`).
- `Waiters_proofs`, the encoder. `InOrder`: the blocks that are encoded, the one that
  the thread has and those that wait follow each other up to the last one that was
  submitted, unless an error dropped them. `Beside` says where one thread can be
  while the other sleeps; it carries that an error empties the queue, and that the
  thread ends without one only when the queue is empty and closed.
- `StopHooks_proofs`, exports. `OwnPlaces`: an export is in the store, or one download
  has it, or it is gone; what ran for a download is no other's any more, and a job
  that goes back never ran. `Slots` counts the downloads with a slot, and
  `NoneIsMissed` says of each statement before `called` where the stop will find it.
- `StopHooks_proofs`, jobs. `OneJobPerRun` ties the table to the threads: a thread
  that has a job is in it, who is in it has a job or still has to discard it, and no
  two are of one run. `Honest` says that a thread owes something exactly while it
  gives back, and that the thread of a job leaves the group last; with `Counters` an
  empty group then means that nothing is owed (`DebtPaid` is the lemma on the lists).

- The types. Most of a type is kept by the guard or the assignment of one action. Five
  need more: the counters of the pool, the exports and the admission stay at or above
  zero because each is the number of its holders (`Counted`, `Slots`, `Counters`); the
  queue of the encoder stays within its depth because the thread that waits for room
  asks again when it wakes; and the boot of a start is at most the bound of the model
  because the starts of all processes add up to the boots that there were. This last
  sum (`BootsInv`, with the lemmas of `Totals`) needs that the processes are finite,
  which the assumption of `McpUsage` says.
- `Parts_proofs`. The parts share no variable, so that a step of one is a stutter of the
  others (`OnePartMoves`), and a behaviour of the nine side by side is a behaviour of
  each (`PartsAreApart`). What is proved of a part then holds in what the run `parts`
  explores.

Only model-checked here: nothing that `parts` checks. `PolicyAppliesInTime` and
`FileCanBeLoaded` do not hold.

## Plan

What is next, in this order:

1. `ServerLifecycle`: the table of sessions and both sweeps of the destructor over
   several sessions, composed with the wait for the worker group of `DeepAnalysis`.
2. `QueryRegistry`.

## Not modelled

- The formatter, scanners, SQL builders, JSON writers, configuration and the pages
  in the browser: functions on text whose state is none. The repository has corpora
  and fuzzers for them; a model would repeat them character by character.
- The ClickHouse protocol client and the transport of the PDP: input and output.
  The modules choose freely among their outcomes.
- The MCP protocol and its tools: a request and its answer; the state that lives
  longer is in the key store, the usage accounting and the policy decisions.
- The query registry, the health checks and the telemetry queue have state of their
  own, and are in the plan or listed with their reason in `PROJECT.json`.
