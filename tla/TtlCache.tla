------------------------------ MODULE TtlCache ------------------------------
(***************************************************************************)
(* The cache of what the server reads from ClickHouse, with its background *)
(* refresher (src/src/ttl_cache.hpp).                                      *)
(*                                                                         *)
(* A step is what a thread does under one hold of the mutex of the cache   *)
(* (or of the refresher).  A fetch runs between two steps of its thread.   *)
(* An entry is a slot of memory: a thread can hold one that has left the   *)
(* map.  Ages are classes, and time passes at any moment.                  *)
(*                                                                         *)
(* A request with Options::bypass touches none of this and is left out.    *)
(* Some definitions follow a form of themselves with a bug that the code   *)
(* could have; no action uses it.                                          *)
(***************************************************************************)
EXTENDS Integers, SequencesExt

CONSTANTS
  Readers,      \* threads of requests
  Keys,         \* what is cached
  NSlots,       \* bound of the model: entries in memory
  Workers,      \* threads of CacheRefresher
  MaxQueued,    \* CacheRefresher::max_queued_; 0 when Options::submit is not set
  MaxEntries,   \* Options::max_entries
  MaxBytes,     \* Options::max_bytes
  ValueBytes,   \* the sizes that values have
  ServeStale,   \* Options::serve_stale_on_error
  MaxCalls      \* bound of the model: lookups and invalidations

ASSUME CacheAssumption ==
  /\ NSlots \in Nat /\ MaxQueued \in Nat /\ MaxEntries \in Nat /\ MaxBytes \in Nat /\ MaxCalls \in Nat
  /\ ValueBytes \subseteq Nat
  /\ ServeStale \in BOOLEAN

VARIABLES
  cache,     \* map_, lru_, bytes_ and the entries in memory
  pc,        \* where each reader is in lookup
  req,       \* the locals of its lookup
  answer,    \* what its last lookup returned
  tasks,     \* CacheRefresher::queue_
  worker,    \* what each thread of the refresher does
  stopping,  \* CacheRefresher::stopping_
  epoch,     \* history: how often a newer value of the key was asked for
  calls      \* lookups and invalidations so far

readerVars == <<pc, req, answer>>
refreshVars == <<tasks, worker, stopping>>
vars == <<cache, readerVars, refreshVars, epoch, calls>>

Slots    == 1..NSlots
NoSlot   == 0
KeyBytes == 1

(* The age of a value: within its ttl, within stale_for after it, within     *)
(* max_age, past it.                                                        *)
Fresh   == 0
Stale   == 1
Old     == 2
Expired == 3

(* `at` is the epoch at which the fetch of the value started.               *)
Entry ==
  [gen : Nat, age : Fresh..Expired, started : Nat, done : Nat, minValid : Nat, refreshing : BOOLEAN,
   queued : BOOLEAN, lastOk : BOOLEAN, backoff : BOOLEAN, bytes : Nat, at : Nat]

NewEntry ==
  [gen |-> 0, age |-> Fresh, started |-> 0, done |-> 0, minValid |-> 0, refreshing |-> FALSE,
   queued |-> FALSE, lastOk |-> FALSE, backoff |-> FALSE, bytes |-> KeyBytes, at |-> 0]

Request ==
  [key : Keys, slot : Slots, target : Nat, asked : BOOLEAN, since : Nat, gen : Nat, at : Nat]

Task == [key : Keys, slot : Slots, gen : Nat]
Job  == [key : Keys, slot : Slots, gen : Nat, at : Nat, pc : {"taken", "fetch"}]

TypeOK ==
  /\ cache.map \in [Keys -> Slots \cup {NoSlot}]
  /\ cache.lru \in Seq(Keys)
  /\ cache.bytes \in Nat
  /\ cache.entry \in [Slots -> Entry]
  /\ pc \in [Readers -> {"idle", "wait", "woken", "fetch"}]
  /\ \A r \in Readers : IF pc[r] = "idle" THEN req[r] = <<>> ELSE req[r] \in Request
  /\ answer \in [Readers -> {"none", "value", "outdated", "error"}]
  /\ tasks \in Seq(Task)
  /\ \A w \in Workers : worker[w] = <<>> \/ worker[w] \in Job
  /\ stopping \in BOOLEAN
  /\ epoch \in [Keys -> Nat] /\ calls \in Nat

Init ==
  /\ cache = [map |-> [k \in Keys |-> NoSlot], lru |-> <<>>, bytes |-> 0, entry |-> [s \in Slots |-> NewEntry]]
  /\ pc = [r \in Readers |-> "idle"]
  /\ req = [r \in Readers |-> <<>>]
  /\ answer = [r \in Readers |-> "none"]
  /\ tasks = <<>>
  /\ worker = [w \in Workers |-> <<>>]
  /\ stopping = FALSE
  /\ epoch = [k \in Keys |-> 0]
  /\ calls = 0

-----------------------------------------------------------------------------
(* What the map holds, and what keeps an entry in memory.                   *)
Mapped(c)      == {k \in Keys : c.map[k] # NoSlot}
EntryOf(c, k)  == c.entry[c.map[k]]
Put(c, s, e)   == [c EXCEPT !.entry[s] = e]

Held(s) ==
  \/ \E k \in Keys : cache.map[k] = s
  \/ \E r \in Readers : pc[r] # "idle" /\ req[r].slot = s
  \/ \E i \in DOMAIN tasks : tasks[i].slot = s
  \/ \E w \in Workers : worker[w] # <<>> /\ worker[w].slot = s

(* erase_locked, of several keys: those that stay keep their order.         *)
Without(s, V) ==
  LET rest[i \in 0..Len(s)] == IF i = 0 THEN <<>> ELSE IF s[i] \in V THEN rest[i - 1] ELSE Append(rest[i - 1], s[i])
  IN  rest[Len(s)]

SumBytes(c, V) == MapThenSumSet(LAMBDA k : EntryOf(c, k).bytes, V)

Erased(c, V) ==
  [c EXCEPT !.map = [k \in Keys |-> IF k \in V THEN NoSlot ELSE c.map[k]],
            !.lru = Without(c.lru, V),
            !.bytes = @ - Min({@, SumBytes(c, V)})]

(* enforce_limits_locked: from the least recently used key on, the entries  *)
(* that may go, while the cache is too large.                               *)
Evictable(c, keep) == {k \in Mapped(c) \ keep : ~EntryOf(c, k).refreshing}
Fits(c)            == Cardinality(Mapped(c)) <= MaxEntries /\ c.bytes <= MaxBytes
Before(c, j, k)    == \E m, n \in DOMAIN c.lru : m < n /\ c.lru[m] = j /\ c.lru[n] = k

Victims(c, keep) ==
  {V \in SUBSET Evictable(c, keep) :
    /\ \A k \in V, j \in Evictable(c, keep) \ V : Before(c, j, k)
    /\ Fits(Erased(c, V)) \/ V = Evictable(c, keep)
    /\ \A k \in V : ~Fits(Erased(c, {j \in V : Before(c, k, j)}))}

Enforced(c, keep) == {Erased(c, V) : V \in Victims(c, keep)}

(* sweep_locked, which runs at most once in an interval.                    *)
Swept(c) ==
  Erased(c, {k \in Mapped(c) : LET e == EntryOf(c, k) IN
                                 ~e.refreshing /\ IF e.gen > 0 THEN e.age = Expired ELSE e.done > 0 /\ ~e.backoff})

(* find_or_insert_locked.                                                   *)
Listed(c, k)   == [c EXCEPT !.lru = <<k>> \o Without(@, {k})]
Inserted(c, k, s) ==
  [Listed(c, k) EXCEPT !.map[k] = s, !.entry[s] = NewEntry, !.bytes = @ + KeyBytes]

FreeSlots == {s \in Slots : ~Held(s)}

Found(k) ==
  IF k \in Mapped(cache) THEN {Listed(cache, k)}
  ELSE IF FreeSlots = {} THEN {}
  ELSE UNION {Enforced(Inserted(c, k, CHOOSE s \in FreeSlots : TRUE), {k}) : c \in {cache, Swept(cache)}}

-----------------------------------------------------------------------------
(* Entries.                                                                 *)
Servable(e, age) == e.gen > 0 /\ e.gen >= e.minValid /\ e.age <= age

InvalidatedByDone(e) == [e EXCEPT !.minValid = e.done + 1]
Invalidated(e)       == [e EXCEPT !.minValid = e.started + 1]

Begun(e)       == [e EXCEPT !.refreshing = TRUE, !.started = @ + 1]

(* complete_locked, of fetch number g: b is what its value weighs.          *)
Failed(e, g)       == [e EXCEPT !.refreshing = FALSE, !.done = g, !.lastOk = FALSE, !.backoff = TRUE]
Fetched(e, g, b, at) ==
  [e EXCEPT !.refreshing = FALSE, !.done = g, !.lastOk = TRUE, !.backoff = FALSE, !.gen = g, !.age = Fresh,
            !.bytes = KeyBytes + b, !.at = at]

Outcomes(e, g, at) == {Failed(e, g)} \cup {Fetched(e, g, b, at) : b \in ValueBytes}

(* The map forgets an entry that a thread still fetches: its bytes are no    *)
(* longer those of the cache.                                               *)
StoredUnlisted(c, k, s, e) ==
  LET d == [Put(c, s, e) EXCEPT !.bytes = @ - c.entry[s].bytes + e.bytes] IN
  IF c.map[k] = s THEN Enforced(d, {}) ELSE {d}

StoredOverLimit(c, k, s, e) ==
  IF c.map[k] = s
  THEN {[Put(c, s, e) EXCEPT !.bytes = @ - Min({@, c.entry[s].bytes}) + e.bytes]}
  ELSE {Put(c, s, e)}

Stored(c, k, s, e) ==
  IF c.map[k] = s
  THEN Enforced([Put(c, s, e) EXCEPT !.bytes = @ - Min({@, c.entry[s].bytes}) + e.bytes], {})
  ELSE {Put(c, s, e)}

(* outcome_locked, and the answer that a timeout gives.                     *)
Told(e, since)     == IF e.at >= since THEN "value" ELSE "outdated"
StaleOrError(e, since) == IF ServeStale /\ Servable(e, Old) THEN Told(e, since) ELSE "error"
Outcome(e, since)  == IF e.lastOk /\ e.gen > 0 THEN Told(e, since) ELSE StaleOrError(e, since)

-----------------------------------------------------------------------------
(* lookup.                                                                  *)
Returns(r, a) ==
  /\ pc' = [pc EXCEPT ![r] = "idle"]
  /\ req' = [req EXCEPT ![r] = <<>>]
  /\ answer' = [answer EXCEPT ![r] = a]

Fetches(r, q, g) ==
  /\ pc' = [pc EXCEPT ![r] = "fetch"]
  /\ req' = [req EXCEPT ![r] = [q EXCEPT !.gen = g, !.at = epoch'[q.key]]]
  /\ UNCHANGED answer

Waits(r, q) ==
  /\ pc' = [pc EXCEPT ![r] = "wait"]
  /\ req' = [req EXCEPT ![r] = q]
  /\ UNCHANGED answer

(* A background refresh that has not started yet: the reader runs it now.   *)
TakenOver(e) == [e EXCEPT !.queued = FALSE, !.minValid = Min({@, e.started})]

RecentFailure(e, q) == ~q.asked /\ e.done > 0 /\ ~e.lastOk /\ e.backoff

(* One round of the loop of lookup, on the cache c.                         *)
Round(r, c, q) ==
  LET e == c.entry[q.slot] IN
  \/ /\ e.done >= q.target
     /\ cache' = c /\ Returns(r, Outcome(e, q.since))
  \/ /\ e.done < q.target /\ e.refreshing /\ e.queued
     /\ cache' = Put(c, q.slot, TakenOver(e)) /\ Fetches(r, q, e.started)
  \/ /\ e.done < q.target /\ e.refreshing /\ ~e.queued
     /\ cache' = c /\ Waits(r, q)
  \/ /\ e.done < q.target /\ ~e.refreshing /\ RecentFailure(e, q)
     /\ cache' = c /\ Returns(r, Outcome(e, q.since))
  \/ /\ e.done < q.target /\ ~e.refreshing /\ ~RecentFailure(e, q)
     /\ cache' = Put(c, q.slot, Begun(e)) /\ Fetches(r, q, e.started + 1)

(* start_background_locked, when the refresher takes the task: otherwise    *)
(* what was begun is put back.                                              *)
Accepts == ~stopping /\ Len(tasks) < MaxQueued

StartsWhileFailing(c, k, s) ==
  LET e == c.entry[s] IN
  IF ~e.refreshing /\ Accepts
  THEN /\ cache' = Put(c, s, [Begun(e) EXCEPT !.queued = TRUE])
       /\ tasks' = Append(tasks, [key |-> k, slot |-> s, gen |-> e.started + 1])
  ELSE cache' = c /\ UNCHANGED tasks

StartsRefused(c, k, s) ==
  LET e == c.entry[s] IN
  IF ~e.refreshing /\ ~e.backoff
  THEN /\ cache' = Put(c, s, [Begun(e) EXCEPT !.queued = TRUE])
       /\ tasks' = IF Accepts THEN Append(tasks, [key |-> k, slot |-> s, gen |-> e.started + 1]) ELSE tasks
  ELSE cache' = c /\ UNCHANGED tasks

StartsRefresh(c, k, s) ==
  LET e == c.entry[s] IN
  IF ~e.refreshing /\ ~e.backoff /\ Accepts
  THEN /\ cache' = Put(c, s, [Begun(e) EXCEPT !.queued = TRUE])
       /\ tasks' = Append(tasks, [key |-> k, slot |-> s, gen |-> e.started + 1])
  ELSE cache' = c /\ UNCHANGED tasks

Called == calls < MaxCalls /\ calls' = calls + 1

(* The first hold of the mutex: a hit, a stale hit, or the first round.     *)
Forced(c, k) == Put(c, c.map[k], Invalidated(EntryOf(c, k)))

Serve(r, k, c, revalidate) ==
  LET s == c.map[k]
      e == c.entry[s]
      q == [key |-> k, slot |-> s, target |-> Max({e.minValid, e.done + 1}), asked |-> e.minValid > e.done,
            since |-> epoch'[k], gen |-> 0, at |-> 0]
  IN \/ /\ Servable(e, Fresh)
        /\ cache' = c /\ Returns(r, Told(e, epoch'[k]))
        /\ UNCHANGED tasks
     \/ /\ ~Servable(e, Fresh) /\ revalidate /\ Servable(e, Stale)
        /\ StartsRefresh(c, k, s) /\ Returns(r, Told(e, epoch'[k]))
     \/ /\ ~Servable(e, Fresh) /\ (revalidate => ~Servable(e, Stale))
        /\ Round(r, c, q)
        /\ UNCHANGED tasks

Lookup(r) ==
  /\ pc[r] = "idle"
  /\ Called
  /\ \E k \in Keys, force, revalidate \in BOOLEAN :
       /\ epoch' = IF force THEN [epoch EXCEPT ![k] = @ + 1] ELSE epoch
       /\ \E c \in Found(k) : Serve(r, k, IF force THEN Forced(c, k) ELSE c, revalidate)
  /\ UNCHANGED <<worker, stopping>>

(* A reader that was notified looks again.                                  *)
Wake(r) ==
  /\ pc[r] = "woken"
  /\ UNCHANGED <<refreshVars, epoch, calls>>
  /\ Round(r, cache, req[r])

(* Options::wait is over while a fetch still runs.                          *)
TimesOut(r) ==
  /\ pc[r] \in {"wait", "woken"}
  /\ LET e == cache.entry[req[r].slot] IN
       /\ e.refreshing /\ e.done < req[r].target
       /\ Returns(r, StaleOrError(e, req[r].since))
  /\ UNCHANGED <<cache, refreshVars, epoch, calls>>

(* run_fetch_locked and complete_locked: the waiters of the entry are        *)
(* notified.                                                                *)
NotifiesOne(s) ==
  LET waiters == {q \in Readers : pc[q] = "wait" /\ req[q].slot = s} IN
  [q \in Readers |-> IF waiters # {} /\ q = CHOOSE w \in waiters : TRUE THEN "woken" ELSE pc[q]]

Notifies(s) == [q \in Readers |-> IF pc[q] = "wait" /\ req[q].slot = s THEN "woken" ELSE pc[q]]

FetchEnds(r) ==
  /\ pc[r] = "fetch"
  /\ LET q == req[r] IN
     \E e \in Outcomes(cache.entry[q.slot], q.gen, q.at) :
       /\ cache' \in Stored(cache, q.key, q.slot, e)
       /\ answer' = [answer EXCEPT ![r] = Outcome(e, q.since)]
       /\ pc' = [Notifies(q.slot) EXCEPT ![r] = "idle"]
       /\ req' = [req EXCEPT ![r] = <<>>]
  /\ UNCHANGED <<refreshVars, epoch, calls>>

(* invalidate, invalidate_prefix and invalidate_all.                        *)
Invalidate ==
  /\ Called
  /\ \E K \in (SUBSET Keys) \ {{}} :
       /\ epoch' = [k \in Keys |-> IF k \in K THEN epoch[k] + 1 ELSE epoch[k]]
       /\ cache' = [cache EXCEPT !.entry = [s \in Slots |->
                      IF \E k \in K : cache.map[k] = s THEN Invalidated(cache.entry[s]) ELSE cache.entry[s]]]
  /\ UNCHANGED <<readerVars, refreshVars>>

-----------------------------------------------------------------------------
(* CacheRefresher::run, and the task of a background refresh.               *)
Take(w) ==
  /\ worker[w] = <<>>
  /\ ~stopping /\ tasks # <<>>
  /\ LET t == Head(tasks) IN
       worker' = [worker EXCEPT ![w] = [key |-> t.key, slot |-> t.slot, gen |-> t.gen, at |-> 0, pc |-> "taken"]]
  /\ tasks' = Tail(tasks)
  /\ UNCHANGED <<cache, readerVars, stopping, epoch, calls>>

RunUnchecked(w) ==
  /\ worker[w] # <<>> /\ worker[w].pc = "taken"
  /\ LET j == worker[w]
         e == cache.entry[j.slot]
     IN /\ cache' = Put(cache, j.slot, [e EXCEPT !.queued = FALSE])
        /\ worker' = [worker EXCEPT ![w] = [j EXCEPT !.pc = "fetch", !.at = epoch[j.key]]]
  /\ UNCHANGED <<readerVars, tasks, stopping, epoch, calls>>

Run(w) ==
  /\ worker[w] # <<>> /\ worker[w].pc = "taken"
  /\ LET j == worker[w]
         e == cache.entry[j.slot]
     IN IF ~e.queued \/ e.started # j.gen
        THEN /\ worker' = [worker EXCEPT ![w] = <<>>]
             /\ UNCHANGED cache
        ELSE /\ cache' = Put(cache, j.slot, [e EXCEPT !.queued = FALSE])
             /\ worker' = [worker EXCEPT ![w] = [j EXCEPT !.pc = "fetch", !.at = epoch[j.key]]]
  /\ UNCHANGED <<readerVars, tasks, stopping, epoch, calls>>

TaskEnds(w) ==
  /\ worker[w] # <<>> /\ worker[w].pc = "fetch"
  /\ LET j == worker[w] IN
     \E e \in Outcomes(cache.entry[j.slot], j.gen, j.at) :
       /\ cache' \in Stored(cache, j.key, j.slot, e)
       /\ pc' = Notifies(j.slot)
  /\ worker' = [worker EXCEPT ![w] = <<>>]
  /\ UNCHANGED <<req, answer, tasks, stopping, epoch, calls>>

(* CacheRefresher::stop: the queued refreshes are dropped.                  *)
StopRefresher ==
  /\ ~stopping
  /\ stopping' = TRUE
  /\ tasks' = <<>>
  /\ UNCHANGED <<cache, readerVars, worker, epoch, calls>>

(* Time.                                                                    *)
Ages(s) ==
  /\ Held(s)
  /\ cache.entry[s].gen > 0 /\ cache.entry[s].age < Expired
  /\ cache' = [cache EXCEPT !.entry[s].age = @ + 1]
  /\ UNCHANGED <<readerVars, refreshVars, epoch, calls>>

BackoffEnds(s) ==
  /\ Held(s)
  /\ cache.entry[s].backoff
  /\ cache' = [cache EXCEPT !.entry[s].backoff = FALSE]
  /\ UNCHANGED <<readerVars, refreshVars, epoch, calls>>

-----------------------------------------------------------------------------
Next ==
  \/ \E r \in Readers : Lookup(r) \/ Wake(r) \/ TimesOut(r) \/ FetchEnds(r)
  \/ Invalidate
  \/ \E w \in Workers : Take(w) \/ Run(w) \/ TaskEnds(w)
  \/ StopRefresher
  \/ \E s \in Slots : Ages(s) \/ BackoffEnds(s)

Spec == Init /\ [][Next]_vars

(* Threads run, and a fetch ends, with a value or with an error: the client *)
(* of ClickHouse has its own timeouts.  No wait of a reader has to time out. *)
Fairness ==
  /\ \A r \in Readers : WF_vars(Wake(r)) /\ WF_vars(FetchEnds(r))
  /\ \A w \in Workers : WF_vars(Take(w)) /\ WF_vars(Run(w)) /\ WF_vars(TaskEnds(w))

FairSpec == Spec /\ Fairness

-----------------------------------------------------------------------------
(* The threads that fetch, and the entry that each of them fills.           *)
Fetching(s) ==
  {<<"reader", r>> : r \in {r \in Readers : pc[r] = "fetch" /\ req[r].slot = s}}
    \cup {<<"worker", w>> : w \in {w \in Workers : worker[w] # <<>> /\ worker[w].pc = "fetch" /\ worker[w].slot = s}}

(* lookup: a request never gets a value whose fetch began before the        *)
(* request forced a newer one, or before an invalidation that came before   *)
(* the request, be it a hit, a stale answer, a shared fetch or a timeout.   *)
AnswersAreCurrent == \A r \in Readers : answer[r] # "outdated"

(* begin_fetch_locked, the takeover and the queued task: an entry that      *)
(* refreshes is filled by one thread, or waits in the queue of the          *)
(* refresher for one; all the others wait for it.                           *)
OneFetchPerEntry ==
  \A s \in Slots : Held(s) =>
    /\ \A f, g \in Fetching(s) : f = g
    /\ Fetching(s) # {} <=> cache.entry[s].refreshing /\ ~cache.entry[s].queued

(* enforce_limits_locked: bytes_ is what the entries of map_ weigh and lru_   *)
(* lists the keys of it, each of them once, also when a fetch ends for an    *)
(* entry that the map has forgotten; and the cache is over its limits only   *)
(* while every entry of it is being fetched.                                *)
CacheIsBounded ==
  /\ cache.bytes = SumBytes(cache, Mapped(cache))
  /\ ToSet(cache.lru) = Mapped(cache)
  /\ Len(cache.lru) = Cardinality(Mapped(cache))
  /\ Fits(cache) \/ \A k \in Mapped(cache) : EntryOf(cache, k).refreshing

(* failure_backoff: the next fetch after one that failed comes after the    *)
(* back-off, or because a newer value was asked for.                        *)
BackoffHolds ==
  [][\A k \in Keys :
       k \in Mapped(cache) /\ cache'.map[k] = cache.map[k] /\ EntryOf(cache', k).started > EntryOf(cache, k).started
         => ~EntryOf(cache, k).backoff \/ EntryOf(cache', k).minValid > EntryOf(cache, k).done]_vars

(* Every lookup returns, though none of its waits times out.                *)
LookupsReturn == \A r \in Readers : pc[r] # "idle" ~> pc[r] = "idle"

(* A stale answer that started a refresh: the refresh is run, unless the    *)
(* refresher stops.                                                         *)
RefreshesRun == \A s \in Slots : cache.entry[s].queued ~> ~cache.entry[s].queued \/ stopping

-----------------------------------------------------------------------------
(* ttl_cache.hpp, TtlCache: "One fetch per key runs at a time."  Of an      *)
(* entry that was evicted while readers wait for it, that is not so.        *)
OneFetchPerKey ==
  \A r, q \in Readers : pc[r] = "fetch" /\ pc[q] = "fetch" /\ req[r].key = req[q].key => r = q

=============================================================================
