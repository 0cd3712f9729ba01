-------------------------- MODULE TtlCache_proofs --------------------------
(* What holds of the cache for every number of readers, keys, threads of    *)
(* the refresher and every limit: one thread at most fills an entry, and an *)
(* entry that says that it refreshes is filled or queued; no lookup is told *)
(* a value that is older than it asked for; a failed fetch is followed by   *)
(* its back-off; the cache counts its bytes right and stays in its limits.  *)
EXTENDS TtlCache, Totals, SequenceTheorems

-----------------------------------------------------------------------------
(* The part of the types that this argument needs.                          *)
Shape(c) ==
  /\ c = [map |-> c.map, lru |-> c.lru, bytes |-> c.bytes, entry |-> c.entry]
  /\ c.map \in [Keys -> Slots \cup {NoSlot}]
  /\ c.entry \in [Slots -> Entry]

Types ==
  /\ Shape(cache)
  /\ pc \in [Readers -> {"idle", "wait", "woken", "fetch"}]
  /\ req = [r \in Readers |-> req[r]]
  /\ \A r \in Readers : pc[r] # "idle" => req[r] \in Request
  /\ tasks \in Seq(Task)
  /\ worker = [w \in Workers |-> worker[w]]
  /\ \A w \in Workers : worker[w] = <<>> \/ worker[w] \in Job
  /\ epoch \in [Keys -> Nat]

(* Forgets(d, c): d is c, with some of the keys out of the map.             *)
Forgets(d, c) == \A k \in Keys : d.map[k] = c.map[k] \/ d.map[k] = NoSlot

LEMMA MinIs ==
  ASSUME NEW a \in Nat, NEW b \in Nat
  PROVE  Min({a, b}) \in {a, b} /\ Min({a, b}) <= a /\ Min({a, b}) <= b
<1>1. \E x \in {a, b} : \A y \in {a, b} : x =< y
  OBVIOUS
<1> QED BY <1>1 DEF Min

LEMMA MaxIs ==
  ASSUME NEW a \in Nat, NEW b \in Nat
  PROVE  Max({a, b}) \in {a, b} /\ a <= Max({a, b}) /\ b <= Max({a, b})
<1>1. \E x \in {a, b} : \A y \in {a, b} : x >= y
  OBVIOUS
<1> QED BY <1>1 DEF Max

LEMMA ErasedKeeps ==
  ASSUME NEW c, Shape(c), NEW V
  PROVE  /\ Shape(Erased(c, V)) /\ Erased(c, V).entry = c.entry
         /\ Erased(c, V).map = [k \in Keys |-> IF k \in V THEN NoSlot ELSE c.map[k]]
         /\ Forgets(Erased(c, V), c)
<1> DEFINE m == [k \in Keys |-> IF k \in V THEN NoSlot ELSE c.map[k]]
           l == Without(c.lru, V)
           b == c.bytes - Min({c.bytes, SumBytes(c, V)})
<1>1. Erased(c, V) = [c EXCEPT !.map = m, !.lru = l, !.bytes = b]
  BY DEF Erased
<1>2. m \in [Keys -> Slots \cup {NoSlot}]
  BY DEF Shape
<1>3. \A k \in Keys : m[k] = c.map[k] \/ m[k] = NoSlot
  OBVIOUS
<1> HIDE DEF m, l, b
<1>4. Erased(c, V) = [map |-> m, lru |-> l, bytes |-> b, entry |-> c.entry]
  BY <1>1 DEF Shape
<1>5. m = [k \in Keys |-> IF k \in V THEN NoSlot ELSE c.map[k]]
  BY DEF m
<1> QED BY <1>2, <1>3, <1>4, <1>5 DEF Shape, Forgets

LEMMA PutKeeps ==
  ASSUME NEW c, Shape(c), NEW s \in Slots, NEW e \in Entry
  PROVE  Shape(Put(c, s, e)) /\ Put(c, s, e).map = c.map /\ Put(c, s, e).entry = [c.entry EXCEPT ![s] = e]
<1>1. Put(c, s, e) = [map |-> c.map, lru |-> c.lru, bytes |-> c.bytes, entry |-> [c.entry EXCEPT ![s] = e]]
  BY DEF Put, Shape
<1> QED BY <1>1 DEF Shape

LEMMA EnforcedKeeps ==
  ASSUME NEW c, Shape(c), NEW keep, NEW d \in Enforced(c, keep)
  PROVE  Shape(d) /\ d.entry = c.entry /\ Forgets(d, c) /\ \A k \in Keys \cap keep : d.map[k] = c.map[k]
<1>1. PICK V \in Victims(c, keep) : d = Erased(c, V)
  BY DEF Enforced
<1>2. \A k \in V : k \in Keys /\ k \notin keep
  BY DEF Victims, Evictable, Mapped
<1>3. /\ Shape(Erased(c, V)) /\ Erased(c, V).entry = c.entry
      /\ Erased(c, V).map = [k \in Keys |-> IF k \in V THEN NoSlot ELSE c.map[k]]
      /\ Forgets(Erased(c, V), c)
  BY ErasedKeeps
<1> QED BY <1>1, <1>2, <1>3

LEMMA StoredKeeps ==
  ASSUME NEW c, Shape(c), NEW k \in Keys, NEW s \in Slots, NEW e \in Entry, NEW d \in Stored(c, k, s, e)
  PROVE  Shape(d) /\ d.entry = [c.entry EXCEPT ![s] = e] /\ Forgets(d, c)
<1>1. Shape(Put(c, s, e)) /\ Put(c, s, e).map = c.map /\ Put(c, s, e).entry = [c.entry EXCEPT ![s] = e]
  BY PutKeeps
<1>2. CASE c.map[k] # s
  BY <1>1, <1>2 DEF Stored, Forgets
<1>3. CASE c.map[k] = s
  <2> DEFINE f == [Put(c, s, e) EXCEPT !.bytes = @ - Min({@, c.entry[s].bytes}) + e.bytes]
  <2>1. f = [map |-> c.map, lru |-> Put(c, s, e).lru, bytes |-> f.bytes, entry |-> [c.entry EXCEPT ![s] = e]]
    BY <1>1 DEF Shape
  <2>2. Shape(f) /\ f.entry = [c.entry EXCEPT ![s] = e] /\ f.map = c.map
    BY <2>1, <1>1 DEF Shape
  <2>3. d \in Enforced(f, {})
    BY <1>3 DEF Stored
  <2> HIDE DEF f
  <2>4. Shape(d) /\ d.entry = f.entry /\ Forgets(d, f)
    BY <2>2, <2>3, EnforcedKeeps
  <2> QED BY <2>2, <2>4 DEF Forgets
<1> QED BY <1>2, <1>3

(* find_or_insert_locked gives the entry of the key, or one that nothing    *)
(* held.                                                                    *)
Kept(d, k) == d.map[k] \in Slots /\ d.entry = cache.entry /\ d.map = cache.map

Added(d, k) ==
  \E s \in FreeSlots :
    /\ d.map[k] = s /\ d.entry = [cache.entry EXCEPT ![s] = NewEntry]
    /\ \A j \in Keys \ {k} : d.map[j] = cache.map[j] \/ d.map[j] = NoSlot

LEMMA NewEntryIsEntry == NewEntry \in Entry
BY DEF NewEntry, Entry, Fresh, Expired, KeyBytes

LEMMA InsertedKeeps ==
  ASSUME NEW c, Shape(c), NEW k \in Keys, NEW s \in Slots
  PROVE  /\ Shape(Inserted(c, k, s))
         /\ Inserted(c, k, s).map = [c.map EXCEPT ![k] = s]
         /\ Inserted(c, k, s).entry = [c.entry EXCEPT ![s] = NewEntry]
<1> DEFINE l == <<k>> \o Without(c.lru, {k})
           L == Listed(c, k)
<1>1. L = [c EXCEPT !.lru = l]
  BY DEF Listed
<1> HIDE DEF l
<1>2. L = [map |-> c.map, lru |-> l, bytes |-> c.bytes, entry |-> c.entry]
  BY <1>1 DEF Shape
<1>3. Inserted(c, k, s) = [L EXCEPT !.map[k] = s, !.entry[s] = NewEntry, !.bytes = @ + KeyBytes]
  BY DEF Inserted
<1> HIDE DEF L
<1>4. Inserted(c, k, s) = [map |-> [c.map EXCEPT ![k] = s], lru |-> l, bytes |-> c.bytes + KeyBytes,
                           entry |-> [c.entry EXCEPT ![s] = NewEntry]]
  BY <1>2, <1>3
<1> QED BY <1>4, NewEntryIsEntry DEF Shape

LEMMA FoundIs ==
  ASSUME Shape(cache), NEW k \in Keys, NEW d \in Found(k)
  PROVE  Shape(d) /\ (Kept(d, k) \/ Added(d, k))
<1>1. CASE k \in Mapped(cache)
  <2>1. d = Listed(cache, k)
    BY <1>1 DEF Found
  <2>2. d = [map |-> cache.map, lru |-> d.lru, bytes |-> cache.bytes, entry |-> cache.entry]
    BY <2>1 DEF Listed, Shape
  <2> QED BY <1>1, <2>2 DEF Shape, Kept, Mapped
<1>2. CASE k \notin Mapped(cache)
  <2> DEFINE s == CHOOSE x \in FreeSlots : TRUE
  <2>1. FreeSlots # {} /\ \E c \in {cache, Swept(cache)} : d \in Enforced(Inserted(c, k, s), {k})
    BY <1>2 DEF Found
  <2>2. s \in FreeSlots /\ s \in Slots
    BY <2>1 DEF FreeSlots
  <2> HIDE DEF s
  <2>3. PICK c \in {cache, Swept(cache)} : d \in Enforced(Inserted(c, k, s), {k})
    BY <2>1
  <2>4. Shape(c) /\ c.entry = cache.entry /\ Forgets(c, cache)
    <3> DEFINE V == {j \in Mapped(cache) : LET e == EntryOf(cache, j) IN
                      ~e.refreshing /\ IF e.gen > 0 THEN e.age = Expired ELSE e.done > 0 /\ ~e.backoff}
    <3>1. Swept(cache) = Erased(cache, V)
      BY DEF Swept
    <3> HIDE DEF V
    <3>2. Shape(Erased(cache, V)) /\ Erased(cache, V).entry = cache.entry /\ Forgets(Erased(cache, V), cache)
      BY ErasedKeeps
    <3> QED BY <3>1, <3>2 DEF Forgets
  <2>5. /\ Shape(Inserted(c, k, s)) /\ Inserted(c, k, s).map = [c.map EXCEPT ![k] = s]
        /\ Inserted(c, k, s).entry = [c.entry EXCEPT ![s] = NewEntry]
    BY <2>2, <2>4, InsertedKeeps
  <2>6. /\ Shape(d) /\ d.entry = Inserted(c, k, s).entry /\ Forgets(d, Inserted(c, k, s))
        /\ d.map[k] = Inserted(c, k, s).map[k]
    <3> DEFINE I == Inserted(c, k, s)
               K == {k}
    <3>1. d \in Enforced(I, K) /\ Shape(I) /\ k \in Keys \cap K
      BY <2>3, <2>5
    <3> HIDE DEF I, K
    <3>2. Shape(d) /\ d.entry = I.entry /\ Forgets(d, I) /\ d.map[k] = I.map[k]
      BY <3>1, EnforcedKeeps
    <3> QED BY <3>2 DEF I
  <2>7. Added(d, k)
    <3>1. d.map[k] = s
      BY <2>4, <2>5, <2>6 DEF Shape
    <3>2. ASSUME NEW j \in Keys \ {k} PROVE d.map[j] = cache.map[j] \/ d.map[j] = NoSlot
      BY <2>4, <2>5, <2>6 DEF Shape, Forgets
    <3> QED BY <2>2, <2>4, <2>5, <2>6, <3>1, <3>2 DEF Added
  <2> QED BY <2>6, <2>7
<1> QED BY <1>1, <1>2

-----------------------------------------------------------------------------
(* Entries: what each change of one makes of its type and of its marks.     *)
Busy(e) == e.refreshing /\ ~e.queued

LEMMA EntrySteps ==
  ASSUME NEW e \in Entry
  PROVE  /\ Begun(e) \in Entry /\ Begun(e).refreshing /\ Begun(e).queued = e.queued
         /\ [Begun(e) EXCEPT !.queued = TRUE] \in Entry
         /\ [Begun(e) EXCEPT !.queued = TRUE].refreshing /\ [Begun(e) EXCEPT !.queued = TRUE].queued
         /\ TakenOver(e) \in Entry /\ TakenOver(e).refreshing = e.refreshing /\ ~TakenOver(e).queued
         /\ Invalidated(e) \in Entry /\ Invalidated(e).refreshing = e.refreshing /\ Invalidated(e).queued = e.queued
         /\ [e EXCEPT !.queued = FALSE] \in Entry /\ [e EXCEPT !.queued = FALSE].refreshing = e.refreshing
         /\ ~[e EXCEPT !.queued = FALSE].queued
<1>1. e.started + 1 \in Nat /\ Min({e.minValid, e.started}) \in Nat
  BY MinIs DEF Entry
<1>2. Begun(e) \in Entry /\ Begun(e).refreshing /\ Begun(e).queued = e.queued
  BY <1>1 DEF Begun, Entry
<1>3. TakenOver(e) \in Entry /\ TakenOver(e).refreshing = e.refreshing /\ ~TakenOver(e).queued
  BY <1>1 DEF TakenOver, Entry
<1>4. Invalidated(e) \in Entry /\ Invalidated(e).refreshing = e.refreshing /\ Invalidated(e).queued = e.queued
  BY <1>1 DEF Invalidated, Entry
<1>5. /\ [Begun(e) EXCEPT !.queued = TRUE] \in Entry
      /\ [Begun(e) EXCEPT !.queued = TRUE].refreshing /\ [Begun(e) EXCEPT !.queued = TRUE].queued
  BY <1>2 DEF Entry
<1>6. /\ [e EXCEPT !.queued = FALSE] \in Entry /\ [e EXCEPT !.queued = FALSE].refreshing = e.refreshing
      /\ ~[e EXCEPT !.queued = FALSE].queued
  BY DEF Entry
<1> QED BY <1>2, <1>3, <1>4, <1>5, <1>6

LEMMA OutcomeKeeps ==
  ASSUME NEW e \in Entry, NEW g \in Nat, NEW at \in Nat, NEW x \in Outcomes(e, g, at)
  PROVE  x \in Entry /\ ~x.refreshing /\ x.queued = e.queued
<1>1. CASE x = Failed(e, g)
  BY <1>1 DEF Failed, Entry
<1>2. ASSUME NEW b \in ValueBytes, x = Fetched(e, g, b, at)
      PROVE  x \in Entry /\ ~x.refreshing /\ x.queued = e.queued
  <2>1. KeyBytes + b \in Nat /\ Fresh \in Fresh..Expired
    BY CacheAssumption DEF KeyBytes, Fresh, Expired
  <2> QED BY <1>2, <2>1 DEF Fetched, Entry
<1> QED BY <1>1, <1>2 DEF Outcomes

-----------------------------------------------------------------------------
(* Who fills an entry.                                                      *)
Fills(r, s) == pc[r] = "fetch" /\ req[r].slot = s
Runs(w, s)  == worker[w] # <<>> /\ worker[w].pc = "fetch" /\ worker[w].slot = s
Idle(s)     == (\A r \in Readers : ~Fills(r, s)) /\ (\A w \in Workers : ~Runs(w, s))

OneAt(s) ==
  /\ \A r, q \in Readers : Fills(r, s) /\ Fills(q, s) => r = q
  /\ \A w, v \in Workers : Runs(w, s) /\ Runs(v, s) => w = v
  /\ \A r \in Readers, w \in Workers : ~(Fills(r, s) /\ Runs(w, s))
  /\ ~Idle(s) => Busy(cache.entry[s])
  /\ Held(s) /\ Busy(cache.entry[s]) => ~Idle(s)
  /\ cache.entry[s].queued => cache.entry[s].refreshing

FetchInv == \A s \in Slots : OneAt(s)

LEMMA OneAtIsOneFetch ==
  ASSUME FetchInv
  PROVE  OneFetchPerEntry
<1> SUFFICES ASSUME NEW s \in Slots, Held(s)
             PROVE  /\ \A f, g \in Fetching(s) : f = g
                    /\ Fetching(s) # {} <=> cache.entry[s].refreshing /\ ~cache.entry[s].queued
  BY DEF OneFetchPerEntry
<1>1. OneAt(s)
  BY DEF FetchInv
<1>2. \A f \in Fetching(s) : \/ \E r \in Readers : f = <<"reader", r>> /\ Fills(r, s)
                             \/ \E w \in Workers : f = <<"worker", w>> /\ Runs(w, s)
  BY DEF Fetching, Fills, Runs
<1>3. \A r \in Readers : Fills(r, s) => <<"reader", r>> \in Fetching(s)
  BY DEF Fetching, Fills
<1>4. \A w \in Workers : Runs(w, s) => <<"worker", w>> \in Fetching(s)
  BY DEF Fetching, Runs
<1>5. Fetching(s) # {} <=> ~Idle(s)
  BY <1>2, <1>3, <1>4 DEF Idle
<1>6. \A f, g \in Fetching(s) : f = g
  BY <1>1, <1>2 DEF OneAt
<1> QED BY <1>1, <1>5, <1>6 DEF OneAt, Busy

(* Who fills an entry holds it.                                             *)
LEMMA FreeIsIdle ==
  ASSUME NEW s \in Slots, ~Held(s)
  PROVE  Idle(s)
BY DEF Held, Idle, Fills, Runs

(* The ways in which a step leaves a slot in order: nothing happens to it,  *)
(* one reader or one thread starts on it, its fetch ends.                   *)
LEMMA SlotStays ==
  ASSUME NEW s \in Slots, OneAt(s),
         \A r \in Readers : Fills(r, s)' <=> Fills(r, s),
         \A w \in Workers : Runs(w, s)' <=> Runs(w, s),
         Busy(cache'.entry[s]) <=> Busy(cache.entry[s]),
         cache'.entry[s].queued => cache'.entry[s].refreshing,
         Held(s)' => Held(s)
  PROVE  OneAt(s)'
BY DEF OneAt, Idle, Busy

LEMMA SlotIdles ==
  ASSUME NEW s \in Slots, Idle(s)', ~Busy(cache'.entry[s]),
         cache'.entry[s].queued => cache'.entry[s].refreshing
  PROVE  OneAt(s)'
BY DEF OneAt, Idle, Busy

LEMMA SlotStarts ==
  ASSUME NEW s \in Slots, Busy(cache'.entry[s]), ~Idle(s)',
         \A r, q \in Readers : Fills(r, s)' /\ Fills(q, s)' => r = q,
         \A w, v \in Workers : Runs(w, s)' /\ Runs(v, s)' => w = v,
         \A r \in Readers, w \in Workers : ~(Fills(r, s)' /\ Runs(w, s)')
  PROVE  OneAt(s)'
BY DEF OneAt, Idle, Busy

-----------------------------------------------------------------------------
(* Prepared(c, s): c is the cache with, at most, entries evicted and the    *)
(* slot s found, inserted or invalidated.                                   *)
Prepared(c, s) ==
  /\ Shape(c)
  /\ \A t \in Slots \ {s} : c.entry[t] = cache.entry[t]
  /\ \A k \in Keys : c.map[k] \in {cache.map[k], NoSlot, s}
  /\ c.entry[s].queued => c.entry[s].refreshing
  /\ IF Held(s) THEN Busy(c.entry[s]) <=> Busy(cache.entry[s]) ELSE ~Busy(c.entry[s])

(* A reader that looks and neither starts nor ends a fetch.                 *)
Looks(r) ==
  /\ \A x \in Readers \ {r} : pc'[x] = pc[x] /\ req'[x] = req[x]
  /\ pc'[r] # "fetch"

LEMMA QuietRound ==
  ASSUME Types, FetchInv, NEW r \in Readers, pc[r] # "fetch", NEW s \in Slots, NEW c, Prepared(c, s),
         cache' = c, Looks(r), pc'[r] # "idle" => req'[r].slot = s, UNCHANGED <<tasks, worker>>
  PROVE  FetchInv'
<1>1. \A x \in Readers, t \in Slots : Fills(x, t)' <=> Fills(x, t)
  BY DEF Looks, Fills
<1>2. \A w \in Workers, t \in Slots : Runs(w, t)' <=> Runs(w, t)
  BY DEF Runs
<1>3. ASSUME NEW t \in Slots, t # s \/ Held(s) PROVE Held(t)' => Held(t)
  BY <1>3 DEF Held, Looks, Prepared, NoSlot, Slots
<1>4. ASSUME NEW t \in Slots, t # s \/ Held(s) PROVE OneAt(t)'
  <2>1. OneAt(t)
    BY DEF FetchInv
  <2>2. Busy(cache'.entry[t]) <=> Busy(cache.entry[t])
    BY <1>4 DEF Prepared
  <2>3. cache'.entry[t].queued => cache'.entry[t].refreshing
    BY <1>4, <2>1 DEF Prepared, OneAt
  <2> QED BY <1>1, <1>2, <1>3, <1>4, <2>1, <2>2, <2>3, SlotStays
<1>5. ASSUME ~Held(s) PROVE OneAt(s)'
  <2>1. Idle(s)'
    BY <1>1, <1>2, <1>5, FreeIsIdle DEF Idle
  <2>2. ~Busy(cache'.entry[s]) /\ (cache'.entry[s].queued => cache'.entry[s].refreshing)
    BY <1>5 DEF Prepared
  <2> QED BY <2>1, <2>2, SlotIdles
<1> QED BY <1>4, <1>5 DEF FetchInv

(* A reader that begins a fetch of an entry that nobody fills.              *)
LEMMA StartingRound ==
  ASSUME Types, FetchInv, NEW r \in Readers, pc[r] # "fetch", NEW s \in Slots, NEW c, Prepared(c, s),
         NEW e \in Entry, cache' = Put(c, s, e), Busy(e), ~Busy(c.entry[s]),
         \A x \in Readers \ {r} : pc'[x] = pc[x] /\ req'[x] = req[x],
         pc'[r] = "fetch", req'[r].slot = s, UNCHANGED <<tasks, worker>>
  PROVE  FetchInv'
<1>1. cache'.entry = [c.entry EXCEPT ![s] = e] /\ cache'.map = c.map
  BY PutKeeps DEF Prepared
<1>2. Idle(s)
  BY FreeIsIdle DEF Prepared, FetchInv, OneAt
<1>3. \A x \in Readers, t \in Slots : Fills(x, t)' <=> Fills(x, t) \/ (x = r /\ t = s)
  BY DEF Fills
<1>4. \A w \in Workers, t \in Slots : Runs(w, t)' <=> Runs(w, t)
  BY DEF Runs
<1>5. OneAt(s)'
  <2>1. cache'.entry[s] = e
    BY <1>1 DEF Prepared, Shape
  <2>2. \A x \in Readers : Fills(x, s)' <=> x = r
    BY <1>2, <1>3 DEF Idle
  <2>3. \A w \in Workers : ~Runs(w, s)'
    BY <1>2, <1>4 DEF Idle
  <2> QED BY <2>1, <2>2, <2>3, SlotStarts DEF Idle
<1>6. ASSUME NEW t \in Slots \ {s} PROVE OneAt(t)'
  <2>1. OneAt(t) /\ cache'.entry[t] = cache.entry[t]
    BY <1>1 DEF FetchInv, Prepared, Shape
  <2>2. Held(t)' => Held(t)
    BY <1>1 DEF Held, Prepared, NoSlot, Slots
  <2>3. cache'.entry[t].queued => cache'.entry[t].refreshing
    BY <2>1 DEF OneAt
  <2> QED BY <1>3, <1>4, <2>1, <2>2, <2>3, SlotStays
<1> QED BY <1>5, <1>6 DEF FetchInv

LEMMA RoundKeeps ==
  ASSUME Types, FetchInv, NEW r \in Readers, pc[r] # "fetch", NEW q \in Request, NEW c, Prepared(c, q.slot),
         epoch' \in [Keys -> Nat], UNCHANGED <<tasks, worker>>, Round(r, c, q)
  PROVE  Types' /\ FetchInv'
<1> DEFINE s == q.slot
           e == c.entry[s]
<1>1. s \in Slots /\ e \in Entry /\ Shape(c) /\ q.key \in Keys
  BY DEF Request, Prepared, Shape
<1>2. ASSUME NEW a, cache' = c, Returns(r, a)
      PROVE  Types' /\ FetchInv'
  <2>1. Looks(r) /\ pc'[r] = "idle"
    BY <1>2 DEF Returns, Looks, Types
  <2>2. Types'
    BY <1>1, <1>2 DEF Returns, Types
  <2> QED BY <1>1, <1>2, <2>1, <2>2, QuietRound
<1>3. ASSUME cache' = c, Waits(r, q)
      PROVE  Types' /\ FetchInv'
  <2>1. Looks(r) /\ req'[r] = q
    BY <1>3 DEF Waits, Looks, Types
  <2>2. Types'
    BY <1>1, <1>3 DEF Waits, Types
  <2> QED BY <1>1, <1>3, <2>1, <2>2, QuietRound
<1>4. ASSUME NEW x \in Entry, NEW g \in Nat, cache' = Put(c, s, x), Busy(x), ~Busy(e), Fetches(r, q, g)
      PROVE  Types' /\ FetchInv'
  <2> DEFINE n == [q EXCEPT !.gen = g, !.at = epoch'[q.key]]
  <2>1. n \in Request /\ n.slot = s
    BY <1>1, <1>4 DEF Request
  <2>2. pc' = [pc EXCEPT ![r] = "fetch"] /\ req' = [req EXCEPT ![r] = n]
    BY <1>4 DEF Fetches
  <2> HIDE DEF n
  <2>3. Shape(cache')
    BY <1>1, <1>4, PutKeeps
  <2>4. Types'
    BY <2>1, <2>2, <2>3 DEF Types, Shape
  <2>5. /\ pc'[r] = "fetch" /\ req'[r].slot = s
        /\ \A y \in Readers \ {r} : pc'[y] = pc[y] /\ req'[y] = req[y]
    BY <2>1, <2>2 DEF Types
  <2> QED BY <1>1, <1>4, <2>4, <2>5, StartingRound
<1>5. CASE e.done < q.target /\ e.refreshing /\ e.queued /\ cache' = Put(c, s, TakenOver(e)) /\ Fetches(r, q, e.started)
  <2>1. TakenOver(e) \in Entry /\ Busy(TakenOver(e)) /\ ~Busy(e) /\ e.started \in Nat
    BY <1>1, <1>5, EntrySteps DEF Busy, Entry
  <2> QED BY <1>4, <1>5, <2>1
<1>6. CASE ~e.refreshing /\ cache' = Put(c, s, Begun(e)) /\ Fetches(r, q, e.started + 1)
  <2>1. ~e.queued
    BY <1>6 DEF Prepared
  <2>2. Begun(e) \in Entry /\ Begun(e).refreshing /\ Begun(e).queued = e.queued
    BY <1>1, EntrySteps
  <2>3. e.started + 1 \in Nat
    BY <1>1 DEF Entry
  <2>4. Busy(Begun(e)) /\ ~Busy(e)
    BY <1>6, <2>1, <2>2 DEF Busy
  <2> QED BY <1>4, <1>6, <2>2, <2>3, <2>4
<1> QED BY <1>2, <1>3, <1>5, <1>6 DEF Round

-----------------------------------------------------------------------------
(* The steps.                                                               *)
LEMMA FoundIsPrepared ==
  ASSUME Types, FetchInv, NEW k \in Keys, NEW d \in Found(k)
  PROVE  d.map[k] \in Slots /\ Prepared(d, d.map[k])
<1>1. Shape(d) /\ (Kept(d, k) \/ Added(d, k))
  BY FoundIs DEF Types
<1>2. CASE Kept(d, k)
  <2>1. d.map[k] \in Slots /\ Held(d.map[k])
    BY <1>2 DEF Kept, Held
  <2>2. cache.entry[d.map[k]].queued => cache.entry[d.map[k]].refreshing
    BY <2>1 DEF FetchInv, OneAt
  <2> QED BY <1>1, <1>2, <2>1, <2>2 DEF Kept, Prepared
<1>3. CASE Added(d, k)
  <2>1. PICK s \in FreeSlots :
          /\ d.map[k] = s /\ d.entry = [cache.entry EXCEPT ![s] = NewEntry]
          /\ \A j \in Keys \ {k} : d.map[j] = cache.map[j] \/ d.map[j] = NoSlot
    BY <1>3 DEF Added
  <2>2. s \in Slots /\ ~Held(s)
    BY DEF FreeSlots
  <2>3. d.entry[s] = NewEntry /\ \A t \in Slots \ {s} : d.entry[t] = cache.entry[t]
    BY <2>1, <2>2 DEF Types, Shape
  <2>4. ~NewEntry.refreshing /\ ~NewEntry.queued
    BY DEF NewEntry
  <2> QED BY <1>1, <2>1, <2>2, <2>3, <2>4 DEF Prepared, Busy
<1> QED BY <1>1, <1>2, <1>3

LEMMA ForcedIsPrepared ==
  ASSUME NEW k \in Keys, NEW d, d.map[k] \in Slots, Prepared(d, d.map[k])
  PROVE  Prepared(Forced(d, k), d.map[k]) /\ Forced(d, k).map = d.map
<1> DEFINE s == d.map[k]
           e == Invalidated(d.entry[s])
<1>1. Shape(d) /\ d.entry[s] \in Entry
  BY DEF Prepared, Shape
<1>2. e \in Entry /\ e.refreshing = d.entry[s].refreshing /\ e.queued = d.entry[s].queued
  BY <1>1, EntrySteps
<1>3. Forced(d, k) = Put(d, s, e)
  BY DEF Forced, EntryOf
<1> HIDE DEF e
<1>4. Shape(Put(d, s, e)) /\ Put(d, s, e).map = d.map /\ Put(d, s, e).entry = [d.entry EXCEPT ![s] = e]
  BY <1>1, <1>2, PutKeeps
<1>5. Put(d, s, e).entry[s] = e /\ \A t \in Slots \ {s} : Put(d, s, e).entry[t] = d.entry[t]
  BY <1>1, <1>4 DEF Shape
<1> QED BY <1>2, <1>3, <1>4, <1>5 DEF Prepared, Busy

(* A hit, or a stale hit that may queue a refresh.                          *)
LEMMA HitKeeps ==
  ASSUME Types, FetchInv, NEW r \in Readers, pc[r] = "idle", NEW k \in Keys, NEW s \in Slots,
         NEW c, Prepared(c, s), NEW a, Returns(r, a), epoch' \in [Keys -> Nat], UNCHANGED worker,
         (cache' = c /\ UNCHANGED tasks) \/ StartsRefresh(c, k, s)
  PROVE  Types' /\ FetchInv'
<1> DEFINE e == c.entry[s]
<1>1. e \in Entry /\ Shape(c)
  BY DEF Prepared, Shape
<1>2. Looks(r) /\ pc'[r] = "idle" /\ pc' = [pc EXCEPT ![r] = "idle"] /\ req' = [req EXCEPT ![r] = <<>>]
  BY DEF Returns, Looks, Types
<1>3. CASE cache' = c /\ UNCHANGED tasks
  <2>1. Types'
    BY <1>1, <1>2, <1>3 DEF Types
  <2> QED BY <1>2, <1>3, <2>1, QuietRound
<1>4. CASE ~(cache' = c /\ UNCHANGED tasks)
  <2> DEFINE x == [Begun(e) EXCEPT !.queued = TRUE]
             t == [key |-> k, slot |-> s, gen |-> e.started + 1]
  <2>1. ~e.refreshing /\ cache' = Put(c, s, x) /\ tasks' = Append(tasks, t)
    BY <1>4 DEF StartsRefresh
  <2>2. x \in Entry /\ x.refreshing /\ x.queued
    BY <1>1, EntrySteps
  <2>3. t \in Task /\ t.slot = s
    BY <1>1 DEF Task, Entry
  <2> HIDE DEF x, t
  <2>4. Shape(cache') /\ cache'.map = c.map /\ cache'.entry = [c.entry EXCEPT ![s] = x]
    BY <1>1, <2>1, <2>2, PutKeeps
  <2>5. Types'
    <3>1. tasks' \in Seq(Task)
      BY <2>1, <2>3 DEF Types
    <3> QED BY <1>2, <2>4, <3>1 DEF Types
  <2>6. /\ \A y \in Readers, u \in Slots : Fills(y, u)' <=> Fills(y, u)
        /\ \A w \in Workers, u \in Slots : Runs(w, u)' <=> Runs(w, u)
    BY <1>2 DEF Looks, Fills, Runs
  <2>7. OneAt(s)'
    <3>1. Idle(s)
      <4>1. CASE Held(s)
        BY <2>1, <4>1 DEF Prepared, Busy, FetchInv, OneAt
      <4> QED BY <4>1, FreeIsIdle
    <3>2. cache'.entry[s] = x
      BY <1>1, <2>4 DEF Shape
    <3>3. Idle(s)'
      BY <3>1, <2>6 DEF Idle
    <3> QED BY <2>2, <3>2, <3>3, SlotIdles DEF Busy
  <2>8. ASSUME NEW u \in Slots \ {s} PROVE OneAt(u)'
    <3>1. OneAt(u) /\ cache'.entry[u] = cache.entry[u]
      BY <1>1, <2>4 DEF FetchInv, Prepared, Shape
    <3>2. ASSUME NEW i \in DOMAIN tasks', tasks'[i].slot = u PROVE \E j \in DOMAIN tasks : tasks[j].slot = u
      BY <2>1, <2>3, <3>2 DEF Types
    <3>3. Held(u)' => Held(u)
      BY <1>2, <2>4, <3>2 DEF Held, Looks, Prepared, NoSlot, Slots
    <3>4. cache'.entry[u].queued => cache'.entry[u].refreshing
      BY <3>1 DEF OneAt
    <3> QED BY <2>6, <3>1, <3>3, <3>4, SlotStays
  <2> QED BY <2>5, <2>7, <2>8 DEF FetchInv
<1> QED BY <1>3, <1>4

LEMMA ServeKeeps ==
  ASSUME Types, FetchInv, NEW r \in Readers, pc[r] = "idle", NEW k \in Keys, NEW c, c.map[k] \in Slots,
         Prepared(c, c.map[k]), NEW revalidate \in BOOLEAN, epoch' \in [Keys -> Nat], UNCHANGED worker,
         Serve(r, k, c, revalidate)
  PROVE  Types' /\ FetchInv'
<1> DEFINE s == c.map[k]
           e == c.entry[s]
           q == [key |-> k, slot |-> s, target |-> Max({e.minValid, e.done + 1}), asked |-> e.minValid > e.done,
                 since |-> epoch'[k], gen |-> 0, at |-> 0]
<1>1. \/ cache' = c /\ UNCHANGED tasks /\ Returns(r, Told(e, epoch'[k]))
      \/ StartsRefresh(c, k, s) /\ Returns(r, Told(e, epoch'[k]))
      \/ Round(r, c, q) /\ UNCHANGED tasks
  BY DEF Serve
<1>2. s \in Slots /\ e \in Entry /\ Prepared(c, s)
  BY DEF Prepared, Shape
<1>3. q \in Request /\ q.slot = s
  <2>1. e.minValid \in Nat /\ e.done + 1 \in Nat /\ epoch'[k] \in Nat /\ 0 \in Nat
    BY <1>2 DEF Entry
  <2>2. Max({e.minValid, e.done + 1}) \in Nat
    BY <2>1, MaxIs
  <2>3. (e.minValid > e.done) \in BOOLEAN
    BY <1>2 DEF Entry
  <2> HIDE DEF s, e
  <2> QED BY <1>2, <2>1, <2>2, <2>3, Zenon DEF Request
<1> HIDE DEF s, e, q
<1>4. CASE Round(r, c, q) /\ UNCHANGED tasks
  BY <1>2, <1>3, <1>4, RoundKeeps
<1>5. CASE Returns(r, Told(e, epoch'[k])) /\ ((cache' = c /\ UNCHANGED tasks) \/ StartsRefresh(c, k, s))
  BY <1>2, <1>5, HitKeeps
<1> QED BY <1>1, <1>4, <1>5

LEMMA LookupKeeps ==
  ASSUME Types, FetchInv, NEW r \in Readers, Lookup(r)
  PROVE  Types' /\ FetchInv'
<1>1. PICK k \in Keys, force \in BOOLEAN, revalidate \in BOOLEAN :
        /\ epoch' = IF force THEN [epoch EXCEPT ![k] = @ + 1] ELSE epoch
        /\ \E c \in Found(k) : Serve(r, k, IF force THEN Forced(c, k) ELSE c, revalidate)
  BY DEF Lookup
<1>2. PICK d \in Found(k) : Serve(r, k, IF force THEN Forced(d, k) ELSE d, revalidate)
  BY <1>1
<1>3. pc[r] = "idle" /\ UNCHANGED worker
  BY DEF Lookup
<1>4. epoch' \in [Keys -> Nat]
  BY <1>1 DEF Types
<1>5. d.map[k] \in Slots /\ Prepared(d, d.map[k])
  BY FoundIsPrepared
<1>6. Prepared(Forced(d, k), d.map[k]) /\ Forced(d, k).map = d.map
  BY <1>5, ForcedIsPrepared
<1>7. CASE force
  BY <1>2, <1>3, <1>4, <1>5, <1>6, <1>7, ServeKeeps
<1>8. CASE ~force
  BY <1>2, <1>3, <1>4, <1>5, <1>8, ServeKeeps
<1> QED BY <1>7, <1>8

LEMMA WakeKeeps ==
  ASSUME Types, FetchInv, NEW r \in Readers, Wake(r)
  PROVE  Types' /\ FetchInv'
<1>1. pc[r] = "woken" /\ req[r] \in Request /\ Round(r, cache, req[r]) /\ UNCHANGED <<tasks, worker, epoch>>
  BY DEF Wake, Types, refreshVars
<1>2. req[r].slot \in Slots /\ Held(req[r].slot)
  BY <1>1 DEF Request, Held
<1>3. Prepared(cache, req[r].slot)
  BY <1>2 DEF Prepared, Types, FetchInv, OneAt
<1>4. epoch' \in [Keys -> Nat]
  BY <1>1 DEF Types
<1> QED BY <1>1, <1>3, <1>4, RoundKeeps

LEMMA TimesOutKeeps ==
  ASSUME Types, FetchInv, NEW r \in Readers, TimesOut(r)
  PROVE  Types' /\ FetchInv'
<1>1. /\ pc[r] \in {"wait", "woken"} /\ pc' = [pc EXCEPT ![r] = "idle"] /\ req' = [req EXCEPT ![r] = <<>>]
      /\ UNCHANGED <<cache, tasks, worker, epoch>>
  BY DEF TimesOut, Returns, refreshVars
<1>2. Types'
  BY <1>1 DEF Types
<1>3. \A x \in Readers \ {r} : pc'[x] = pc[x] /\ req'[x] = req[x]
  BY <1>1 DEF Types
<1>4. pc'[r] = "idle"
  BY <1>1 DEF Types
<1>5. \A x \in Readers, s \in Slots : Fills(x, s)' <=> Fills(x, s)
  BY <1>1, <1>3, <1>4 DEF Fills
<1>6. ASSUME NEW s \in Slots PROVE OneAt(s)'
  <2>1. Held(s)' => Held(s)
    BY <1>1, <1>3, <1>4 DEF Held
  <2>2. \A w \in Workers : Runs(w, s)' <=> Runs(w, s)
    BY <1>1 DEF Runs
  <2> QED BY <1>1, <1>5, <2>1, <2>2, SlotStays DEF FetchInv, OneAt
<1> QED BY <1>2, <1>6 DEF FetchInv

(* The end of a fetch by a reader or by a thread of the refresher: nobody   *)
(* fills the slot any more, the map forgets at most.                        *)
LEMMA FetchEndKeeps ==
  ASSUME Types, FetchInv, NEW s \in Slots, ~Idle(s), NEW k \in Keys, NEW g \in Nat, NEW at \in Nat,
         NEW e \in Outcomes(cache.entry[s], g, at), cache' \in Stored(cache, k, s, e),
         Idle(s)', UNCHANGED tasks,
         \A r \in Readers, t \in Slots \ {s} : Fills(r, t)' <=> Fills(r, t),
         \A w \in Workers, t \in Slots \ {s} : Runs(w, t)' <=> Runs(w, t),
         \A r \in Readers : pc'[r] # "idle" => pc[r] # "idle" /\ req'[r] = req[r],
         \A w \in Workers : worker'[w] = <<>> \/ worker'[w] = worker[w]
  PROVE  Shape(cache') /\ FetchInv'
<1>1. cache.entry[s] \in Entry /\ Shape(cache) /\ Busy(cache.entry[s])
  BY DEF Types, Shape, FetchInv, OneAt
<1>2. e \in Entry /\ ~e.refreshing /\ e.queued = cache.entry[s].queued
  BY <1>1, OutcomeKeeps
<1>3. Shape(cache') /\ cache'.entry = [cache.entry EXCEPT ![s] = e] /\ Forgets(cache', cache)
  BY <1>1, <1>2, StoredKeeps
<1>4. OneAt(s)'
  <2>1. cache'.entry[s] = e /\ ~e.queued
    BY <1>1, <1>2, <1>3 DEF Shape, Busy
  <2> QED BY <1>2, <2>1, SlotIdles DEF Busy
<1>5. ASSUME NEW t \in Slots \ {s} PROVE OneAt(t)'
  <2>1. OneAt(t) /\ cache'.entry[t] = cache.entry[t]
    BY <1>1, <1>3 DEF FetchInv, Shape
  <2>2. Held(t)' => Held(t)
    BY <1>3 DEF Held, Forgets, NoSlot, Slots
  <2>3. cache'.entry[t].queued => cache'.entry[t].refreshing
    BY <2>1 DEF OneAt
  <2> QED BY <2>1, <2>2, <2>3, SlotStays
<1> QED BY <1>3, <1>4, <1>5 DEF FetchInv

LEMMA FetchEndsKeeps ==
  ASSUME Types, FetchInv, NEW r \in Readers, FetchEnds(r)
  PROVE  Types' /\ FetchInv'
<1>1. pc[r] = "fetch" /\ req[r] \in Request /\ UNCHANGED <<tasks, worker, epoch>>
  BY DEF FetchEnds, Types, refreshVars
<1> PICK s \in Slots : s = req[r].slot
  BY <1>1 DEF Request
<1>2. PICK e \in Outcomes(cache.entry[s], req[r].gen, req[r].at) :
        /\ cache' \in Stored(cache, req[r].key, s, e)
        /\ pc' = [Notifies(s) EXCEPT ![r] = "idle"]
        /\ req' = [req EXCEPT ![r] = <<>>]
  BY DEF FetchEnds
<1>3. req[r].key \in Keys /\ req[r].gen \in Nat /\ req[r].at \in Nat /\ Fills(r, s) /\ ~Idle(s)
  BY <1>1 DEF Request, Fills, Idle
<1>4. pc' \in [Readers -> {"idle", "wait", "woken", "fetch"}] /\ req' = [x \in Readers |-> req'[x]]
  BY <1>2 DEF Notifies, Types
<1>5. /\ pc'[r] = "idle"
      /\ \A x \in Readers \ {r} : /\ pc'[x] = pc[x] \/ (pc[x] = "wait" /\ pc'[x] = "woken")
                                  /\ req'[x] = req[x]
  BY <1>2 DEF Notifies, Types
<1>6. \A x \in Readers : pc'[x] # "idle" => pc[x] # "idle" /\ req'[x] = req[x]
  BY <1>5
<1>7. \A x \in Readers, t \in Slots : Fills(x, t)' <=> Fills(x, t) /\ x # r
  BY <1>5 DEF Fills
<1>8. \A w \in Workers, t \in Slots : Runs(w, t)' <=> Runs(w, t)
  BY <1>1 DEF Runs
<1>9. OneAt(s)
  BY <1>3 DEF FetchInv
<1>10. Idle(s)'
  BY <1>3, <1>7, <1>8, <1>9 DEF OneAt, Idle
<1>11. \A x \in Readers, t \in Slots \ {s} : Fills(x, t)' <=> Fills(x, t)
  BY <1>3, <1>7 DEF Fills
<1>12. Shape(cache') /\ FetchInv'
  BY <1>1, <1>2, <1>3, <1>6, <1>8, <1>10, <1>11, FetchEndKeeps
<1>13. Types'
  BY <1>1, <1>4, <1>6, <1>12 DEF Types
<1> QED BY <1>12, <1>13

LEMMA TaskEndsKeeps ==
  ASSUME Types, FetchInv, NEW w \in Workers, TaskEnds(w)
  PROVE  Types' /\ FetchInv'
<1>1. PICK j \in Job : worker[w] = j
  BY DEF TaskEnds, Types
<1>2. PICK s \in Slots : s = j.slot
  BY DEF Job
<1>3. /\ worker[w] # <<>> /\ j.pc = "fetch" /\ worker' = [worker EXCEPT ![w] = <<>>]
      /\ UNCHANGED <<req, tasks, epoch>>
  BY <1>1 DEF TaskEnds
<1>4. PICK e \in Outcomes(cache.entry[s], j.gen, j.at) : cache' \in Stored(cache, j.key, s, e) /\ pc' = Notifies(s)
  BY <1>1, <1>2 DEF TaskEnds
<1>5. j.key \in Keys /\ j.gen \in Nat /\ j.at \in Nat /\ Runs(w, s) /\ ~Idle(s)
  BY <1>1, <1>2, <1>3 DEF Job, Runs, Idle
<1>6. /\ pc' \in [Readers -> {"idle", "wait", "woken", "fetch"}]
      /\ \A x \in Readers : pc'[x] = pc[x] \/ (pc[x] = "wait" /\ pc'[x] = "woken")
  BY <1>4 DEF Notifies, Types
<1>7. worker'[w] = <<>> /\ \A v \in Workers \ {w} : worker'[v] = worker[v]
  BY <1>3 DEF Types
<1>8. \A x \in Readers : pc'[x] # "idle" => pc[x] # "idle" /\ req'[x] = req[x]
  BY <1>3, <1>6
<1>9. \A x \in Readers, t \in Slots : Fills(x, t)' <=> Fills(x, t)
  BY <1>3, <1>6 DEF Fills
<1>10. \A v \in Workers, t \in Slots : Runs(v, t)' <=> Runs(v, t) /\ v # w
  BY <1>7 DEF Runs
<1>11. Idle(s)'
  BY <1>5, <1>9, <1>10 DEF FetchInv, OneAt, Idle
<1>12. \A v \in Workers, t \in Slots \ {s} : Runs(v, t)' <=> Runs(v, t)
  BY <1>5, <1>10 DEF Runs
<1>13. \A v \in Workers : worker'[v] = <<>> \/ worker'[v] = worker[v]
  BY <1>7
<1>14. Shape(cache') /\ FetchInv'
  BY <1>3, <1>4, <1>5, <1>8, <1>9, <1>11, <1>12, <1>13, FetchEndKeeps
<1>15. Types'
  BY <1>3, <1>6, <1>8, <1>13, <1>14 DEF Types
<1> QED BY <1>14, <1>15

(* A step that changes entries without their marks, and no thread.          *)
LEMMA EntryStepKeeps ==
  ASSUME Types, FetchInv, Shape(cache'), cache'.map = cache.map, UNCHANGED <<pc, req, worker>>,
         tasks' \in Seq(Task), \A s \in Slots : (\E i \in DOMAIN tasks' : tasks'[i].slot = s) => Held(s),
         epoch' \in [Keys -> Nat],
         \A s \in Slots : /\ cache'.entry[s].refreshing = cache.entry[s].refreshing
                          /\ cache'.entry[s].queued = cache.entry[s].queued
  PROVE  Types' /\ FetchInv'
<1>1. Types'
  BY DEF Types
<1>2. ASSUME NEW s \in Slots PROVE OneAt(s)'
  <2>1. OneAt(s)
    BY DEF FetchInv
  <2>2. Held(s)' => Held(s)
    BY DEF Held
  <2>3. /\ \A r \in Readers : Fills(r, s)' <=> Fills(r, s)
        /\ \A w \in Workers : Runs(w, s)' <=> Runs(w, s)
    BY DEF Fills, Runs
  <2>4. cache'.entry[s].queued => cache'.entry[s].refreshing
    BY <2>1 DEF OneAt
  <2> QED BY <2>1, <2>2, <2>3, <2>4, SlotStays DEF Busy
<1> QED BY <1>1, <1>2 DEF FetchInv

LEMMA QueueIsHeld ==
  ASSUME NEW s \in Slots, NEW i \in DOMAIN tasks, tasks[i].slot = s
  PROVE  Held(s)
BY DEF Held

LEMMA InvalidateKeeps ==
  ASSUME Types, FetchInv, Invalidate
  PROVE  Types' /\ FetchInv'
<1>1. PICK K \in (SUBSET Keys) \ {{}} :
        /\ epoch' = [k \in Keys |-> IF k \in K THEN epoch[k] + 1 ELSE epoch[k]]
        /\ cache' = [cache EXCEPT !.entry = [s \in Slots |->
                      IF \E k \in K : cache.map[k] = s THEN Invalidated(cache.entry[s]) ELSE cache.entry[s]]]
  BY DEF Invalidate
<1>2. UNCHANGED <<pc, req, tasks, worker>>
  BY DEF Invalidate, readerVars, refreshVars
<1> DEFINE E == [s \in Slots |-> IF \E k \in K : cache.map[k] = s THEN Invalidated(cache.entry[s]) ELSE cache.entry[s]]
<1>3. ASSUME NEW s \in Slots
      PROVE  E[s] \in Entry /\ E[s].refreshing = cache.entry[s].refreshing /\ E[s].queued = cache.entry[s].queued
  <2>1. cache.entry[s] \in Entry
    BY DEF Types, Shape
  <2>2. /\ Invalidated(cache.entry[s]) \in Entry
        /\ Invalidated(cache.entry[s]).refreshing = cache.entry[s].refreshing
        /\ Invalidated(cache.entry[s]).queued = cache.entry[s].queued
    BY <2>1, EntrySteps
  <2> QED BY <2>1, <2>2
<1>4. E \in [Slots -> Entry]
  BY <1>3
<1>5. cache' = [cache EXCEPT !.entry = E]
  BY <1>1
<1> HIDE DEF E
<1>6. cache' = [map |-> cache.map, lru |-> cache.lru, bytes |-> cache.bytes, entry |-> E]
  BY <1>5 DEF Types, Shape
<1>7. Shape(cache') /\ cache'.map = cache.map /\ cache'.entry = E
  BY <1>4, <1>6 DEF Types, Shape
<1>8. epoch' \in [Keys -> Nat]
  BY <1>1 DEF Types
<1>9. tasks' \in Seq(Task) /\ \A s \in Slots : (\E i \in DOMAIN tasks' : tasks'[i].slot = s) => Held(s)
  BY <1>2, QueueIsHeld DEF Types
<1> QED BY <1>2, <1>3, <1>7, <1>8, <1>9, EntryStepKeeps

LEMMA TimeKeeps ==
  ASSUME Types, FetchInv, NEW s \in Slots, Ages(s) \/ BackoffEnds(s)
  PROVE  Types' /\ FetchInv'
<1>1. UNCHANGED <<pc, req, tasks, worker, epoch>>
  BY DEF Ages, BackoffEnds, readerVars, refreshVars
<1>2. cache.entry[s] \in Entry
  BY DEF Types, Shape
<1>3. PICK e \in Entry :
        /\ cache' = [cache EXCEPT !.entry[s] = e]
        /\ e.refreshing = cache.entry[s].refreshing /\ e.queued = cache.entry[s].queued
  <2>1. CASE Ages(s)
    <3> DEFINE e == [cache.entry[s] EXCEPT !.age = @ + 1]
    <3>1. cache' = [cache EXCEPT !.entry[s] = e]
      BY <2>1 DEF Ages
    <3>2. cache.entry[s].age + 1 \in Fresh..Expired
      BY <1>2, <2>1 DEF Ages, Entry, Fresh, Expired
    <3>3. e \in Entry /\ e.refreshing = cache.entry[s].refreshing /\ e.queued = cache.entry[s].queued
      BY <1>2, <3>2 DEF Entry
    <3> QED BY <3>1, <3>3
  <2>2. CASE BackoffEnds(s)
    <3> DEFINE e == [cache.entry[s] EXCEPT !.backoff = FALSE]
    <3>1. cache' = [cache EXCEPT !.entry[s] = e]
      BY <2>2 DEF BackoffEnds
    <3>2. e \in Entry /\ e.refreshing = cache.entry[s].refreshing /\ e.queued = cache.entry[s].queued
      BY <1>2 DEF Entry
    <3> QED BY <3>1, <3>2
  <2> QED BY <2>1, <2>2
<1>4. Shape(cache') /\ cache'.map = cache.map /\ cache'.entry = [cache.entry EXCEPT ![s] = e]
  BY <1>3, PutKeeps DEF Put, Types
<1>5. \A t \in Slots : /\ cache'.entry[t].refreshing = cache.entry[t].refreshing
                       /\ cache'.entry[t].queued = cache.entry[t].queued
  BY <1>3, <1>4 DEF Types, Shape
<1>6. tasks' \in Seq(Task) /\ epoch' \in [Keys -> Nat]
  BY <1>1 DEF Types
<1>7. \A t \in Slots : (\E i \in DOMAIN tasks' : tasks'[i].slot = t) => Held(t)
  BY <1>1, QueueIsHeld
<1> QED BY <1>1, <1>4, <1>5, <1>6, <1>7, EntryStepKeeps

LEMMA StopKeeps ==
  ASSUME Types, FetchInv, StopRefresher
  PROVE  Types' /\ FetchInv'
<1>1. tasks' = <<>> /\ UNCHANGED <<cache, pc, req, worker, epoch>>
  BY DEF StopRefresher, readerVars
<1>2. tasks' \in Seq(Task) /\ DOMAIN tasks' = {}
  BY <1>1
<1>3. Shape(cache') /\ epoch' \in [Keys -> Nat]
  BY <1>1 DEF Types
<1> QED BY <1>1, <1>2, <1>3, EntryStepKeeps

LEMMA TakeKeeps ==
  ASSUME Types, FetchInv, NEW w \in Workers, Take(w)
  PROVE  Types' /\ FetchInv'
<1>1. /\ worker[w] = <<>> /\ tasks # <<>> /\ tasks' = Tail(tasks)
      /\ UNCHANGED <<cache, pc, req, epoch>>
  BY DEF Take, readerVars
<1>2. PICK t \in Task : t = Head(tasks)
  BY <1>1 DEF Types
<1> DEFINE j == [key |-> t.key, slot |-> t.slot, gen |-> t.gen, at |-> 0, pc |-> "taken"]
<1>3. worker' = [worker EXCEPT ![w] = j]
  BY <1>2 DEF Take
<1>4. j \in Job /\ j.pc = "taken" /\ j.slot = t.slot
  BY DEF Task, Job
<1> HIDE DEF j
<1>5. worker'[w] = j /\ \A v \in Workers \ {w} : worker'[v] = worker[v]
  BY <1>3 DEF Types
<1>6. tasks' \in Seq(Task)
  BY <1>1 DEF Types
<1>7. Types'
  BY <1>1, <1>3, <1>4, <1>5, <1>6 DEF Types
<1>8. \A s \in Slots : (\E i \in DOMAIN tasks' : tasks'[i].slot = s) => \E i \in DOMAIN tasks : tasks[i].slot = s
  BY <1>1 DEF Types
<1>9. tasks[1].slot = t.slot /\ 1 \in DOMAIN tasks
  BY <1>1, <1>2 DEF Types
<1>10. ASSUME NEW s \in Slots PROVE OneAt(s)'
  <2>1. Held(s)' => Held(s)
    BY <1>1, <1>4, <1>5, <1>8, <1>9 DEF Held
  <2>2. \A v \in Workers : Runs(v, s)' <=> Runs(v, s)
    BY <1>1, <1>4, <1>5 DEF Runs
  <2>3. \A r \in Readers : Fills(r, s)' <=> Fills(r, s)
    BY <1>1 DEF Fills
  <2> QED BY <1>1, <2>1, <2>2, <2>3, SlotStays DEF FetchInv, OneAt
<1> QED BY <1>7, <1>10 DEF FetchInv

LEMMA RunKeeps ==
  ASSUME Types, FetchInv, NEW w \in Workers, Run(w)
  PROVE  Types' /\ FetchInv'
<1>1. PICK j \in Job : worker[w] = j
  BY DEF Run, Types
<1>2. PICK s \in Slots : s = j.slot
  BY DEF Job
<1>3. worker[w] # <<>> /\ j.pc = "taken" /\ UNCHANGED <<pc, req, tasks, epoch>>
  BY <1>1 DEF Run, readerVars
<1>4. \A r \in Readers, t \in Slots : Fills(r, t)' <=> Fills(r, t)
  BY <1>3 DEF Fills
<1>5. CASE worker' = [worker EXCEPT ![w] = <<>>] /\ UNCHANGED cache
  <2>1. worker'[w] = <<>> /\ \A v \in Workers \ {w} : worker'[v] = worker[v]
    BY <1>5 DEF Types
  <2>2. Types'
    BY <1>3, <1>5, <2>1 DEF Types
  <2>3. ASSUME NEW t \in Slots PROVE OneAt(t)'
    <3>1. Held(t)' => Held(t)
      BY <1>3, <1>5, <2>1 DEF Held
    <3>2. \A v \in Workers : Runs(v, t)' <=> Runs(v, t)
      BY <1>1, <1>3, <2>1 DEF Runs
    <3> QED BY <1>4, <1>5, <3>1, <3>2, SlotStays DEF FetchInv, OneAt
  <2> QED BY <2>2, <2>3 DEF FetchInv
<1>6. CASE ~(worker' = [worker EXCEPT ![w] = <<>>] /\ UNCHANGED cache)
  <2> DEFINE e == cache.entry[s]
             x == [e EXCEPT !.queued = FALSE]
             n == [j EXCEPT !.pc = "fetch", !.at = epoch[j.key]]
  <2>1. e.queued /\ cache' = Put(cache, s, x) /\ worker' = [worker EXCEPT ![w] = n]
    BY <1>1, <1>2, <1>6 DEF Run
  <2>2. e \in Entry /\ e.refreshing /\ Idle(s)
    BY <2>1 DEF Types, Shape, FetchInv, OneAt, Busy
  <2>3. x \in Entry /\ Busy(x)
    BY <2>2, EntrySteps DEF Busy
  <2>4. n \in Job /\ n.slot = s /\ n.pc = "fetch"
    BY <1>2 DEF Job, Types
  <2>5. n # <<>>
    <3>1. "pc" \in DOMAIN n
      BY <2>4 DEF Job
    <3>2. DOMAIN <<>> = {}
      OBVIOUS
    <3> QED BY <3>1, <3>2
  <2>6. PICK y \in Entry, m \in Job : y = x /\ m = n
    BY <2>3, <2>4
  <2>7. Shape(cache') /\ cache'.map = cache.map /\ cache'.entry = [cache.entry EXCEPT ![s] = y]
    <3>1. cache' = Put(cache, s, y) /\ Shape(cache)
      BY <2>1, <2>6 DEF Types
    <3> HIDE DEF e, x, n
    <3> QED BY <3>1, PutKeeps
  <2>8. worker'[w] = m /\ \A v \in Workers \ {w} : worker'[v] = worker[v]
    BY <2>1, <2>6 DEF Types
  <2>9. Types'
    <3> HIDE DEF n
    <3> QED BY <1>3, <2>1, <2>4, <2>7, <2>8 DEF Types
  <2>10. m # <<>> /\ m.slot = s /\ m.pc = "fetch" /\ Busy(y)
    BY <2>3, <2>4, <2>5, <2>6
  <2> HIDE DEF e, x, n
  <2>11. \A v \in Workers, t \in Slots : Runs(v, t)' <=> Runs(v, t) \/ (v = w /\ t = s)
    BY <1>1, <1>3, <2>8, <2>10 DEF Runs
  <2>12. OneAt(s)'
    <3>1. cache'.entry[s] = y
      BY <2>7 DEF Types, Shape
    <3>2. \A v \in Workers : Runs(v, s)' <=> v = w
      BY <2>2, <2>11 DEF Idle
    <3>3. \A r \in Readers : ~Fills(r, s)'
      BY <1>4, <2>2 DEF Idle
    <3> QED BY <2>10, <3>1, <3>2, <3>3, SlotStarts DEF Idle
  <2>13. ASSUME NEW t \in Slots \ {s} PROVE OneAt(t)'
    <3>1. OneAt(t) /\ cache'.entry[t] = cache.entry[t]
      BY <2>7 DEF FetchInv, Types, Shape
    <3>2. Held(t)' => Held(t)
      BY <1>1, <1>2, <1>3, <2>7, <2>8, <2>10 DEF Held
    <3>3. cache'.entry[t].queued => cache'.entry[t].refreshing
      BY <3>1 DEF OneAt
    <3> QED BY <1>4, <2>11, <3>1, <3>2, <3>3, SlotStays
  <2> QED BY <2>9, <2>12, <2>13 DEF FetchInv
<1> QED BY <1>5, <1>6

-----------------------------------------------------------------------------
LEMMA InitHolds ==
  ASSUME Init
  PROVE  Types /\ FetchInv
<1>1. Shape(cache)
  <2>1. cache = [map |-> [k \in Keys |-> NoSlot], lru |-> <<>>, bytes |-> 0, entry |-> [s \in Slots |-> NewEntry]]
    BY DEF Init
  <2> QED BY <2>1, NewEntryIsEntry DEF Shape
<1>2. Types
  BY <1>1 DEF Init, Types
<1>3. ASSUME NEW s \in Slots PROVE OneAt(s)
  <2>1. cache.entry[s] = NewEntry
    BY DEF Init
  <2>2. Idle(s)
    BY DEF Init, Idle, Fills, Runs
  <2>3. ~NewEntry.refreshing /\ ~NewEntry.queued
    BY DEF NewEntry
  <2> QED BY <2>1, <2>2, <2>3 DEF OneAt, Idle, Busy
<1> QED BY <1>2, <1>3 DEF FetchInv

LEMMA StepKeeps ==
  ASSUME Types, FetchInv, [Next]_vars
  PROVE  Types' /\ FetchInv'
<1>1. CASE \E r \in Readers : Lookup(r) \/ Wake(r) \/ TimesOut(r) \/ FetchEnds(r)
  BY <1>1, LookupKeeps, WakeKeeps, TimesOutKeeps, FetchEndsKeeps
<1>2. CASE Invalidate
  BY <1>2, InvalidateKeeps
<1>3. CASE \E w \in Workers : Take(w) \/ Run(w) \/ TaskEnds(w)
  BY <1>3, TakeKeeps, RunKeeps, TaskEndsKeeps
<1>4. CASE StopRefresher
  BY <1>4, StopKeeps
<1>5. CASE \E s \in Slots : Ages(s) \/ BackoffEnds(s)
  BY <1>5, TimeKeeps
<1>6. CASE UNCHANGED vars
  <2>1. UNCHANGED <<cache, pc, req, tasks, worker, epoch>>
    BY <1>6 DEF vars, readerVars, refreshVars
  <2>2. Types'
    BY <2>1 DEF Types
  <2>3. ASSUME NEW s \in Slots PROVE OneAt(s)'
    <3>1. OneAt(s)
      BY DEF FetchInv
    <3>2. /\ \A r \in Readers : Fills(r, s)' <=> Fills(r, s)
          /\ \A w \in Workers : Runs(w, s)' <=> Runs(w, s)
      BY <2>1 DEF Fills, Runs
    <3>3. Held(s)' => Held(s)
      BY <2>1 DEF Held
    <3> QED BY <2>1, <3>1, <3>2, <3>3, SlotStays DEF OneAt
  <2> QED BY <2>2, <2>3 DEF FetchInv
<1> QED BY <1>1, <1>2, <1>3, <1>4, <1>5, <1>6 DEF Next

(* One thread at most fills an entry of the cache, and an entry that is     *)
(* marked as refreshing is being filled or waits in the queue, for any      *)
(* number of readers, threads, keys and entries.                            *)
THEOREM FetchIsShared == Spec => []OneFetchPerEntry
<1>1. Init => Types /\ FetchInv
  BY InitHolds
<1>2. Types /\ FetchInv /\ [Next]_vars => (Types /\ FetchInv)'
  BY StepKeeps
<1>3. Types /\ FetchInv => OneFetchPerEntry
  BY OneAtIsOneFetch
<1> QED BY <1>1, <1>2, <1>3, PTL DEF Spec

-----------------------------------------------------------------------------
(* How new a value is.  Newer(d, m, x): if fetch number m of its entry or a *)
(* later one made the value d, it was begun at the epoch x or after it.     *)
(* Above(e, s, m, x): so is it of the entry e and of what is being fetched  *)
(* for the slot s.                                                          *)
Newer(d, m, x) == d.gen > 0 /\ d.gen >= m => d.at >= x

Above(e, s, m, x) ==
  /\ Newer(e, m, x)
  /\ \A r \in Readers : Fills(r, s) => Newer(req[r], m, x)
  /\ \A w \in Workers : Runs(w, s) => Newer(worker[w], m, x)

(* The numbers of an entry, and that a fetch for it is its newest one.      *)
Ordered(e) ==
  /\ e.gen <= e.done /\ e.done <= e.started /\ e.minValid <= e.started + 1
  /\ e.refreshing => e.done < e.started
  /\ e.lastOk => e.gen = e.done
  /\ e.backoff => ~e.lastOk /\ e.done > 0

Newest(e, s) ==
  /\ \A r \in Readers : Fills(r, s) => req[r].gen = e.started
  /\ \A w \in Workers : Runs(w, s) => worker[w].gen = e.started

(* The key that a slot is used for.                                         *)
Asks(r, s) == pc[r] # "idle" /\ req[r].slot = s

Uses(s, k) ==
  \/ cache.map[k] = s
  \/ \E r \in Readers : Asks(r, s) /\ req[r].key = k
  \/ \E i \in DOMAIN tasks : tasks[i].slot = s /\ tasks[i].key = k
  \/ \E w \in Workers : worker[w] # <<>> /\ worker[w].slot = s /\ worker[w].key = k

OneKey(s) == \A j, k \in Keys : Uses(s, j) /\ Uses(s, k) => j = k

(* What a lookup asked for is what it will be told: of a value that may be  *)
(* served, and of the fetch that it waits for.  Pressing: a lookup that     *)
(* asked for a newer value waits for one that is not served before.         *)
Covers(e, s, q) == Above(e, s, e.minValid, q.since) /\ Above(e, s, q.target, q.since)
Pressing(e, q)  == q.asked /\ e.done < q.target => e.minValid >= q.target /\ ~e.queued

MapCurrent(s) ==
  \A k \in Keys : cache.map[k] = s => Above(cache.entry[s], s, cache.entry[s].minValid, epoch[k])

AsksCurrent(s) ==
  \A r \in Readers : Asks(r, s) =>
    /\ req[r].since <= epoch[req[r].key]
    /\ Covers(cache.entry[s], s, req[r])
    /\ pc[r] = "fetch" => req[r].at >= req[r].since
    /\ pc[r] # "fetch" => Pressing(cache.entry[s], req[r])

Current(s) ==
  /\ OneKey(s)
  /\ Ordered(cache.entry[s]) /\ Newest(cache.entry[s], s)
  /\ MapCurrent(s) /\ AsksCurrent(s)

Good == {"none", "value", "error"}

CurrentInv == /\ \A s \in Slots : Current(s)
              /\ answer \in [Readers -> Good]

-----------------------------------------------------------------------------
(* A slot that a step leaves alone, but for the time that passes.           *)
SameNumbers(x, e) ==
  /\ x.gen = e.gen /\ x.at = e.at /\ x.started = e.started /\ x.done = e.done /\ x.minValid = e.minValid
  /\ x.refreshing = e.refreshing /\ x.queued = e.queued /\ x.lastOk = e.lastOk /\ (x.backoff => e.backoff)

LEMMA LeftAlone ==
  ASSUME Types, Types', NEW s \in Slots, Current(s), SameNumbers(cache'.entry[s], cache.entry[s]),
         \A r \in Readers : Asks(r, s)' => Asks(r, s) /\ req'[r] = req[r] /\ (pc'[r] = "fetch" <=> pc[r] = "fetch"),
         \A w \in Workers : Runs(w, s)' => Runs(w, s) /\ worker'[w] = worker[w],
         \A k \in Keys : Uses(s, k)' => Uses(s, k),
         \A k \in Keys : epoch[k] <= epoch'[k],
         \A k \in Keys : cache'.map[k] = s => cache.map[k] = s /\ epoch'[k] = epoch[k]
  PROVE  Current(s)'
<1> DEFINE e == cache.entry[s]
           x == cache'.entry[s]
<1>1. e \in Entry /\ x \in Entry
  BY DEF Types, Shape
<1>2. OneKey(s)'
  BY DEF OneKey, Current
<1>3. \A r \in Readers : Fills(r, s)' => Fills(r, s) /\ req'[r] = req[r]
  BY DEF Fills, Asks
<1>4. Ordered(x) /\ Newest(e, s)'
  BY <1>1, <1>3 DEF Current, Ordered, Newest, SameNumbers, Entry
<1>5. ASSUME NEW m, NEW y, Above(e, s, m, y) PROVE Above(e, s, m, y)'
  BY <1>3, <1>5 DEF Above, Newer, SameNumbers
<1>6. MapCurrent(s)'
  BY <1>5 DEF MapCurrent, Current, SameNumbers, Above
<1>7. AsksCurrent(s)'
  <2> SUFFICES ASSUME NEW r \in Readers, Asks(r, s)'
      PROVE /\ req'[r].since <= epoch'[req'[r].key]
            /\ Covers(e, s, req[r])'
            /\ pc'[r] = "fetch" => req'[r].at >= req'[r].since
            /\ pc'[r] # "fetch" => Pressing(x, req'[r])
    BY DEF AsksCurrent
  <2>1. /\ Asks(r, s) /\ req'[r] = req[r] /\ (pc'[r] = "fetch" <=> pc[r] = "fetch")
        /\ req[r].since <= epoch[req[r].key] /\ Covers(e, s, req[r])
        /\ pc[r] = "fetch" => req[r].at >= req[r].since
        /\ pc[r] # "fetch" => Pressing(e, req[r])
    BY DEF Current, AsksCurrent
  <2>2. Covers(e, s, req[r])'
    BY <1>5, <2>1 DEF Covers, SameNumbers, Above
  <2>3. Pressing(e, req[r]) => Pressing(x, req[r])
    BY DEF Pressing, SameNumbers
  <2>4. req[r] \in Request
    BY <2>1 DEF Types, Asks
  <2>5. req[r].key \in Keys /\ req[r].since \in Nat
    BY <2>4 DEF Request
  <2>6. epoch[req[r].key] \in Nat /\ epoch'[req[r].key] \in Nat /\ epoch[req[r].key] <= epoch'[req[r].key]
    BY <2>5 DEF Types
  <2> QED BY <2>1, <2>2, <2>3, <2>5, <2>6
<1> QED BY <1>2, <1>4, <1>6, <1>7 DEF Current

(* A slot on which a step works: the entry was e when it began (for a       *)
(* lookup: once the entry was found), z is as new as a value can be.        *)
LEMMA DataMoves ==
  ASSUME NEW s \in Slots, NEW e, NEW z \in Nat, NEW m \in Nat, NEW y \in Nat, y <= z,
         Above(e, s, m, y), cache'.entry[s] \in Entry,
         \A r \in Readers : Fills(r, s)' => req'[r].at \in Nat,
         \A w \in Workers : Runs(w, s)' => worker'[w].at \in Nat,
         \/ cache'.entry[s].gen = e.gen /\ cache'.entry[s].at = e.at
         \/ \E r \in Readers : Fills(r, s) /\ cache'.entry[s].gen = req[r].gen /\ cache'.entry[s].at = req[r].at
         \/ \E w \in Workers : Runs(w, s) /\ cache'.entry[s].gen = worker[w].gen /\ cache'.entry[s].at = worker[w].at,
         \A r \in Readers : Fills(r, s)' => (Fills(r, s) /\ req'[r] = req[r]) \/ req'[r].at >= z,
         \A w \in Workers : Runs(w, s)' => (Runs(w, s) /\ worker'[w] = worker[w]) \/ worker'[w].at >= z
  PROVE  Above(cache.entry[s], s, m, y)'
<1>1. Newer(cache.entry[s], m, y)'
  BY DEF Above, Newer
<1>2. ASSUME NEW r \in Readers, Fills(r, s)' PROVE Newer(req[r], m, y)'
  BY <1>2 DEF Above, Newer
<1>3. ASSUME NEW w \in Workers, Runs(w, s)' PROVE Newer(worker[w], m, y)'
  BY <1>3 DEF Above, Newer
<1> QED BY <1>1, <1>2, <1>3 DEF Above

LEMMA AboveRises ==
  ASSUME Types, NEW s \in Slots, NEW e \in Entry, NEW m \in Nat, NEW n \in Nat, m <= n, NEW y,
         Above(e, s, m, y)
  PROVE  Above(e, s, n, y)
<1>1. \A r \in Readers : Fills(r, s) => req[r].gen \in Nat
  BY DEF Types, Fills, Request
<1>2. \A w \in Workers : Runs(w, s) => worker[w].gen \in Nat
  BY DEF Types, Runs, Job
<1> QED BY <1>1, <1>2 DEF Above, Newer, Entry

LEMMA SlotMoves ==
  ASSUME Types, Types', NEW s \in Slots, NEW k \in Keys, NEW e \in Entry,
         \A j \in Keys : Uses(s, j)' => j = k,
         Ordered(cache.entry[s])', Newest(cache.entry[s], s)',
         \A m, y \in Nat : y <= epoch'[k] /\ Above(e, s, m, y) => Above(cache.entry[s], s, m, y)',
         \A y \in Nat : y <= epoch'[k] /\ Above(e, s, e.minValid, y) => Above(cache.entry[s], s, cache.entry[s].minValid, y)',
         cache'.map[k] = s => Above(e, s, e.minValid, epoch'[k]),
         \A r \in Readers : Asks(r, s)' =>
           /\ req'[r].since <= epoch'[k]
           /\ Above(e, s, e.minValid, req'[r].since) /\ Above(e, s, req'[r].target, req'[r].since)
           /\ pc'[r] = "fetch" => req'[r].at >= req'[r].since
           /\ pc'[r] # "fetch" => Pressing(cache'.entry[s], req'[r])
  PROVE  Current(s)'
<1>1. epoch'[k] \in Nat
  BY DEF Types
<1>2. OneKey(s)'
  BY DEF OneKey
<1>3. MapCurrent(s)'
  <2> SUFFICES ASSUME NEW j \in Keys, cache'.map[j] = s
               PROVE  Above(cache.entry[s], s, cache.entry[s].minValid, epoch[j])'
    BY DEF MapCurrent
  <2>1. j = k
    BY DEF Uses
  <2> QED BY <1>1, <2>1 DEF Above
<1>4. AsksCurrent(s)'
  <2> SUFFICES ASSUME NEW r \in Readers, Asks(r, s)'
      PROVE /\ req'[r].since <= epoch'[req'[r].key]
            /\ Covers(cache.entry[s], s, req[r])'
            /\ pc'[r] = "fetch" => req'[r].at >= req'[r].since
            /\ pc'[r] # "fetch" => Pressing(cache'.entry[s], req'[r])
    BY DEF AsksCurrent
  <2>1. req'[r] \in Request
    BY DEF Types, Asks
  <2>2. req'[r].key = k
    BY <2>1 DEF Uses, Request
  <2>3. req'[r].since \in Nat /\ req'[r].target \in Nat
    BY <2>1 DEF Request
  <2>4. PICK y \in Nat, m \in Nat : y = req'[r].since /\ m = req'[r].target
    BY <2>3
  <2>5. Above(cache.entry[s], s, cache.entry[s].minValid, y)' /\ Above(cache.entry[s], s, m, y)'
    BY <2>4
  <2>6. Covers(cache.entry[s], s, req[r])'
    BY <2>4, <2>5 DEF Above, Covers
  <2> QED BY <2>2, <2>6
<1> QED BY <1>2, <1>3, <1>4 DEF Current

-----------------------------------------------------------------------------
(* Ready(c, k, s): c is the cache with the slot s found or inserted for the *)
(* key k, and invalidated when the lookup forces.                           *)
Ready(c, k, s) ==
  /\ Prepared(c, s)
  /\ \A j \in Keys : c.map[j] = s \/ Uses(s, j) => j = k
  /\ Ordered(c.entry[s]) /\ Newest(c.entry[s], s)
  /\ c.map[k] = s => Above(c.entry[s], s, c.entry[s].minValid, epoch'[k])
  /\ \A r \in Readers : Asks(r, s) =>
       /\ Covers(c.entry[s], s, req[r])
       /\ pc[r] # "fetch" => Pressing(c.entry[s], req[r])
  /\ \A j \in Keys : epoch[j] <= epoch'[j]
  /\ \A j \in Keys : c.map[j] \in Slots \ {s} => c.map[j] = cache.map[j] /\ epoch'[j] = epoch[j]

(* The reader that looks: it leaves, or it asks for the slot.               *)
Asking(q, k, s, e) ==
  /\ q.key = k /\ q.slot = s /\ q.since <= epoch'[k]
  /\ Above(e, s, e.minValid, q.since) /\ Above(e, s, q.target, q.since)

LEMMA LookMoves ==
  ASSUME Types, Types', FetchInv, \A t \in Slots : Current(t), NEW k \in Keys, NEW s \in Slots, NEW c, Ready(c, k, s),
         NEW x \in Entry, cache'.map = c.map, cache'.entry = [c.entry EXCEPT ![s] = x],
         Ordered(x), Newest(cache.entry[s], s)',
         x.gen = c.entry[s].gen, x.at = c.entry[s].at,
         c.entry[s].minValid <= x.minValid \/ (Idle(s) /\ c.entry[s].gen < x.minValid),
         \A q \in Request : Pressing(c.entry[s], q) => Pressing(x, q),
         UNCHANGED worker,
         \A t \in Slots \ {s}, j \in Keys : (\E i \in DOMAIN tasks' : tasks'[i].slot = t /\ tasks'[i].key = j) => Uses(t, j),
         \A j \in Keys : (\E i \in DOMAIN tasks' : tasks'[i].slot = s /\ tasks'[i].key = j) => Uses(s, j) \/ j = k,
         NEW r \in Readers, pc[r] # "fetch",
         \A y \in Readers \ {r} : pc'[y] = pc[y] /\ req'[y] = req[y],
         pc'[r] # "idle" =>
           /\ Asking(req'[r], k, s, c.entry[s])
           /\ pc'[r] = "fetch" => req'[r].at = epoch'[k]
           /\ pc'[r] # "fetch" => Pressing(x, req'[r])
  PROVE  \A t \in Slots : Current(t)'
<1> DEFINE e == c.entry[s]
<1>1. e \in Entry /\ Shape(c) /\ cache'.entry[s] = x /\ \A t \in Slots \ {s} : cache'.entry[t] = cache.entry[t]
  BY DEF Ready, Prepared, Shape
<1>2. epoch'[k] \in Nat /\ \A y \in Readers : Asks(y, s)' => req'[y] \in Request
  BY DEF Types, Asks
<1>3. \A y \in Readers, t \in Slots : Fills(y, t)' => (Fills(y, t) /\ req'[y] = req[y]) \/ (y = r /\ t = s /\ req'[y].at = epoch'[k])
  BY DEF Fills, Asking
<1>4. \A w \in Workers, t \in Slots : Runs(w, t)' => Runs(w, t) /\ worker'[w] = worker[w]
  BY DEF Runs
<1>5. ASSUME NEW t \in Slots \ {s} PROVE Current(t)'
  <2>1. Current(t) /\ SameNumbers(cache'.entry[t], cache.entry[t])
    BY <1>1 DEF SameNumbers
  <2>2. \A y \in Readers : Asks(y, t)' => Asks(y, t) /\ req'[y] = req[y] /\ (pc'[y] = "fetch" <=> pc[y] = "fetch")
    BY DEF Asks, Asking
  <2>3. \A j \in Keys : cache'.map[j] = t => cache.map[j] = t /\ epoch'[j] = epoch[j]
    BY DEF Ready
  <2>4. \A j \in Keys : Uses(t, j)' => Uses(t, j)
    BY <2>2, <2>3 DEF Uses
  <2>5. \A j \in Keys : epoch[j] <= epoch'[j]
    BY DEF Ready
  <2> QED BY <1>4, <2>1, <2>2, <2>3, <2>4, <2>5, LeftAlone
<1>6. \A j \in Keys : Uses(s, j)' => j = k
  <2>1. \A y \in Readers, j \in Keys : Asks(y, s)' /\ req'[y].key = j => (Asks(y, s) /\ req[y].key = j) \/ j = k
    BY DEF Asks, Asking
  <2> QED BY <2>1 DEF Uses, Ready
<1>7. ASSUME NEW m \in Nat, NEW y \in Nat, y <= epoch'[k], Above(e, s, m, y)
      PROVE  Above(cache.entry[s], s, m, y)'
  <2>1. \A z \in Readers : Fills(z, s)' => req'[z].at \in Nat
    BY DEF Types, Fills, Request
  <2>2. \A w \in Workers : Runs(w, s)' => worker'[w].at \in Nat
    BY DEF Types, Runs, Job
  <2>3. \A z \in Readers : Fills(z, s)' => (Fills(z, s) /\ req'[z] = req[z]) \/ req'[z].at >= epoch'[k]
    BY <1>2, <1>3
  <2> QED BY <1>1, <1>2, <1>4, <1>7, <2>1, <2>2, <2>3, DataMoves
<1>8. \A y : Above(e, s, e.minValid, y) => Above(e, s, x.minValid, y)
  <2>1. CASE e.minValid <= x.minValid
    BY <1>1, <2>1, AboveRises DEF Entry
  <2>2. CASE Idle(s) /\ e.gen < x.minValid
    BY <1>1, <2>2 DEF Above, Newer, Idle, Entry
  <2> QED BY <2>1, <2>2
<1>9. ASSUME NEW y \in Nat, y <= epoch'[k], Above(e, s, e.minValid, y)
      PROVE  Above(cache.entry[s], s, cache.entry[s].minValid, y)'
  <2>1. PICK m \in Nat : m = x.minValid
    BY DEF Entry
  <2>2. Above(cache.entry[s], s, m, y)'
    BY <1>7, <1>8, <1>9, <2>1
  <2> QED BY <1>1, <2>1, <2>2 DEF Above
<1>10. ASSUME NEW y \in Readers, Asks(y, s)'
       PROVE  /\ req'[y].since <= epoch'[k]
              /\ Above(e, s, e.minValid, req'[y].since) /\ Above(e, s, req'[y].target, req'[y].since)
              /\ pc'[y] = "fetch" => req'[y].at >= req'[y].since
              /\ pc'[y] # "fetch" => Pressing(x, req'[y])
  <2>1. CASE y = r
    <3>1. req'[r].since \in Nat
      BY <1>2, <1>10, <2>1 DEF Request
    <3> QED BY <1>2, <1>10, <2>1, <3>1 DEF Asks, Asking
  <2>2. CASE y # r
    <3>1. Asks(y, s) /\ req'[y] = req[y] /\ pc'[y] = pc[y] /\ req[y] \in Request
      BY <1>10, <2>2, <1>2 DEF Asks
    <3>2. req[y].key = k
      BY <3>1 DEF Ready, Uses, Request
    <3>3. req[y].since <= epoch[k] /\ (pc[y] = "fetch" => req[y].at >= req[y].since)
      BY <3>1, <3>2 DEF Current, AsksCurrent
    <3>4. epoch[k] <= epoch'[k] /\ epoch[k] \in Nat /\ req[y].since \in Nat
      BY <3>1 DEF Ready, Types, Request
    <3>5. Covers(e, s, req[y]) /\ (pc[y] # "fetch" => Pressing(x, req[y]))
      BY <3>1 DEF Ready
    <3> QED BY <1>2, <3>1, <3>3, <3>4, <3>5 DEF Covers
  <2> QED BY <2>1, <2>2
<1>11. cache'.map[k] = s => Above(e, s, e.minValid, epoch'[k])
  BY DEF Ready
<1>12. Current(s)'
  <2>1. Ordered(cache.entry[s])'
    BY <1>1
  <2> HIDE DEF e
  <2> QED BY <1>1, <1>6, <1>7, <1>9, <1>10, <1>11, <2>1, SlotMoves
<1> QED BY <1>5, <1>12

(* What a lookup is told of an entry.                                       *)
LEMMA ToldIsCurrent ==
  ASSUME NEW e \in Entry, Ordered(e), NEW since \in Nat, Newer(e, e.minValid, since)
  PROVE  /\ \A age : Servable(e, age) => Told(e, since) \in Good
         /\ StaleOrError(e, since) \in Good
         /\ ~e.lastOk => Outcome(e, since) \in Good
         /\ \A m \in Nat : e.done >= m /\ Newer(e, m, since) => Outcome(e, since) \in Good
<1>1. \A age : Servable(e, age) => Told(e, since) \in Good
  BY DEF Servable, Newer, Told, Good
<1>2. StaleOrError(e, since) \in Good
  BY <1>1 DEF StaleOrError, Good
<1>3. ASSUME NEW m \in Nat, e.done >= m, Newer(e, m, since), e.lastOk, e.gen > 0
      PROVE  Told(e, since) \in Good
  BY <1>3 DEF Ordered, Newer, Told, Good
<1> QED BY <1>1, <1>2, <1>3 DEF Outcome

LEMMA AnswerStays ==
  ASSUME answer \in [Readers -> Good], NEW r \in Readers, NEW a \in Good, answer' = [answer EXCEPT ![r] = a]
  PROVE  answer' \in [Readers -> Good]
OBVIOUS

(* The fetch that a lookup begins is not one that the back-off forbids.     *)
Restrained(x, e) == x.started > e.started => ~e.backoff \/ x.minValid > e.done

LEMMA RoundMoves ==
  ASSUME Types, FetchInv, \A t \in Slots : Current(t), answer \in [Readers -> Good], epoch' \in [Keys -> Nat],
         NEW r \in Readers, pc[r] # "fetch", NEW q \in Request, NEW c, Ready(c, q.key, q.slot),
         Asking(q, q.key, q.slot, c.entry[q.slot]),
         q.asked /\ c.entry[q.slot].done < q.target => c.entry[q.slot].minValid >= q.target,
         UNCHANGED <<tasks, worker>>, Round(r, c, q)
  PROVE  /\ (\A t \in Slots : Current(t)') /\ answer' \in [Readers -> Good]
         /\ cache'.map = c.map /\ Restrained(cache'.entry[q.slot], c.entry[q.slot])
         /\ \A t \in Slots \ {q.slot} : cache'.entry[t] = c.entry[t]
<1> DEFINE s == q.slot
           k == q.key
           e == c.entry[s]
<1>1. s \in Slots /\ k \in Keys /\ e \in Entry /\ Shape(c) /\ Prepared(c, s) /\ q.since \in Nat /\ q.target \in Nat
  BY DEF Request, Ready, Prepared, Shape
<1>2. Types' /\ FetchInv'
  BY <1>1, RoundKeeps
<1>3. Ordered(e) /\ Newest(e, s) /\ Newer(e, e.minValid, q.since) /\ Newer(e, q.target, q.since)
  BY DEF Ready, Asking, Above
<1>4. c.entry = [c.entry EXCEPT ![s] = e]
  BY <1>1 DEF Shape
<1>5. /\ \A t \in Slots, j \in Keys : (\E i \in DOMAIN tasks' : tasks'[i].slot = t /\ tasks'[i].key = j) => Uses(t, j)
  BY DEF Uses
<1>6. ASSUME NEW a \in Good, cache' = c, Returns(r, a)
      PROVE  (\A t \in Slots : Current(t)') /\ answer' \in [Readers -> Good]
  <2>1. pc'[r] = "idle" /\ \A y \in Readers \ {r} : pc'[y] = pc[y] /\ req'[y] = req[y]
    BY <1>6 DEF Returns, Types
  <2>2. Newest(cache.entry[s], s)'
    BY <1>3, <1>6, <2>1 DEF Newest, Fills, Runs
  <2>3. answer' \in [Readers -> Good]
    BY <1>6, AnswerStays DEF Returns
  <2>4. e.minValid <= e.minValid
    BY <1>1 DEF Entry
  <2> QED BY <1>1, <1>2, <1>3, <1>4, <1>5, <1>6, <2>1, <2>2, <2>3, <2>4, LookMoves
<1>7. ASSUME cache' = c, Waits(r, q), e.done < q.target, ~e.queued
      PROVE  (\A t \in Slots : Current(t)') /\ answer' \in [Readers -> Good]
  <2>1. pc'[r] = "wait" /\ req'[r] = q /\ \A y \in Readers \ {r} : pc'[y] = pc[y] /\ req'[y] = req[y]
    BY <1>7 DEF Waits, Types
  <2>2. Newest(cache.entry[s], s)'
    BY <1>3, <1>7, <2>1 DEF Newest, Fills, Runs
  <2>3. Asking(q, k, s, e) /\ Pressing(e, q) /\ answer' \in [Readers -> Good]
    BY <1>7 DEF Pressing, Waits
  <2>4. e.minValid <= e.minValid
    BY <1>1 DEF Entry
  <2> QED BY <1>1, <1>2, <1>3, <1>4, <1>5, <1>7, <2>1, <2>2, <2>3, <2>4, LookMoves
<1>8. ASSUME NEW x \in Entry, cache' = Put(c, s, x), Fetches(r, q, x.started), ~Busy(e), Ordered(x),
             x.gen = e.gen, x.at = e.at, e.minValid <= x.minValid \/ e.gen < x.minValid,
             \A y \in Request : Pressing(e, y) => Pressing(x, y)
      PROVE  /\ (\A t \in Slots : Current(t)') /\ answer' \in [Readers -> Good]
             /\ cache'.map = c.map /\ cache'.entry = [c.entry EXCEPT ![s] = x]
  <2>1. cache'.map = c.map /\ cache'.entry = [c.entry EXCEPT ![s] = x]
    BY <1>1, <1>8, PutKeeps
  <2> DEFINE n == [q EXCEPT !.gen = x.started, !.at = epoch'[k]]
  <2>2. pc'[r] = "fetch" /\ req'[r] = n /\ \A y \in Readers \ {r} : pc'[y] = pc[y] /\ req'[y] = req[y]
    BY <1>8 DEF Fetches, Types
  <2>3. /\ n.key = k /\ n.slot = s /\ n.gen = x.started /\ n.at = epoch'[k] /\ n.since = q.since /\ n.target = q.target
    BY DEF Request
  <2> HIDE DEF n
  <2>4. Asking(n, k, s, e)
    BY <2>3 DEF Asking
  <2>5. Idle(s)
    <3>1. CASE Held(s)
      BY <1>1, <1>8, <3>1 DEF Prepared, FetchInv, OneAt
    <3> QED BY <1>1, <3>1, FreeIsIdle
  <2>6. cache'.entry[s] = x
    BY <1>1, <2>1 DEF Shape
  <2>7. Newest(cache.entry[s], s)'
    BY <2>2, <2>3, <2>5, <2>6 DEF Newest, Fills, Runs, Idle
  <2>8. answer' \in [Readers -> Good]
    BY <1>8 DEF Fetches
  <2>9. Asking(req'[r], k, s, e) /\ req'[r].at = epoch'[k] /\ pc'[r] = "fetch"
    BY <2>2, <2>3, <2>4
  <2>10. e.minValid <= x.minValid \/ (Idle(s) /\ e.gen < x.minValid)
    BY <1>8, <2>5
  <2>11. \A t \in Slots : Current(t)'
    <3>1. \A y \in Readers \ {r} : pc'[y] = pc[y] /\ req'[y] = req[y]
      BY <2>2
    <3>2. /\ x.gen = e.gen /\ x.at = e.at /\ Ordered(x)
          /\ \A y \in Request : Pressing(e, y) => Pressing(x, y)
      BY <1>8
    <3>3. \A j \in Keys : (\E i \in DOMAIN tasks' : tasks'[i].slot = s /\ tasks'[i].key = j) => Uses(s, j) \/ j = k
      BY <1>1, <1>5
    <3>4. \A t \in Slots \ {s}, j \in Keys : (\E i \in DOMAIN tasks' : tasks'[i].slot = t /\ tasks'[i].key = j) => Uses(t, j)
      BY <1>1, <1>5
    <3>5. UNCHANGED worker
      OBVIOUS
    <3> HIDE DEF e, s, k
    <3>6. Ready(c, k, s)
      BY DEF s, k
    <3> QED BY <1>1, <1>2, <2>1, <2>7, <2>9, <2>10, <3>1, <3>2, <3>3, <3>4, <3>5, <3>6, LookMoves DEF e
  <2> QED BY <2>1, <2>8, <2>11
<1>9. CASE cache' = c /\ Returns(r, Outcome(e, q.since)) /\ (e.done >= q.target \/ RecentFailure(e, q))
  <2>1. Outcome(e, q.since) \in Good
    BY <1>1, <1>3, <1>9, ToldIsCurrent DEF RecentFailure
  <2>2. Restrained(cache'.entry[s], e)
    BY <1>1, <1>9 DEF Restrained, Entry
  <2> QED BY <1>6, <1>9, <2>1, <2>2
<1>10. CASE e.done < q.target /\ ~e.queued /\ cache' = c /\ Waits(r, q)
  <2>1. Restrained(cache'.entry[s], e)
    BY <1>1, <1>10 DEF Restrained, Entry
  <2> QED BY <1>7, <1>10, <2>1
<1>11. CASE e.done < q.target /\ e.refreshing /\ e.queued /\ cache' = Put(c, s, TakenOver(e)) /\ Fetches(r, q, e.started)
  <2> DEFINE x == TakenOver(e)
             m == Min({e.minValid, e.started})
  <2>1. x \in Entry
    BY <1>1, EntrySteps
  <2>2. m \in Nat /\ m <= e.minValid /\ m <= e.started /\ m \in {e.minValid, e.started}
    BY <1>1, MinIs DEF Entry
  <2>3. /\ x.gen = e.gen /\ x.at = e.at /\ x.started = e.started /\ x.done = e.done /\ x.minValid = m
        /\ x.refreshing = e.refreshing /\ x.lastOk = e.lastOk /\ x.backoff = e.backoff
    BY <1>1 DEF TakenOver, Entry
  <2> HIDE DEF x, m
  <2>4. Ordered(x) /\ (e.minValid <= x.minValid \/ e.gen < x.minValid)
    BY <1>1, <1>3, <1>11, <2>2, <2>3 DEF Ordered, Entry
  <2>5. \A y \in Request : Pressing(e, y) => Pressing(x, y)
    BY <1>11, <2>3 DEF Pressing
  <2>6. /\ (\A t \in Slots : Current(t)') /\ answer' \in [Readers -> Good]
        /\ cache'.map = c.map /\ cache'.entry = [c.entry EXCEPT ![s] = x]
    <3>1. cache' = Put(c, s, x) /\ Fetches(r, q, x.started) /\ ~Busy(e)
      BY <1>11, <2>3 DEF x, Busy
    <3> QED BY <1>8, <2>1, <2>3, <2>4, <2>5, <3>1
  <2> QED BY <1>1, <2>3, <2>6 DEF Restrained, Shape, Entry
<1>12. CASE /\ e.done < q.target /\ ~e.refreshing /\ ~RecentFailure(e, q)
            /\ cache' = Put(c, s, Begun(e)) /\ Fetches(r, q, e.started + 1)
  <2> DEFINE x == Begun(e)
  <2>1. x \in Entry
    BY <1>1, EntrySteps
  <2>2. /\ x.gen = e.gen /\ x.at = e.at /\ x.started = e.started + 1 /\ x.done = e.done /\ x.minValid = e.minValid
        /\ x.refreshing /\ x.lastOk = e.lastOk /\ x.backoff = e.backoff /\ x.queued = e.queued
    BY <1>1 DEF Begun, Entry
  <2> HIDE DEF x
  <2>3. Ordered(x) /\ e.minValid <= x.minValid
    BY <1>1, <1>3, <2>2 DEF Ordered, Entry
  <2>4. \A y \in Request : Pressing(e, y) => Pressing(x, y)
    BY <2>2 DEF Pressing
  <2>5. /\ (\A t \in Slots : Current(t)') /\ answer' \in [Readers -> Good]
        /\ cache'.map = c.map /\ cache'.entry = [c.entry EXCEPT ![s] = x]
    <3>1. cache' = Put(c, s, x) /\ Fetches(r, q, x.started) /\ ~Busy(e)
      BY <1>12, <2>2 DEF x, Busy
    <3> QED BY <1>8, <2>1, <2>2, <2>3, <2>4, <3>1
  <2>6. ~e.backoff \/ x.minValid > e.done
    BY <1>1, <1>3, <1>12, <2>2 DEF RecentFailure, Ordered, Entry
  <2> QED BY <1>1, <2>5, <2>6 DEF Restrained, Shape
<1> QED BY <1>9, <1>10, <1>11, <1>12 DEF Round

LEMMA HitMoves ==
  ASSUME Types, FetchInv, \A t \in Slots : Current(t), epoch' \in [Keys -> Nat], NEW r \in Readers, pc[r] = "idle",
         NEW k \in Keys, NEW s \in Slots, NEW c, Ready(c, k, s), NEW a, Returns(r, a), UNCHANGED worker,
         (cache' = c /\ UNCHANGED tasks) \/ (StartsRefresh(c, k, s) /\ c.entry[s].gen >= c.entry[s].minValid)
  PROVE  /\ \A t \in Slots : Current(t)'
         /\ cache'.map = c.map /\ Restrained(cache'.entry[s], c.entry[s])
         /\ \A t \in Slots \ {s} : cache'.entry[t] = c.entry[t]
<1> DEFINE e == c.entry[s]
<1>1. e \in Entry /\ Shape(c) /\ Prepared(c, s) /\ Ordered(e) /\ Newest(e, s)
  BY DEF Ready, Prepared, Shape
<1>2. Types' /\ FetchInv'
  BY <1>1, HitKeeps
<1>3. pc'[r] = "idle" /\ \A y \in Readers \ {r} : pc'[y] = pc[y] /\ req'[y] = req[y]
  BY DEF Returns, Types
<1>4. CASE cache' = c /\ UNCHANGED tasks
  <2>1. c.entry = [c.entry EXCEPT ![s] = e]
    BY <1>1 DEF Shape
  <2>2. \A t \in Slots, j \in Keys : (\E i \in DOMAIN tasks' : tasks'[i].slot = t /\ tasks'[i].key = j) => Uses(t, j)
    BY <1>4 DEF Uses
  <2>3. Newest(cache.entry[s], s)'
    BY <1>1, <1>3, <1>4 DEF Newest, Fills, Runs
  <2>4. e.minValid <= e.minValid /\ Restrained(e, e)
    BY <1>1 DEF Entry, Restrained
  <2>5. \A t \in Slots : Current(t)'
    BY <1>1, <1>2, <1>3, <1>4, <2>1, <2>2, <2>3, <2>4, LookMoves
  <2> QED BY <1>4, <2>4, <2>5
<1>5. CASE ~(cache' = c /\ UNCHANGED tasks)
  <2> DEFINE x == [Begun(e) EXCEPT !.queued = TRUE]
             n == [key |-> k, slot |-> s, gen |-> e.started + 1]
  <2>1. ~e.refreshing /\ ~e.backoff /\ cache' = Put(c, s, x) /\ tasks' = Append(tasks, n) /\ e.gen >= e.minValid
    BY <1>5 DEF StartsRefresh
  <2>2. x \in Entry
    BY <1>1, EntrySteps
  <2>3. /\ x.gen = e.gen /\ x.at = e.at /\ x.started = e.started + 1 /\ x.done = e.done /\ x.minValid = e.minValid
        /\ x.refreshing /\ x.lastOk = e.lastOk /\ x.backoff = e.backoff
    BY <1>1 DEF Begun, Entry
  <2>4. n \in Task /\ n.slot = s /\ n.key = k
    BY <1>1 DEF Task, Entry
  <2> HIDE DEF x, n
  <2>5. cache'.map = c.map /\ cache'.entry = [c.entry EXCEPT ![s] = x]
    BY <1>1, <2>1, <2>2, PutKeeps
  <2>6. Ordered(x) /\ e.minValid <= x.minValid
    BY <1>1, <2>1, <2>3 DEF Ordered, Entry
  <2>7. Idle(s)
    <3>1. CASE Held(s)
      BY <1>1, <2>1, <3>1 DEF Prepared, FetchInv, OneAt, Busy
    <3> QED BY <3>1, FreeIsIdle
  <2>8. Newest(cache.entry[s], s)'
    BY <1>3, <2>7 DEF Newest, Fills, Runs, Idle
  <2>9. ASSUME NEW y \in Request PROVE Pressing(e, y) => Pressing(x, y)
    <3>1. e.minValid \in Nat /\ e.done \in Nat /\ e.gen \in Nat /\ y.target \in Nat
      BY <1>1 DEF Entry, Request
    <3>2. e.minValid <= e.done
      BY <1>1, <2>1, <3>1 DEF Ordered
    <3>3. ~(e.done < y.target /\ e.minValid >= y.target)
      BY <3>1, <3>2
    <3> QED BY <2>3, <3>3 DEF Pressing
  <2>10. \A i \in DOMAIN tasks' : (i \in DOMAIN tasks /\ tasks'[i] = tasks[i]) \/ tasks'[i] = n
    BY <2>1, <2>4 DEF Types
  <2>11. \A t \in Slots, j \in Keys : (\E i \in DOMAIN tasks' : tasks'[i].slot = t /\ tasks'[i].key = j)
            => Uses(t, j) \/ (t = s /\ j = k)
    BY <2>4, <2>10 DEF Uses
  <2>12. \A t \in Slots : Current(t)'
    BY <1>1, <1>2, <1>3, <2>2, <2>3, <2>5, <2>6, <2>8, <2>9, <2>11, LookMoves
  <2>13. Restrained(cache'.entry[s], e)
    BY <2>1 DEF Restrained
  <2>14. \A t \in Slots \ {s} : cache'.entry[t] = c.entry[t]
    BY <1>1, <2>5 DEF Shape
  <2> QED BY <2>5, <2>12, <2>13, <2>14
<1> QED BY <1>4, <1>5

LEMMA ServeMoves ==
  ASSUME Types, FetchInv, \A t \in Slots : Current(t), answer \in [Readers -> Good], epoch' \in [Keys -> Nat],
         NEW r \in Readers, pc[r] = "idle", NEW k \in Keys, NEW c, c.map[k] \in Slots, Ready(c, k, c.map[k]),
         NEW revalidate \in BOOLEAN, UNCHANGED worker, Serve(r, k, c, revalidate)
  PROVE  /\ (\A t \in Slots : Current(t)') /\ answer' \in [Readers -> Good]
         /\ cache'.map = c.map /\ Restrained(cache'.entry[c.map[k]], c.entry[c.map[k]])
         /\ \A t \in Slots \ {c.map[k]} : cache'.entry[t] = c.entry[t]
<1> PICK s \in Slots : s = c.map[k]
  OBVIOUS
<1> DEFINE e == c.entry[s]
           q == [key |-> k, slot |-> s, target |-> Max({e.minValid, e.done + 1}), asked |-> e.minValid > e.done,
                 since |-> epoch'[k], gen |-> 0, at |-> 0]
<1>1. \/ cache' = c /\ UNCHANGED tasks /\ Returns(r, Told(e, epoch'[k])) /\ Servable(e, Fresh)
      \/ StartsRefresh(c, k, s) /\ Returns(r, Told(e, epoch'[k])) /\ Servable(e, Stale)
      \/ Round(r, c, q) /\ UNCHANGED tasks
  BY DEF Serve
<1>2. e \in Entry /\ Ordered(e) /\ Above(e, s, e.minValid, epoch'[k]) /\ Ready(c, k, s) /\ epoch'[k] \in Nat
  BY DEF Ready, Prepared, Shape
<1>3. e.minValid \in Nat /\ e.done + 1 \in Nat
  BY <1>2 DEF Entry
<1>4. PICK m \in Nat : m = Max({e.minValid, e.done + 1}) /\ e.minValid <= m /\ m \in {e.minValid, e.done + 1}
  <2>1. Max({e.minValid, e.done + 1}) \in {e.minValid, e.done + 1} /\ e.minValid <= Max({e.minValid, e.done + 1})
    BY <1>3, MaxIs
  <2> QED BY <1>3, <2>1
<1>5. /\ q.key = k /\ q.slot = s /\ q.target = m /\ q.since = epoch'[k] /\ q.gen = 0 /\ q.at = 0
      /\ (q.asked => e.minValid > e.done) /\ q.asked \in BOOLEAN
  <2>1. q.asked = (e.minValid > e.done)
    OBVIOUS
  <2>2. q.asked => e.minValid > e.done
    BY <2>1, Zenon
  <2>3. q.asked \in BOOLEAN
    BY <2>1, <1>3, <1>2 DEF Entry
  <2>4. q.key = k /\ q.slot = s /\ q.target = m /\ q.since = epoch'[k] /\ q.gen = 0 /\ q.at = 0
    BY <1>4
  <2> QED BY <2>2, <2>3, <2>4
<1>6. q \in Request
  <2>1. q.asked \in BOOLEAN /\ q = [key |-> k, slot |-> s, target |-> m, asked |-> q.asked, since |-> epoch'[k], gen |-> 0, at |-> 0]
    BY <1>4, <1>5
  <2> HIDE DEF q
  <2> QED BY <1>2, <2>1 DEF Request
<1> HIDE DEF q
<1>7. CASE Round(r, c, q) /\ UNCHANGED tasks
  <2>1. Above(e, s, m, epoch'[k])
    BY <1>2, <1>3, <1>4, AboveRises
  <2>2. Asking(q, k, s, e)
    BY <1>2, <1>5, <2>1 DEF Asking
  <2>3. q.asked /\ e.done < q.target => e.minValid >= q.target
    <3>1. e.minValid \in Nat /\ e.done \in Nat
      BY <1>2 DEF Entry
    <3>2. (m = e.minValid \/ m = e.done + 1) /\ e.minValid <= m
      BY <1>4
    <3> QED BY <3>1, <3>2, <1>5
  <2> QED BY <1>2, <1>5, <1>6, <1>7, <2>2, <2>3, RoundMoves
<1>8. CASE Returns(r, Told(e, epoch'[k])) /\ Servable(e, Fresh) /\ cache' = c /\ UNCHANGED tasks
  <2>1. Told(e, epoch'[k]) \in Good
    BY <1>2, <1>8, ToldIsCurrent DEF Above
  <2>2. answer' \in [Readers -> Good]
    BY <1>8, <2>1, AnswerStays DEF Returns
  <2> QED BY <1>2, <1>8, <2>2, HitMoves
<1>9. CASE Returns(r, Told(e, epoch'[k])) /\ Servable(e, Stale) /\ StartsRefresh(c, k, s)
  <2>1. Told(e, epoch'[k]) \in Good
    BY <1>2, <1>9, ToldIsCurrent DEF Above
  <2>2. answer' \in [Readers -> Good]
    BY <1>9, <2>1, AnswerStays DEF Returns
  <2>3. e.gen >= e.minValid
    BY <1>9 DEF Servable
  <2> QED BY <1>2, <1>9, <2>2, <2>3, HitMoves
<1> QED BY <1>1, <1>7, <1>8, <1>9

(* What find_or_insert_locked finds is ready for the lookup, and stays so   *)
(* when the lookup asks for a newer value.                                  *)
Near(c, k, s) ==
  /\ Prepared(c, s)
  /\ \A j \in Keys : c.map[j] = s \/ Uses(s, j) => j = k
  /\ Ordered(c.entry[s]) /\ Newest(c.entry[s], s)
  /\ c.map[k] = s => Above(c.entry[s], s, c.entry[s].minValid, epoch[k])
  /\ \A r \in Readers : Asks(r, s) =>
       /\ Covers(c.entry[s], s, req[r])
       /\ pc[r] # "fetch" => Pressing(c.entry[s], req[r])
  /\ \A j \in Keys : c.map[j] \in Slots \ {s} => c.map[j] = cache.map[j]
  /\ (\E j \in Keys : cache.map[j] = s) => c.entry[s] = cache.entry[s]

LEMMA FoundIsNear ==
  ASSUME Types, FetchInv, \A t \in Slots : Current(t), NEW k \in Keys, NEW d \in Found(k)
  PROVE  Near(d, k, d.map[k])
<1> DEFINE s == d.map[k]
<1>1. Shape(d) /\ (Kept(d, k) \/ Added(d, k)) /\ s \in Slots /\ Prepared(d, s)
  BY FoundIs, FoundIsPrepared DEF Types
<1>2. CASE Kept(d, k)
  <2>1. d.entry = cache.entry /\ d.map = cache.map /\ cache.map[k] = s
    BY <1>2 DEF Kept
  <2>2. Current(s) /\ Uses(s, k)
    BY <1>1, <2>1 DEF Uses
  <2>3. \A j \in Keys : d.map[j] = s \/ Uses(s, j) => j = k
    BY <2>1, <2>2 DEF Current, OneKey, Uses
  <2>4. Ordered(d.entry[s]) /\ Newest(d.entry[s], s) /\ Above(d.entry[s], s, d.entry[s].minValid, epoch[k])
    BY <2>1, <2>2 DEF Current, MapCurrent
  <2>5. \A r \in Readers : Asks(r, s) => Covers(d.entry[s], s, req[r]) /\ (pc[r] # "fetch" => Pressing(d.entry[s], req[r]))
    BY <2>1, <2>2 DEF Current, AsksCurrent
  <2> QED BY <1>1, <2>1, <2>3, <2>4, <2>5 DEF Near
<1>3. CASE Added(d, k)
  <2>1. /\ s \in FreeSlots /\ d.entry = [cache.entry EXCEPT ![s] = NewEntry]
        /\ \A j \in Keys \ {k} : d.map[j] = cache.map[j] \/ d.map[j] = NoSlot
    BY <1>3 DEF Added
  <2>2. ~Held(s) /\ Idle(s)
    BY <2>1, FreeIsIdle DEF FreeSlots
  <2>3. d.entry[s] = NewEntry
    BY <1>1, <2>1 DEF Types, Shape
  <2>4. Ordered(d.entry[s]) /\ Newest(d.entry[s], s) /\ \A y : Above(d.entry[s], s, d.entry[s].minValid, y)
    BY <2>2, <2>3 DEF NewEntry, Ordered, Newest, Above, Newer, Idle
  <2>5. (\A j \in Keys : ~Uses(s, j)) /\ \A r \in Readers : ~Asks(r, s)
    BY <2>2 DEF Uses, Asks, Held
  <2>6. \A j \in Keys : d.map[j] = s => j = k
    BY <1>1, <2>1, <2>5 DEF Uses, NoSlot, Slots
  <2>7. \A j \in Keys : d.map[j] \in Slots \ {s} => d.map[j] = cache.map[j]
    BY <2>1 DEF NoSlot, Slots
  <2> HIDE DEF s
  <2>8. ~\E j \in Keys : cache.map[j] = s
    BY <2>5 DEF Uses
  <2>9. Near(d, k, s)
    BY <1>1, <2>4, <2>5, <2>6, <2>7, <2>8 DEF Near
  <2> QED BY <2>9 DEF s
<1> QED BY <1>1, <1>2, <1>3

LEMMA NearIsReady ==
  ASSUME Types, NEW k \in Keys, NEW s \in Slots, NEW c, Near(c, k, s), epoch' = epoch
  PROVE  Ready(c, k, s)
<1>1. \A j \in Keys : epoch[j] \in Nat
  BY DEF Types
<1> QED BY <1>1 DEF Near, Ready

LEMMA ForcedIsReady ==
  ASSUME Types, NEW k \in Keys, NEW c, c.map[k] \in Slots, Near(c, k, c.map[k]),
         epoch' = [epoch EXCEPT ![k] = @ + 1]
  PROVE  /\ Ready(Forced(c, k), k, c.map[k])
         /\ Forced(c, k).map = c.map
         /\ Forced(c, k).entry = [c.entry EXCEPT ![c.map[k]] = Invalidated(c.entry[c.map[k]])]
<1> PICK s \in Slots : s = c.map[k]
  OBVIOUS
<1> DEFINE e == c.entry[s]
           x == Invalidated(e)
           d == Forced(c, k)
<1>1. Prepared(c, s) /\ Shape(c) /\ e \in Entry /\ Ordered(e) /\ Newest(e, s)
  BY DEF Near, Prepared, Shape
<1>2. Prepared(d, s) /\ d.map = c.map
  BY <1>1, ForcedIsPrepared
<1>3. d = Put(c, s, x)
  BY DEF Forced, EntryOf
<1>4. x \in Entry
  BY <1>1, EntrySteps
<1> HIDE DEF d, x
<1>5. d.entry = [c.entry EXCEPT ![s] = x]
  BY <1>1, <1>3, <1>4, PutKeeps
<1>6. d.entry[s] = x
  BY <1>1, <1>5 DEF Shape
<1>7. /\ x.gen = e.gen /\ x.at = e.at /\ x.started = e.started /\ x.done = e.done /\ x.minValid = e.started + 1
      /\ x.refreshing = e.refreshing /\ x.queued = e.queued /\ x.lastOk = e.lastOk /\ x.backoff = e.backoff
  BY <1>1 DEF x, Invalidated, Entry
<1>8. Ordered(x) /\ Newest(x, s)
  BY <1>1, <1>7 DEF Ordered, Newest, Entry
<1>9. \A y : Above(x, s, x.minValid, y)
  BY <1>1, <1>7 DEF Above, Newer, Ordered, Newest, Entry
<1>10. \A m, y : Above(e, s, m, y) => Above(x, s, m, y)
  BY <1>7 DEF Above, Newer
<1>11. ASSUME NEW r \in Readers, Asks(r, s)
       PROVE  Covers(x, s, req[r]) /\ (pc[r] # "fetch" => Pressing(x, req[r]))
  <2>1. Covers(e, s, req[r]) /\ (pc[r] # "fetch" => Pressing(e, req[r]))
    BY <1>11 DEF Near
  <2>2. Pressing(e, req[r]) => Pressing(x, req[r])
    <3>1. req[r].target \in Nat
      BY <1>11 DEF Asks, Types, Request
    <3> QED BY <1>1, <1>7, <3>1 DEF Pressing, Ordered, Entry
  <2> QED BY <1>9, <1>10, <2>1, <2>2 DEF Covers
<1>12. (\A j \in Keys : epoch[j] <= epoch'[j]) /\ \A j \in Keys \ {k} : epoch'[j] = epoch[j]
  BY DEF Types
<1>13. \A j \in Keys : d.map[j] \in Slots \ {s} => d.map[j] = cache.map[j] /\ epoch'[j] = epoch[j]
  BY <1>2, <1>12 DEF Near
<1>14. \A j \in Keys : d.map[j] = s \/ Uses(s, j) => j = k
  BY <1>2 DEF Near
<1>15. Ready(d, k, s)
  BY <1>2, <1>6, <1>8, <1>9, <1>11, <1>12, <1>13, <1>14 DEF Ready
<1> QED BY <1>2, <1>5, <1>15 DEF d, x

-----------------------------------------------------------------------------
(* The steps: the values stay current, and so does the back-off.            *)
BackoffKept ==
  \A s \in Slots : (\E k \in Keys : cache.map[k] = s /\ cache'.map[k] = s) => Restrained(cache'.entry[s], cache.entry[s])

Moves == (\A s \in Slots : Current(s)') /\ answer' \in [Readers -> Good] /\ BackoffKept

LEMMA NothingStarted ==
  ASSUME Types, \A s \in Slots : cache'.entry[s].started = cache.entry[s].started
  PROVE  BackoffKept
BY DEF BackoffKept, Restrained, Types, Shape, Entry

LEMMA LookupMoves ==
  ASSUME Types, FetchInv, CurrentInv, NEW r \in Readers, Lookup(r)
  PROVE  Moves
<1>1. PICK k \in Keys, force \in BOOLEAN, revalidate \in BOOLEAN :
        /\ epoch' = IF force THEN [epoch EXCEPT ![k] = @ + 1] ELSE epoch
        /\ \E c \in Found(k) : Serve(r, k, IF force THEN Forced(c, k) ELSE c, revalidate)
  BY DEF Lookup
<1>2. PICK d \in Found(k) : Serve(r, k, IF force THEN Forced(d, k) ELSE d, revalidate)
  BY <1>1
<1>3. pc[r] = "idle" /\ UNCHANGED worker /\ epoch' \in [Keys -> Nat]
  BY <1>1 DEF Lookup, Types
<1>4. PICK s \in Slots : s = d.map[k]
  BY FoundIsPrepared
<1>5. Near(d, k, s) /\ Shape(d)
  BY <1>4, FoundIsNear DEF CurrentInv, Near, Prepared
<1>6. PICK c : /\ Ready(c, k, s) /\ c.map = d.map /\ Serve(r, k, c, revalidate)
               /\ c.entry[s].started = d.entry[s].started /\ c.entry[s].backoff = d.entry[s].backoff
               /\ c.entry[s].done = d.entry[s].done
  <2>1. CASE force
    <3>1. Ready(Forced(d, k), k, s) /\ Forced(d, k).map = d.map /\ Forced(d, k).entry[s] = Invalidated(d.entry[s])
      BY <1>1, <1>4, <1>5, <2>1, ForcedIsReady DEF Shape
    <3>2. d.entry[s] \in Entry
      BY <1>5 DEF Shape
    <3> QED BY <1>2, <2>1, <3>1, <3>2 DEF Invalidated, Entry
  <2>2. CASE ~force
    BY <1>1, <1>2, <1>5, <2>2, NearIsReady
  <2> QED BY <2>1, <2>2
<1>7. /\ (\A t \in Slots : Current(t)') /\ answer' \in [Readers -> Good]
      /\ cache'.map = c.map /\ Restrained(cache'.entry[s], c.entry[s])
      /\ \A t \in Slots \ {s} : cache'.entry[t] = c.entry[t]
  BY <1>3, <1>4, <1>6, ServeMoves DEF CurrentInv
<1>8. BackoffKept
  <2> SUFFICES ASSUME NEW t \in Slots, NEW j \in Keys, cache.map[j] = t, cache'.map[j] = t
               PROVE  Restrained(cache'.entry[t], cache.entry[t])
    BY DEF BackoffKept
  <2>1. CASE t = s
    BY <1>5, <1>6, <1>7, <2>1 DEF Near, Restrained
  <2>2. CASE t # s
    <3>1. cache'.entry[t] = cache.entry[t] /\ cache.entry[t].started \in Nat
      BY <1>6, <1>7, <2>2 DEF Ready, Prepared, Types, Shape, Entry
    <3> QED BY <3>1 DEF Restrained
  <2> QED BY <2>1, <2>2
<1> QED BY <1>7, <1>8 DEF Moves

LEMMA WakeMoves ==
  ASSUME Types, FetchInv, CurrentInv, NEW r \in Readers, Wake(r)
  PROVE  Moves
<1>1. /\ pc[r] = "woken" /\ req[r] \in Request /\ Round(r, cache, req[r])
      /\ UNCHANGED <<tasks, worker>> /\ epoch' = epoch
  BY DEF Wake, Types, refreshVars
<1> PICK s \in Slots, k \in Keys : s = req[r].slot /\ k = req[r].key
  BY <1>1 DEF Request
<1>2. Current(s) /\ Asks(r, s) /\ Held(s) /\ Uses(s, k)
  BY <1>1 DEF CurrentInv, Asks, Held, Uses
<1>3. Prepared(cache, s)
  BY <1>2 DEF Prepared, Types, FetchInv, OneAt
<1>4. Near(cache, k, s)
  <2>1. \A j \in Keys : cache.map[j] = s \/ Uses(s, j) => j = k
    BY <1>2 DEF Current, OneKey, Uses
  <2>2. cache.map[k] = s => Above(cache.entry[s], s, cache.entry[s].minValid, epoch[k])
    BY <1>2 DEF Current, MapCurrent
  <2>3. \A y \in Readers : Asks(y, s) => /\ Covers(cache.entry[s], s, req[y])
                                         /\ pc[y] # "fetch" => Pressing(cache.entry[s], req[y])
    BY <1>2 DEF Current, AsksCurrent
  <2> QED BY <1>2, <1>3, <2>1, <2>2, <2>3 DEF Near, Current
<1>5. Ready(cache, k, s)
  BY <1>1, <1>4, NearIsReady
<1>6. Asking(req[r], k, s, cache.entry[s])
  BY <1>1, <1>2 DEF Asking, Current, AsksCurrent, Covers
<1>7. req[r].asked /\ cache.entry[s].done < req[r].target => cache.entry[s].minValid >= req[r].target
  <2>1. Pressing(cache.entry[s], req[r])
    BY <1>1, <1>2 DEF Current, AsksCurrent
  <2> QED BY <2>1 DEF Pressing
<1>8. epoch' \in [Keys -> Nat]
  BY <1>1 DEF Types
<1>9. /\ (\A t \in Slots : Current(t)') /\ answer' \in [Readers -> Good]
      /\ cache'.map = cache.map /\ Restrained(cache'.entry[s], cache.entry[s])
      /\ \A t \in Slots \ {s} : cache'.entry[t] = cache.entry[t]
  BY <1>1, <1>5, <1>6, <1>7, <1>8, RoundMoves DEF CurrentInv
<1>10. BackoffKept
  <2> SUFFICES ASSUME NEW t \in Slots PROVE Restrained(cache'.entry[t], cache.entry[t])
    BY DEF BackoffKept
  <2>1. CASE t = s
    BY <1>9, <2>1
  <2>2. CASE t # s
    BY <1>9, <2>2 DEF Restrained, Types, Shape, Entry
  <2> QED BY <2>1, <2>2
<1> QED BY <1>9, <1>10 DEF Moves

LEMMA TimesOutMoves ==
  ASSUME Types, FetchInv, CurrentInv, NEW r \in Readers, TimesOut(r)
  PROVE  Moves
<1>1. /\ pc[r] \in {"wait", "woken"} /\ UNCHANGED <<cache, tasks, worker>> /\ epoch' = epoch
      /\ Returns(r, StaleOrError(cache.entry[req[r].slot], req[r].since))
  BY DEF TimesOut, refreshVars
<1>2. req[r] \in Request
  BY <1>1 DEF Types
<1> PICK s \in Slots : s = req[r].slot
  BY <1>2 DEF Request
<1>3. Types' /\ pc'[r] = "idle" /\ \A x \in Readers \ {r} : pc'[x] = pc[x] /\ req'[x] = req[x]
  BY <1>1, TimesOutKeeps DEF Returns, Types
<1>4. ASSUME NEW t \in Slots PROVE Current(t)'
  <2>1. \A x \in Readers : Asks(x, t)' => Asks(x, t) /\ req'[x] = req[x] /\ (pc'[x] = "fetch" <=> pc[x] = "fetch")
    BY <1>3 DEF Asks
  <2>2. \A w \in Workers : Runs(w, t)' => Runs(w, t) /\ worker'[w] = worker[w]
    BY <1>1 DEF Runs
  <2>3. \A k \in Keys : Uses(t, k)' => Uses(t, k)
    BY <1>1, <2>1 DEF Uses
  <2>4. SameNumbers(cache'.entry[t], cache.entry[t])
    BY <1>1 DEF SameNumbers
  <2>5. \A k \in Keys : epoch[k] <= epoch'[k]
    BY <1>1 DEF Types
  <2> QED BY <1>1, <1>3, <2>1, <2>2, <2>3, <2>4, <2>5, LeftAlone DEF CurrentInv
<1>5. answer' \in [Readers -> Good]
  <2>1. Current(s) /\ Asks(r, s)
    BY <1>1 DEF CurrentInv, Asks
  <2>2. Newer(cache.entry[s], cache.entry[s].minValid, req[r].since) /\ Ordered(cache.entry[s])
    BY <2>1 DEF Current, AsksCurrent, Covers, Above
  <2>3. cache.entry[s] \in Entry /\ req[r].since \in Nat
    BY <1>2 DEF Types, Shape, Request
  <2>4. StaleOrError(cache.entry[s], req[r].since) \in Good
    BY <2>2, <2>3, ToldIsCurrent
  <2> QED BY <1>1, <2>4, AnswerStays DEF CurrentInv, Returns
<1>6. BackoffKept
  BY <1>1, NothingStarted
<1> QED BY <1>4, <1>5, <1>6 DEF Moves

(* The end of a fetch, by a reader or by a thread of the refresher.         *)
LEMMA FetchEndMoves ==
  ASSUME Types, Types', FetchInv, CurrentInv, NEW s \in Slots, NEW k \in Keys, Uses(s, k), ~Idle(s),
         NEW at \in Nat, NEW x \in Outcomes(cache.entry[s], cache.entry[s].started, at),
         \/ \E r \in Readers : Fills(r, s) /\ req[r].at = at
         \/ \E w \in Workers : Runs(w, s) /\ worker[w].at = at,
         cache' \in Stored(cache, k, s, x), Idle(s)', UNCHANGED <<tasks, epoch>>,
         \A r \in Readers, t \in Slots : Asks(r, t)' => Asks(r, t) /\ req'[r] = req[r] /\ (pc'[r] = "fetch" <=> pc[r] = "fetch"),
         \A w \in Workers, t \in Slots : Runs(w, t)' => Runs(w, t) /\ worker'[w] = worker[w],
         \A w \in Workers : worker'[w] = <<>> \/ worker'[w] = worker[w]
  PROVE  /\ (\A t \in Slots : Current(t)') /\ BackoffKept
         /\ x \in Entry /\ Ordered(x) /\ x.minValid = cache.entry[s].minValid
         /\ \/ x.gen = cache.entry[s].gen /\ x.at = cache.entry[s].at /\ ~x.lastOk
            \/ x.gen = x.done /\ x.at = at
<1> DEFINE e == cache.entry[s]
<1>1. e \in Entry /\ Shape(cache) /\ Busy(e) /\ Current(s) /\ Ordered(e) /\ Newest(e, s)
  BY DEF Types, Shape, FetchInv, OneAt, CurrentInv, Current
<1>2. e.started \in Nat /\ e.done < e.started /\ e.gen < e.started /\ e.minValid <= e.started + 1
  BY <1>1 DEF Ordered, Busy, Entry
<1>3. x \in Entry
  BY <1>1, <1>2, OutcomeKeeps
<1>4. /\ x.started = e.started /\ x.done = e.started /\ x.minValid = e.minValid /\ ~x.refreshing /\ x.queued = e.queued
      /\ \/ x.gen = e.gen /\ x.at = e.at /\ ~x.lastOk
         \/ x.gen = e.started /\ x.at = at /\ x.lastOk /\ ~x.backoff
  <2>1. CASE x = Failed(e, e.started)
    BY <1>1, <2>1 DEF Failed, Entry
  <2>2. CASE \E b \in ValueBytes : x = Fetched(e, e.started, b, at)
    BY <1>1, <2>2 DEF Fetched, Entry
  <2> QED BY <2>1, <2>2 DEF Outcomes
<1>5. Ordered(x)
  <2>1. e.done \in Nat /\ e.gen \in Nat
    BY <1>1 DEF Entry
  <2>2. x.lastOk => x.gen = x.done
    BY <1>4
  <2>3. x.backoff => ~x.lastOk
    BY <1>4
  <2>4. x.gen <= x.done /\ x.done <= x.started /\ x.minValid <= x.started + 1 /\ x.done > 0
    BY <1>2, <1>4, <2>1
  <2> QED BY <1>4, <2>2, <2>3, <2>4 DEF Ordered
<1>6. Shape(cache') /\ cache'.entry = [cache.entry EXCEPT ![s] = x] /\ Forgets(cache', cache)
  BY <1>1, <1>3, StoredKeeps
<1>7. cache'.entry[s] = x /\ \A t \in Slots \ {s} : cache'.entry[t] = cache.entry[t]
  BY <1>1, <1>6 DEF Shape
<1>8. \A t \in Slots, j \in Keys : cache'.map[j] = t => cache.map[j] = t
  BY <1>6 DEF Forgets, NoSlot, Slots
<1>9. \A t \in Slots, j \in Keys : Uses(t, j)' => Uses(t, j)
  BY <1>8 DEF Uses
<1>10. \A j \in Keys : epoch[j] \in Nat /\ epoch[j] <= epoch'[j]
  BY DEF Types
<1>11. ASSUME NEW t \in Slots \ {s} PROVE Current(t)'
  <2>1. Current(t) /\ SameNumbers(cache'.entry[t], cache.entry[t])
    BY <1>7 DEF CurrentInv, SameNumbers
  <2> QED BY <1>8, <1>9, <1>10, <2>1, LeftAlone
<1>12. ASSUME NEW m \in Nat, NEW y \in Nat, Above(e, s, m, y) PROVE Above(cache.entry[s], s, m, y)'
  <2>1. Newer(x, m, y)
    BY <1>1, <1>2, <1>4, <1>12 DEF Above, Newer, Newest
  <2> QED BY <1>7, <2>1 DEF Above, Idle
<1>13. ASSUME NEW y \in Nat, Above(e, s, e.minValid, y) PROVE Above(cache.entry[s], s, cache.entry[s].minValid, y)'
  <2>1. PICK m \in Nat : m = e.minValid
    BY <1>1 DEF Entry
  <2>2. Above(cache.entry[s], s, m, y)'
    BY <1>12, <1>13, <2>1
  <2> QED BY <1>4, <1>7, <2>1, <2>2 DEF Above
<1>14. ASSUME NEW r \in Readers, Asks(r, s)'
       PROVE  /\ req'[r].since <= epoch'[k]
              /\ Above(e, s, e.minValid, req'[r].since) /\ Above(e, s, req'[r].target, req'[r].since)
              /\ pc'[r] = "fetch" => req'[r].at >= req'[r].since
              /\ pc'[r] # "fetch" => Pressing(x, req'[r])
  <2>1. Asks(r, s) /\ req'[r] = req[r] /\ (pc'[r] = "fetch" <=> pc[r] = "fetch") /\ req[r] \in Request
    BY <1>14 DEF Types, Asks
  <2>2. req[r].key = k
    BY <1>1, <2>1 DEF Current, OneKey, Uses, Request
  <2>3. /\ req[r].since <= epoch[k] /\ Covers(e, s, req[r])
        /\ pc[r] = "fetch" => req[r].at >= req[r].since
        /\ pc[r] # "fetch" => Pressing(e, req[r])
    BY <1>1, <2>1, <2>2 DEF Current, AsksCurrent
  <2>4. Pressing(e, req[r]) => Pressing(x, req[r])
    <3>1. req[r].target \in Nat /\ e.done \in Nat
      BY <1>1, <2>1 DEF Request, Entry
    <3> QED BY <1>2, <1>4, <3>1 DEF Pressing
  <2> QED BY <2>1, <2>3, <2>4 DEF Covers
<1>15. cache'.map[k] = s => Above(e, s, e.minValid, epoch'[k])
  BY <1>1, <1>8 DEF Current, MapCurrent
<1>16. \A j \in Keys : Uses(s, j)' => j = k
  BY <1>1, <1>9 DEF Current, OneKey
<1>17. Newest(cache.entry[s], s)'
  BY DEF Newest, Idle
<1>18. Current(s)'
  <2>1. Ordered(cache.entry[s])'
    BY <1>5, <1>7
  <2>2. \A m, y \in Nat : y <= epoch'[k] /\ Above(e, s, m, y) => Above(cache.entry[s], s, m, y)'
    BY <1>12
  <2>3. \A y \in Nat : y <= epoch'[k] /\ Above(e, s, e.minValid, y) => Above(cache.entry[s], s, cache.entry[s].minValid, y)'
    BY <1>13
  <2> QED BY <1>1, <1>7, <1>14, <1>15, <1>16, <1>17, <2>1, <2>2, <2>3, SlotMoves
<1>19. BackoffKept
  <2>1. \A t \in Slots : cache'.entry[t].started = cache.entry[t].started
    BY <1>4, <1>7
  <2> QED BY <2>1, NothingStarted
<1> QED BY <1>3, <1>4, <1>5, <1>11, <1>18, <1>19

LEMMA FetchEndsMoves ==
  ASSUME Types, FetchInv, CurrentInv, NEW r \in Readers, FetchEnds(r)
  PROVE  Moves
<1>1. pc[r] = "fetch" /\ req[r] \in Request /\ UNCHANGED <<tasks, worker>> /\ epoch' = epoch
  BY DEF FetchEnds, Types, refreshVars
<1> PICK s \in Slots, k \in Keys, at \in Nat, since \in Nat :
      s = req[r].slot /\ k = req[r].key /\ at = req[r].at /\ since = req[r].since
  BY <1>1 DEF Request
<1>2. PICK x \in Outcomes(cache.entry[s], req[r].gen, at) :
        /\ cache' \in Stored(cache, k, s, x)
        /\ answer' = [answer EXCEPT ![r] = Outcome(x, since)]
        /\ pc' = [Notifies(s) EXCEPT ![r] = "idle"]
        /\ req' = [req EXCEPT ![r] = <<>>]
  BY DEF FetchEnds
<1>3. Types' /\ Fills(r, s) /\ ~Idle(s) /\ Asks(r, s) /\ Uses(s, k) /\ Current(s) /\ OneAt(s)
  BY <1>1, FetchEndsKeeps DEF Fills, Idle, Asks, Uses, CurrentInv, FetchInv
<1>4. req[r].gen = cache.entry[s].started /\ Newer(cache.entry[s], cache.entry[s].minValid, since) /\ at >= since
  BY <1>1, <1>3 DEF Current, Newest, AsksCurrent, Covers, Above
<1>5. /\ pc'[r] = "idle"
      /\ \A y \in Readers \ {r} : /\ pc'[y] = pc[y] \/ (pc[y] = "wait" /\ pc'[y] = "woken")
                                  /\ req'[y] = req[y]
  BY <1>2 DEF Notifies, Types
<1>6. \A y \in Readers, t \in Slots : Asks(y, t)' => Asks(y, t) /\ req'[y] = req[y] /\ (pc'[y] = "fetch" <=> pc[y] = "fetch")
  BY <1>5 DEF Asks
<1>7. \A w \in Workers, t \in Slots : Runs(w, t)' <=> Runs(w, t)
  BY <1>1 DEF Runs
<1>8. Idle(s)'
  BY <1>3, <1>5, <1>7 DEF OneAt, Idle, Fills
<1>9. /\ (\A t \in Slots : Current(t)') /\ BackoffKept
      /\ x \in Entry /\ Ordered(x) /\ x.minValid = cache.entry[s].minValid
      /\ \/ x.gen = cache.entry[s].gen /\ x.at = cache.entry[s].at /\ ~x.lastOk
         \/ x.gen = x.done /\ x.at = at
  BY <1>1, <1>2, <1>3, <1>4, <1>6, <1>7, <1>8, FetchEndMoves
<1>10. Outcome(x, since) \in Good
  <2>1. Newer(x, x.minValid, since)
    BY <1>4, <1>9 DEF Newer
  <2>2. CASE ~x.lastOk
    BY <1>9, <2>1, <2>2, ToldIsCurrent
  <2>3. CASE x.lastOk
    <3>1. x.done \in Nat /\ x.done >= x.done /\ Newer(x, x.done, since)
      BY <1>4, <1>9, <2>3 DEF Newer, Entry
    <3> QED BY <1>9, <2>1, <3>1, ToldIsCurrent
  <2> QED BY <2>2, <2>3
<1>11. answer' \in [Readers -> Good]
  BY <1>2, <1>10, AnswerStays DEF CurrentInv
<1> QED BY <1>9, <1>11 DEF Moves

LEMMA TaskEndsMoves ==
  ASSUME Types, FetchInv, CurrentInv, NEW w \in Workers, TaskEnds(w)
  PROVE  Moves
<1>1. /\ worker[w] # <<>> /\ worker[w] \in Job /\ worker[w].pc = "fetch" /\ worker' = [worker EXCEPT ![w] = <<>>]
      /\ UNCHANGED <<req, answer, tasks>> /\ epoch' = epoch
  BY DEF TaskEnds, Types
<1> PICK s \in Slots, k \in Keys, at \in Nat : s = worker[w].slot /\ k = worker[w].key /\ at = worker[w].at
  BY <1>1 DEF Job
<1>2. PICK x \in Outcomes(cache.entry[s], worker[w].gen, at) : cache' \in Stored(cache, k, s, x) /\ pc' = Notifies(s)
  BY DEF TaskEnds
<1>3. Types' /\ Runs(w, s) /\ ~Idle(s) /\ Uses(s, k) /\ Current(s) /\ OneAt(s)
  BY <1>1, TaskEndsKeeps DEF Runs, Idle, Uses, CurrentInv, FetchInv
<1>4. worker[w].gen = cache.entry[s].started
  BY <1>1, <1>3 DEF Current, Newest
<1>5. \A y \in Readers : pc'[y] = pc[y] \/ (pc[y] = "wait" /\ pc'[y] = "woken")
  BY <1>2 DEF Notifies, Types
<1>6. \A y \in Readers, t \in Slots : Asks(y, t)' => Asks(y, t) /\ req'[y] = req[y] /\ (pc'[y] = "fetch" <=> pc[y] = "fetch")
  BY <1>1, <1>5 DEF Asks
<1>7. worker'[w] = <<>> /\ \A v \in Workers \ {w} : worker'[v] = worker[v]
  BY <1>1 DEF Types
<1>8. \A v \in Workers, t \in Slots : Runs(v, t)' => Runs(v, t) /\ worker'[v] = worker[v] /\ v # w
  BY <1>7 DEF Runs
<1>9. Idle(s)'
  BY <1>1, <1>3, <1>5, <1>8 DEF OneAt, Idle, Fills
<1>10. (\A t \in Slots : Current(t)') /\ BackoffKept
  BY <1>1, <1>2, <1>3, <1>4, <1>6, <1>7, <1>8, <1>9, FetchEndMoves
<1> QED BY <1>1, <1>10 DEF Moves, CurrentInv

(* A step that leaves the entries and the readers alone, but for the time   *)
(* that passes, and that frees or moves threads and tasks at most.          *)
LEMMA QuietMoves ==
  ASSUME Types, Types', CurrentInv, cache'.map = cache.map, UNCHANGED <<pc, req, answer>>, epoch' = epoch,
         \A s \in Slots : SameNumbers(cache'.entry[s], cache.entry[s]),
         \A w \in Workers, s \in Slots : Runs(w, s)' => Runs(w, s) /\ worker'[w] = worker[w],
         \A s \in Slots, k \in Keys : Uses(s, k)' => Uses(s, k)
  PROVE  Moves
<1>1. \A r \in Readers, s \in Slots : Asks(r, s)' => Asks(r, s) /\ req'[r] = req[r] /\ (pc'[r] = "fetch" <=> pc[r] = "fetch")
  BY DEF Asks
<1>2. \A k \in Keys : epoch[k] <= epoch'[k]
  BY DEF Types
<1>3. \A s \in Slots : Current(s)'
  BY <1>1, <1>2, LeftAlone DEF CurrentInv
<1>4. BackoffKept
  BY NothingStarted DEF SameNumbers
<1> QED BY <1>3, <1>4 DEF Moves, CurrentInv

LEMMA SameIsSame ==
  ASSUME NEW e
  PROVE  SameNumbers(e, e)
BY DEF SameNumbers

LEMMA TakeMoves ==
  ASSUME Types, FetchInv, CurrentInv, NEW w \in Workers, Take(w)
  PROVE  Moves
<1>1. /\ worker[w] = <<>> /\ tasks # <<>> /\ tasks' = Tail(tasks)
      /\ UNCHANGED <<cache, pc, req, answer>> /\ epoch' = epoch
  BY DEF Take, readerVars
<1>2. PICK t \in Task : t = Head(tasks)
  BY <1>1 DEF Types
<1> DEFINE j == [key |-> t.key, slot |-> t.slot, gen |-> t.gen, at |-> 0, pc |-> "taken"]
<1>3. worker' = [worker EXCEPT ![w] = j]
  BY <1>2 DEF Take
<1>4. j.pc = "taken" /\ j.slot = t.slot /\ j.key = t.key
  OBVIOUS
<1> HIDE DEF j
<1>5. worker'[w] = j /\ \A v \in Workers \ {w} : worker'[v] = worker[v]
  BY <1>3 DEF Types
<1>6. \A v \in Workers, s \in Slots : Runs(v, s)' => Runs(v, s) /\ worker'[v] = worker[v]
  BY <1>4, <1>5 DEF Runs
<1>7. 1 \in DOMAIN tasks /\ tasks[1] = t /\ \A i \in DOMAIN tasks' : i + 1 \in DOMAIN tasks /\ tasks'[i] = tasks[i + 1]
  BY <1>1, <1>2 DEF Types
<1>8. ASSUME NEW s \in Slots, NEW k \in Keys, Uses(s, k)' PROVE Uses(s, k)
  <2>1. (\E i \in DOMAIN tasks' : tasks'[i].slot = s /\ tasks'[i].key = k) => \E i \in DOMAIN tasks : tasks[i].slot = s /\ tasks[i].key = k
    BY <1>7
  <2>2. (t.slot = s /\ t.key = k) => \E i \in DOMAIN tasks : tasks[i].slot = s /\ tasks[i].key = k
    BY <1>7
  <2>3. \A v \in Workers : worker'[v] # <<>> /\ worker'[v].slot = s /\ worker'[v].key = k
          => (t.slot = s /\ t.key = k) \/ (worker[v] # <<>> /\ worker[v].slot = s /\ worker[v].key = k)
    BY <1>4, <1>5
  <2>4. \A r \in Readers : Asks(r, s)' /\ req'[r].key = k => Asks(r, s) /\ req[r].key = k
    BY <1>1 DEF Asks
  <2> QED BY <1>1, <1>8, <2>1, <2>2, <2>3, <2>4 DEF Uses
<1>9. Types'
  BY TakeKeeps
<1> QED BY <1>1, <1>6, <1>8, <1>9, QuietMoves, SameIsSame

LEMMA StopMoves ==
  ASSUME Types, FetchInv, CurrentInv, StopRefresher
  PROVE  Moves
<1>1. tasks' = <<>> /\ UNCHANGED <<cache, pc, req, answer, worker>> /\ epoch' = epoch
  BY DEF StopRefresher, readerVars
<1>2. DOMAIN tasks' = {}
  BY <1>1
<1>3. \A s \in Slots, k \in Keys : Uses(s, k)' => Uses(s, k)
  BY <1>1, <1>2 DEF Uses, Asks
<1>4. \A w \in Workers, s \in Slots : Runs(w, s)' => Runs(w, s) /\ worker'[w] = worker[w]
  BY <1>1 DEF Runs
<1> QED BY <1>1, <1>3, <1>4, StopKeeps, QuietMoves, SameIsSame

LEMMA TimeMoves ==
  ASSUME Types, FetchInv, CurrentInv, NEW s \in Slots, Ages(s) \/ BackoffEnds(s)
  PROVE  Moves
<1>1. UNCHANGED <<pc, req, answer, tasks, worker>> /\ epoch' = epoch
  BY DEF Ages, BackoffEnds, readerVars, refreshVars
<1>2. cache.entry \in [Slots -> Entry] /\ cache = [map |-> cache.map, lru |-> cache.lru, bytes |-> cache.bytes, entry |-> cache.entry]
  BY DEF Types, Shape
<1>3. PICK x : cache' = [cache EXCEPT !.entry[s] = x] /\ SameNumbers(x, cache.entry[s])
  <2>1. cache.entry[s] \in Entry
    BY <1>2
  <2>2. CASE Ages(s)
    <3> DEFINE x == [cache.entry[s] EXCEPT !.age = @ + 1]
    <3>1. cache' = [cache EXCEPT !.entry[s] = x]
      BY <2>2 DEF Ages
    <3>2. SameNumbers(x, cache.entry[s])
      BY <2>1 DEF SameNumbers, Entry
    <3> QED BY <3>1, <3>2
  <2>3. CASE BackoffEnds(s)
    <3> DEFINE x == [cache.entry[s] EXCEPT !.backoff = FALSE]
    <3>1. cache' = [cache EXCEPT !.entry[s] = x]
      BY <2>3 DEF BackoffEnds
    <3>2. SameNumbers(x, cache.entry[s])
      BY <2>1 DEF SameNumbers, Entry
    <3> QED BY <3>1, <3>2
  <2> QED BY <2>2, <2>3
<1>4. cache'.map = cache.map /\ cache'.entry = [cache.entry EXCEPT ![s] = x]
  BY <1>2, <1>3
<1>5. \A t \in Slots : SameNumbers(cache'.entry[t], cache.entry[t])
  BY <1>2, <1>3, <1>4, SameIsSame
<1>6. \A t \in Slots, k \in Keys : Uses(t, k)' => Uses(t, k)
  BY <1>1, <1>4 DEF Uses, Asks
<1>7. \A w \in Workers, t \in Slots : Runs(w, t)' => Runs(w, t) /\ worker'[w] = worker[w]
  BY <1>1 DEF Runs
<1> QED BY <1>1, <1>4, <1>5, <1>6, <1>7, TimeKeeps, QuietMoves

(* A queued refresh that nobody took over: its fetch begins.                *)
LEMMA RunMoves ==
  ASSUME Types, FetchInv, CurrentInv, NEW w \in Workers, Run(w)
  PROVE  Moves
<1>1. worker[w] # <<>> /\ worker[w] \in Job /\ worker[w].pc = "taken" /\ UNCHANGED <<pc, req, answer, tasks>> /\ epoch' = epoch
  BY DEF Run, Types, readerVars
<1> PICK j \in Job, s \in Slots, k \in Keys : j = worker[w] /\ s = j.slot /\ k = j.key
  BY <1>1 DEF Job
<1>2. Types' /\ FetchInv'
  BY RunKeeps
<1>3. \A r \in Readers, t \in Slots : Asks(r, t)' => Asks(r, t) /\ req'[r] = req[r] /\ (pc'[r] = "fetch" <=> pc[r] = "fetch")
  BY <1>1 DEF Asks
<1>4. CASE worker' = [worker EXCEPT ![w] = <<>>] /\ UNCHANGED cache
  <2>1. worker'[w] = <<>> /\ \A v \in Workers \ {w} : worker'[v] = worker[v]
    BY <1>4 DEF Types
  <2>2. \A v \in Workers, t \in Slots : Runs(v, t)' => Runs(v, t) /\ worker'[v] = worker[v]
    BY <2>1 DEF Runs
  <2>3. \A t \in Slots, i \in Keys : Uses(t, i)' => Uses(t, i)
    BY <1>1, <1>4, <2>1 DEF Uses, Asks
  <2> QED BY <1>1, <1>2, <1>4, <2>2, <2>3, QuietMoves, SameIsSame
<1>5. CASE ~(worker' = [worker EXCEPT ![w] = <<>>] /\ UNCHANGED cache)
  <2> DEFINE e == cache.entry[s]
             x == [e EXCEPT !.queued = FALSE]
             n == [j EXCEPT !.pc = "fetch", !.at = epoch[j.key]]
  <2>1. e.queued /\ e.started = j.gen /\ cache' = Put(cache, s, x) /\ worker' = [worker EXCEPT ![w] = n]
    BY <1>5 DEF Run
  <2>2. e \in Entry /\ e.refreshing /\ Idle(s) /\ Current(s) /\ Uses(s, k)
    BY <1>1, <2>1 DEF Types, Shape, FetchInv, OneAt, Busy, CurrentInv, Uses
  <2>3. x \in Entry
    BY <2>2, EntrySteps
  <2>4. /\ x.gen = e.gen /\ x.at = e.at /\ x.started = e.started /\ x.done = e.done /\ x.minValid = e.minValid
        /\ x.refreshing = e.refreshing /\ x.lastOk = e.lastOk /\ x.backoff = e.backoff /\ ~x.queued
    BY <2>2 DEF Entry
  <2>5. n.slot = s /\ n.key = k /\ n.pc = "fetch" /\ n.gen = e.started /\ n.at = epoch[k]
    BY <2>1 DEF Job
  <2>6. cache'.map = cache.map /\ cache'.entry = [cache.entry EXCEPT ![s] = x]
    <3> HIDE DEF x
    <3> QED BY <2>1, <2>3, PutKeeps DEF Types
  <2>7. cache'.entry[s] = x /\ \A t \in Slots \ {s} : cache'.entry[t] = cache.entry[t]
    BY <2>6 DEF Types, Shape
  <2> HIDE DEF x, n
  <2>8. worker'[w] = n /\ \A v \in Workers \ {w} : worker'[v] = worker[v]
    BY <2>1 DEF Types
  <2>9. \A t \in Slots, i \in Keys : Uses(t, i)' => Uses(t, i)
    <3>1. \A v \in Workers : worker'[v] # <<>> => worker[v] # <<>> /\ worker'[v].slot = worker[v].slot /\ worker'[v].key = worker[v].key
      BY <1>1, <2>5, <2>8
    <3> QED BY <1>1, <2>6, <3>1 DEF Uses, Asks
  <2>10. \A v \in Workers, t \in Slots : Runs(v, t)' => (Runs(v, t) /\ worker'[v] = worker[v]) \/ (v = w /\ t = s)
    BY <2>5, <2>8 DEF Runs
  <2>11. ASSUME NEW t \in Slots \ {s} PROVE Current(t)'
    <3>1. Current(t) /\ SameNumbers(cache'.entry[t], cache.entry[t])
      BY <2>7, SameIsSame DEF CurrentInv
    <3>2. \A i \in Keys : epoch[i] <= epoch'[i]
      BY <1>1 DEF Types
    <3> QED BY <1>1, <1>2, <1>3, <2>6, <2>9, <2>10, <3>1, <3>2, LeftAlone
  <2>12. Ordered(cache.entry[s])' /\ Newest(cache.entry[s], s)'
    <3>1. Ordered(x)
      BY <2>2, <2>4 DEF Current, Ordered
    <3>2. \A r \in Readers : ~Fills(r, s)'
      BY <1>1, <2>2 DEF Fills, Idle
    <3>3. \A v \in Workers : Runs(v, s)' => v = w
      BY <2>2, <2>10 DEF Idle
    <3> QED BY <2>4, <2>5, <2>7, <2>8, <3>1, <3>2, <3>3 DEF Newest
  <2>13. epoch'[k] \in Nat /\ \A i \in Keys : Uses(s, i)' => i = k
    BY <1>2, <2>2, <2>9 DEF Types, Current, OneKey
  <2>14. ASSUME NEW m \in Nat, NEW y \in Nat, y <= epoch'[k], Above(e, s, m, y) PROVE Above(cache.entry[s], s, m, y)'
    <3>1. \A r \in Readers : ~Fills(r, s)'
      BY <1>1, <2>2 DEF Fills, Idle
    <3>2. \A v \in Workers : Runs(v, s)' => v = w
      BY <2>2, <2>10 DEF Idle
    <3>3. Newer(n, m, y) /\ Newer(x, m, y)
      BY <1>1, <2>4, <2>5, <2>13, <2>14 DEF Newer, Above
    <3> QED BY <2>7, <2>8, <3>1, <3>2, <3>3 DEF Above
  <2>15. ASSUME NEW y \in Nat, y <= epoch'[k], Above(e, s, e.minValid, y)
         PROVE  Above(cache.entry[s], s, cache.entry[s].minValid, y)'
    <3>1. PICK m \in Nat : m = e.minValid
      BY <2>2 DEF Entry
    <3>2. Above(cache.entry[s], s, m, y)'
      BY <2>14, <2>15, <3>1
    <3> QED BY <2>4, <2>7, <3>1, <3>2 DEF Above
  <2>16. ASSUME NEW r \in Readers, Asks(r, s)'
         PROVE  /\ req'[r].since <= epoch'[k]
                /\ Above(e, s, e.minValid, req'[r].since) /\ Above(e, s, req'[r].target, req'[r].since)
                /\ pc'[r] = "fetch" => req'[r].at >= req'[r].since
                /\ pc'[r] # "fetch" => Pressing(x, req'[r])
    <3>1. Asks(r, s) /\ req'[r] = req[r] /\ pc'[r] = pc[r] /\ req[r] \in Request
      BY <1>1, <2>16 DEF Asks, Types
    <3>2. req[r].key = k
      BY <2>13, <2>16, <3>1 DEF Uses, Request
    <3>3. /\ req[r].since <= epoch[k] /\ Covers(e, s, req[r])
          /\ pc[r] = "fetch" => req[r].at >= req[r].since
          /\ pc[r] # "fetch" => Pressing(e, req[r])
      BY <2>2, <3>1, <3>2 DEF Current, AsksCurrent
    <3>4. Pressing(e, req[r]) => Pressing(x, req[r])
      BY <2>4 DEF Pressing
    <3> QED BY <1>1, <3>1, <3>3, <3>4 DEF Covers
  <2>17. cache'.map[k] = s => Above(e, s, e.minValid, epoch'[k])
    BY <1>1, <2>2, <2>6 DEF Current, MapCurrent
  <2>18. Current(s)'
    BY <1>2, <2>2, <2>7, <2>12, <2>13, <2>14, <2>15, <2>16, <2>17, SlotMoves
  <2>19. BackoffKept
    <3>1. \A t \in Slots : cache'.entry[t].started = cache.entry[t].started
      BY <2>4, <2>7
    <3> QED BY <3>1, NothingStarted
  <2> QED BY <1>1, <2>11, <2>18, <2>19 DEF Moves, CurrentInv
<1> QED BY <1>4, <1>5

LEMMA InvalidateMoves ==
  ASSUME Types, FetchInv, CurrentInv, Invalidate
  PROVE  Moves
<1>1. PICK K \in (SUBSET Keys) \ {{}} :
        /\ epoch' = [k \in Keys |-> IF k \in K THEN epoch[k] + 1 ELSE epoch[k]]
        /\ cache' = [cache EXCEPT !.entry = [s \in Slots |->
                      IF \E k \in K : cache.map[k] = s THEN Invalidated(cache.entry[s]) ELSE cache.entry[s]]]
  BY DEF Invalidate
<1>2. UNCHANGED <<pc, req, answer, tasks, worker>>
  BY DEF Invalidate, readerVars, refreshVars
<1>3. Types'
  BY InvalidateKeeps
<1>4. cache = [map |-> cache.map, lru |-> cache.lru, bytes |-> cache.bytes, entry |-> cache.entry]
  BY DEF Types, Shape
<1>5. /\ cache'.map = cache.map
      /\ \A s \in Slots : cache'.entry[s] = IF \E k \in K : cache.map[k] = s THEN Invalidated(cache.entry[s]) ELSE cache.entry[s]
  BY <1>1, <1>4
<1>6. /\ \A r \in Readers, s \in Slots : Asks(r, s)' => Asks(r, s) /\ req'[r] = req[r] /\ (pc'[r] = "fetch" <=> pc[r] = "fetch")
      /\ \A w \in Workers, s \in Slots : Runs(w, s)' => Runs(w, s) /\ worker'[w] = worker[w]
      /\ \A r \in Readers, s \in Slots : Fills(r, s)' <=> Fills(r, s)
      /\ \A s \in Slots, k \in Keys : Uses(s, k)' => Uses(s, k)
  BY <1>2, <1>5 DEF Asks, Runs, Fills, Uses
<1>7. \A k \in Keys : epoch[k] \in Nat /\ epoch'[k] \in Nat /\ epoch[k] <= epoch'[k] /\ (k \notin K => epoch'[k] = epoch[k])
  BY <1>1 DEF Types
<1>8. ASSUME NEW s \in Slots, ~\E k \in K : cache.map[k] = s PROVE Current(s)'
  <2>1. \A k \in Keys : cache'.map[k] = s => cache.map[k] = s /\ epoch'[k] = epoch[k]
    BY <1>5, <1>7, <1>8
  <2>2. SameNumbers(cache'.entry[s], cache.entry[s]) /\ Current(s)
    BY <1>5, <1>8, SameIsSame DEF CurrentInv
  <2> QED BY <1>3, <1>6, <1>7, <2>1, <2>2, LeftAlone
<1>9. ASSUME NEW s \in Slots, NEW k \in K, cache.map[k] = s
      PROVE  Current(s)' /\ cache'.entry[s].started = cache.entry[s].started
  <2> DEFINE e == cache.entry[s]
             x == Invalidated(e)
  <2>1. e \in Entry /\ Current(s) /\ Uses(s, k) /\ k \in Keys /\ cache'.entry[s] = x /\ Ordered(e) /\ Newest(e, s)
    BY <1>5, <1>9 DEF Types, Shape, CurrentInv, Uses, Current
  <2>2. x \in Entry
    BY <2>1, EntrySteps
  <2>3. /\ x.gen = e.gen /\ x.at = e.at /\ x.started = e.started /\ x.done = e.done /\ x.minValid = e.started + 1
        /\ x.refreshing = e.refreshing /\ x.queued = e.queued /\ x.lastOk = e.lastOk /\ x.backoff = e.backoff
    BY <2>1 DEF Invalidated, Entry
  <2> HIDE DEF x
  <2>4. Ordered(x)
    BY <2>1, <2>3 DEF Ordered, Entry
  <2>5. Newest(cache.entry[s], s)'
    BY <1>2, <2>1, <2>3 DEF Newest, Fills, Runs
  <2>6. \A y : Above(x, s, x.minValid, y)
    BY <2>1, <2>3 DEF Above, Newer, Ordered, Newest, Entry
  <2>7. \A m, y : Above(e, s, m, y) => Above(x, s, m, y)
    BY <2>3 DEF Above, Newer
  <2>8. \A m, y : Above(x, s, m, y) => Above(cache.entry[s], s, m, y)'
    BY <1>2, <2>1 DEF Above, Fills, Runs
  <2>9. \A y : Above(x, s, x.minValid, y) => Above(cache.entry[s], s, cache.entry[s].minValid, y)'
    BY <1>2, <2>1 DEF Above, Fills, Runs
  <2>10. \A j \in Keys : Uses(s, j)' => j = k
    BY <1>6, <2>1 DEF Current, OneKey
  <2>11. ASSUME NEW r \in Readers, Asks(r, s)'
         PROVE  /\ req'[r].since <= epoch'[k]
                /\ Above(x, s, x.minValid, req'[r].since) /\ Above(x, s, req'[r].target, req'[r].since)
                /\ pc'[r] = "fetch" => req'[r].at >= req'[r].since
                /\ pc'[r] # "fetch" => Pressing(x, req'[r])
    <3>1. Asks(r, s) /\ req'[r] = req[r] /\ pc'[r] = pc[r] /\ req[r] \in Request
      BY <1>2, <1>6, <2>11 DEF Asks, Types
    <3>2. req[r].key = k /\ req[r].since \in Nat /\ req[r].target \in Nat
      BY <2>10, <2>11, <3>1 DEF Uses, Request
    <3>3. /\ req[r].since <= epoch[k] /\ Covers(e, s, req[r])
          /\ pc[r] = "fetch" => req[r].at >= req[r].since
          /\ pc[r] # "fetch" => Pressing(e, req[r])
      BY <2>1, <3>1, <3>2 DEF Current, AsksCurrent
    <3>4. Pressing(e, req[r]) => Pressing(x, req[r])
      BY <2>1, <2>3, <3>2 DEF Pressing, Ordered, Entry
    <3> QED BY <1>7, <2>1, <2>6, <2>7, <3>1, <3>2, <3>3, <3>4 DEF Covers
  <2>12. Ordered(cache.entry[s])'
    BY <2>1, <2>4
  <2>13. Current(s)'
    BY <1>3, <2>1, <2>2, <2>5, <2>6, <2>8, <2>9, <2>10, <2>11, <2>12, SlotMoves
  <2> QED BY <2>1, <2>3, <2>13
<1>10. BackoffKept
  <2>1. \A s \in Slots : cache'.entry[s].started = cache.entry[s].started
    BY <1>5, <1>9
  <2> QED BY <2>1, NothingStarted
<1> QED BY <1>2, <1>8, <1>9, <1>10 DEF Moves, CurrentInv

LEMMA InitIsCurrent ==
  ASSUME Init
  PROVE  CurrentInv
<1>1. answer \in [Readers -> Good]
  BY DEF Init, Good
<1>2. ASSUME NEW s \in Slots PROVE Current(s)
  <2>1. cache.entry[s] = NewEntry /\ Idle(s) /\ \A r \in Readers : ~Asks(r, s)
    BY DEF Init, Idle, Fills, Runs, Asks
  <2>2. \A k \in Keys : ~Uses(s, k)
    BY <2>1 DEF Init, Uses, NoSlot, Slots
  <2>3. Ordered(NewEntry) /\ Newest(NewEntry, s)
    BY <2>1 DEF NewEntry, Ordered, Newest, Idle
  <2> QED BY <2>1, <2>2, <2>3 DEF Current, OneKey, MapCurrent, AsksCurrent, Uses
<1> QED BY <1>1, <1>2 DEF CurrentInv

LEMMA StepMoves ==
  ASSUME Types, FetchInv, CurrentInv, [Next]_vars
  PROVE  Moves
<1>1. CASE \E r \in Readers : Lookup(r) \/ Wake(r) \/ TimesOut(r) \/ FetchEnds(r)
  BY <1>1, LookupMoves, WakeMoves, TimesOutMoves, FetchEndsMoves
<1>2. CASE Invalidate
  BY <1>2, InvalidateMoves
<1>3. CASE \E w \in Workers : Take(w) \/ Run(w) \/ TaskEnds(w)
  BY <1>3, TakeMoves, RunMoves, TaskEndsMoves
<1>4. CASE StopRefresher
  BY <1>4, StopMoves
<1>5. CASE \E s \in Slots : Ages(s) \/ BackoffEnds(s)
  BY <1>5, TimeMoves
<1>6. CASE UNCHANGED vars
  <2>1. UNCHANGED <<cache, pc, req, answer, tasks, worker>> /\ epoch' = epoch
    BY <1>6 DEF vars, readerVars, refreshVars
  <2>2. \A s \in Slots, k \in Keys : Uses(s, k)' => Uses(s, k)
    BY <2>1 DEF Uses, Asks
  <2>3. \A w \in Workers, s \in Slots : Runs(w, s)' => Runs(w, s) /\ worker'[w] = worker[w]
    BY <2>1 DEF Runs
  <2> QED BY <2>1, <2>2, <2>3, StepKeeps, QuietMoves, SameIsSame
<1> QED BY <1>1, <1>2, <1>3, <1>4, <1>5, <1>6 DEF Next

(* The answer of a lookup is never older than what the lookup asked for:    *)
(* not of a hit, of a stale answer, of a fetch shared with others or taken  *)
(* over, nor of a wait that was over.                                       *)
THEOREM AnswersStayCurrent == Spec => []AnswersAreCurrent
<1>1. Init => Types /\ FetchInv /\ CurrentInv
  BY InitHolds, InitIsCurrent
<1>2. Types /\ FetchInv /\ CurrentInv /\ [Next]_vars => (Types /\ FetchInv /\ CurrentInv)'
  BY StepKeeps, StepMoves DEF Moves, CurrentInv
<1>3. CurrentInv => AnswersAreCurrent
  BY DEF CurrentInv, AnswersAreCurrent, Good
<1> QED BY <1>1, <1>2, <1>3, PTL DEF Spec

(* failure_backoff: a fetch that failed is not repeated within the back-off *)
(* but for a lookup that asked for a newer value.                           *)
THEOREM BackoffIsKept == Spec => BackoffHolds
<1>1. Init => Types /\ FetchInv /\ CurrentInv
  BY InitHolds, InitIsCurrent
<1>2. Types /\ FetchInv /\ CurrentInv /\ [Next]_vars => (Types /\ FetchInv /\ CurrentInv)'
  BY StepKeeps, StepMoves DEF Moves, CurrentInv
<1>3. ASSUME Types, FetchInv, CurrentInv, [Next]_vars
      PROVE  \A k \in Keys :
               k \in Mapped(cache) /\ cache'.map[k] = cache.map[k] /\ EntryOf(cache', k).started > EntryOf(cache, k).started
                 => ~EntryOf(cache, k).backoff \/ EntryOf(cache', k).minValid > EntryOf(cache, k).done
  <2>1. BackoffKept
    BY <1>3, StepMoves DEF Moves
  <2> SUFFICES ASSUME NEW k \in Keys, k \in Mapped(cache), cache'.map[k] = cache.map[k],
                      EntryOf(cache', k).started > EntryOf(cache, k).started
               PROVE  ~EntryOf(cache, k).backoff \/ EntryOf(cache', k).minValid > EntryOf(cache, k).done
    OBVIOUS
  <2>2. cache.map[k] \in Slots
    BY <1>3 DEF Mapped, Types, Shape
  <2>3. Restrained(cache'.entry[cache.map[k]], cache.entry[cache.map[k]])
    BY <2>1, <2>2 DEF BackoffKept
  <2> QED BY <2>3 DEF Restrained, EntryOf
<1>4. Types /\ FetchInv /\ CurrentInv /\ [Next]_vars
        => [\A k \in Keys :
             k \in Mapped(cache) /\ cache'.map[k] = cache.map[k] /\ EntryOf(cache', k).started > EntryOf(cache, k).started
               => ~EntryOf(cache, k).backoff \/ EntryOf(cache', k).minValid > EntryOf(cache, k).done]_vars
  BY <1>3
<1> QED BY <1>1, <1>2, <1>4, PTL DEF Spec, BackoffHolds

-----------------------------------------------------------------------------
(* Lists(l, M): l lists what is in M, each once.                            *)
Lists(l, M) ==
  /\ l \in Seq(Keys)
  /\ \A i, j \in 1..Len(l) : l[i] = l[j] => i = j
  /\ \A k : k \in M <=> \E i \in 1..Len(l) : l[i] = k

LEMMA ListsIsBounded ==
  ASSUME NEW l, NEW M, Lists(l, M)
  PROVE  ToSet(l) = M /\ IsFiniteSet(M) /\ Len(l) = Cardinality(M)
<1>1. Len(l) \in Nat /\ DOMAIN l = 1..Len(l) /\ l = [i \in 1..Len(l) |-> l[i]]
  BY LenProperties, SeqDef DEF Lists
<1>2. ToSet(l) = M
  BY <1>1 DEF Lists, ToSet
<1>3. l \in [1..Len(l) -> M] /\ \A k \in M : \E i \in 1..Len(l) : l[i] = k
  BY <1>1 DEF Lists
<1>4. l \in Bijection(1..Len(l), M)
  BY <1>3 DEF Bijection, Injection, Surjection, IsInjective, Lists
<1>5. ExistsBijection(1..Len(l), M)
  BY <1>4 DEF ExistsBijection
<1>6. IsFiniteSet(1..Len(l))
  BY <1>1, FS_Interval
<1>7. IsFiniteSet(M)
  BY <1>5, <1>6, FS_Bijection
<1>8. Cardinality(M) = Len(l)
  BY <1>1, <1>5, FS_CountingElements
<1> QED BY <1>2, <1>7, <1>8

(* The function in the definition of Without, up to a place n.              *)
Dropping(f, n, l, V) ==
  f = [i \in 0..n |-> IF i = 0 THEN <<>> ELSE IF l[i] \in V THEN f[i - 1] ELSE Append(f[i - 1], l[i])]

LEMMA DroppingExists ==
  ASSUME NEW l, NEW V, NEW N \in Nat
  PROVE  \E f : Dropping(f, N, l, V)
<1> DEFINE S == {n \in Nat : \E f : Dropping(f, n, l, V)}
<1>1. 0 \in S
  <2> DEFINE f == [i \in 0..0 |-> <<>>]
  <2>1. Dropping(f, 0, l, V)
    BY DEF Dropping
  <2> QED BY <2>1
<1>2. ASSUME NEW n \in Nat, n \in S PROVE n + 1 \in S
  <2>1. PICK f : Dropping(f, n, l, V)
    BY <1>2
  <2> DEFINE last == IF l[n + 1] \in V THEN f[n] ELSE Append(f[n], l[n + 1])
             g == [i \in 0..(n + 1) |-> IF i = n + 1 THEN last ELSE f[i]]
  <2>2. \A i \in 0..n : f[i] = IF i = 0 THEN <<>> ELSE IF l[i] \in V THEN f[i - 1] ELSE Append(f[i - 1], l[i])
    BY <2>1 DEF Dropping
  <2>3. ASSUME NEW i \in 0..(n + 1)
        PROVE  g[i] = IF i = 0 THEN <<>> ELSE IF l[i] \in V THEN g[i - 1] ELSE Append(g[i - 1], l[i])
    <3>1. CASE i = n + 1
      <4>1. g[i] = last /\ g[i - 1] = f[n] /\ i # 0
        BY <3>1
      <4> HIDE DEF g
      <4> QED BY <3>1, <4>1
    <3>2. CASE i # n + 1
      <4>1. i \in 0..n /\ g[i] = f[i] /\ (i # 0 => g[i - 1] = f[i - 1])
        BY <3>2
      <4> HIDE DEF g
      <4> QED BY <2>2, <4>1
    <3> QED BY <3>1, <3>2
  <2>4. Dropping(g, n + 1, l, V)
    <3>1. g = [i \in 0..(n + 1) |-> g[i]]
      OBVIOUS
    <3> HIDE DEF g
    <3> QED BY <2>3, <3>1 DEF Dropping
  <2> HIDE DEF g
  <2> QED BY <2>4
<1> HIDE DEF S
<1>3. Nat \subseteq S
  BY <1>1, <1>2, Induct
<1> QED BY <1>3 DEF S

(* A list of M with one more at its end.                                    *)
LEMMA ListsAppend ==
  ASSUME NEW l, NEW M, Lists(l, M), NEW k \in Keys, k \notin M
  PROVE  Lists(Append(l, k), M \cup {k})
<1> DEFINE a == Append(l, k)
<1>1. PICK m \in Nat : m = Len(l) /\ l \in Seq(Keys)
  BY LenProperties DEF Lists
<1>2. a \in Seq(Keys) /\ Len(a) = m + 1 /\ a[m + 1] = k /\ \A i \in 1..m : a[i] = l[i]
  BY <1>1, AppendProperties
<1>3. \A i \in 1..(m + 1) : i = m + 1 \/ i \in 1..m
  OBVIOUS
<1> HIDE DEF a
<1>4. \A i, j \in 1..Len(a) : a[i] = a[j] => i = j
  BY <1>1, <1>2, <1>3 DEF Lists
<1>5. ASSUME NEW x PROVE x \in M \cup {k} <=> \E i \in 1..Len(a) : a[i] = x
  <2>1. ASSUME x \in M PROVE \E i \in 1..Len(a) : a[i] = x
    <3>1. PICK i \in 1..m : l[i] = x
      BY <1>1, <2>1 DEF Lists
    <3>2. i \in 1..(m + 1)
      OBVIOUS
    <3> QED BY <1>2, <3>1, <3>2
  <2>2. m + 1 \in 1..(m + 1)
    OBVIOUS
  <2>3. ASSUME NEW i \in 1..Len(a), a[i] = x PROVE x \in M \cup {k}
    BY <1>1, <1>2, <1>3, <2>3 DEF Lists
  <2> QED BY <1>2, <2>1, <2>2, <2>3
<1> QED BY <1>2, <1>4, <1>5 DEF Lists, a

LEMMA ListsWithout ==
  ASSUME NEW l, NEW M, Lists(l, M), NEW V
  PROVE  Lists(Without(l, V), M \ V)
<1>0. Len(l) \in Nat /\ \A i \in 1..Len(l) : l[i] \in Keys
  BY LenProperties, ElementOfSeq DEF Lists
<1> DEFINE rest == CHOOSE f : Dropping(f, Len(l), l, V)
<1>1. Dropping(rest, Len(l), l, V)
  BY <1>0, DroppingExists
<1>2. Without(l, V) = rest[Len(l)]
  BY DEF Without, Dropping
<1> HIDE DEF rest
<1>3. \A i \in 0..Len(l) : rest[i] = IF i = 0 THEN <<>> ELSE IF l[i] \in V THEN rest[i - 1] ELSE Append(rest[i - 1], l[i])
  BY <1>1 DEF Dropping
<1> DEFINE Part(n) == {l[i] : i \in 1..n} \ V
           S == {n \in Nat : n <= Len(l) => Lists(rest[n], Part(n))}
<1>4. 0 \in S
  <2>1. rest[0] = <<>> /\ Part(0) = {}
    BY <1>0, <1>3
  <2>2. rest[0] \in Seq(Keys) /\ Len(rest[0]) = 0
    BY <2>1, EmptySeq
  <2>3. 1..0 = {}
    OBVIOUS
  <2>4. Lists(rest[0], {})
    BY <2>2, <2>3 DEF Lists
  <2> HIDE DEF Part
  <2> QED BY <2>1, <2>4
<1>5. ASSUME NEW n \in Nat, n \in S PROVE n + 1 \in S
  <2> SUFFICES ASSUME n + 1 <= Len(l) PROVE Lists(rest[n + 1], Part(n + 1))
    OBVIOUS
  <2>1. Lists(rest[n], Part(n)) /\ n + 1 \in 1..Len(l) /\ n + 1 \in 0..Len(l)
    BY <1>0, <1>5
  <2>2. l[n + 1] \in Keys /\ rest[n + 1] = IF l[n + 1] \in V THEN rest[n] ELSE Append(rest[n], l[n + 1])
    BY <1>0, <1>3, <2>1
  <2>3. 1..(n + 1) = 1..n \cup {n + 1}
    OBVIOUS
  <2>4. CASE l[n + 1] \in V
    <3>1. Part(n + 1) = Part(n)
      BY <2>3, <2>4
    <3> QED BY <2>1, <2>2, <2>4, <3>1
  <2>5. CASE l[n + 1] \notin V
    <3>1. Part(n + 1) = Part(n) \cup {l[n + 1]}
      BY <2>3, <2>5
    <3>2. l[n + 1] \notin Part(n)
      <4>1. ASSUME NEW i \in 1..n PROVE l[i] # l[n + 1]
        <5>1. i \in 1..Len(l) /\ i # n + 1
          BY <1>0, <2>1
        <5> QED BY <2>1, <5>1 DEF Lists
      <4> QED BY <4>1
    <3> HIDE DEF Part
    <3> QED BY <2>1, <2>2, <2>5, <3>1, <3>2, ListsAppend
  <2> QED BY <2>4, <2>5
<1> HIDE DEF S
<1>6. Nat \subseteq S
  BY <1>4, <1>5, Induct
<1>7. Lists(rest[Len(l)], Part(Len(l)))
  <2>1. Len(l) \in S /\ Len(l) <= Len(l)
    BY <1>0, <1>6
  <2> HIDE DEF Part
  <2> QED BY <2>1 DEF S
<1>8. Part(Len(l)) = M \ V
  <2>1. \A k : k \in M <=> \E i \in 1..Len(l) : l[i] = k
    BY DEF Lists
  <2>2. {l[i] : i \in 1..Len(l)} = M
    BY <2>1
  <2> QED BY <2>2
<1> QED BY <1>2, <1>7, <1>8

(* The key that was used last comes first.                                  *)
LEMMA ListsFirst ==
  ASSUME NEW l, NEW M, Lists(l, M), NEW k \in Keys
  PROVE  Lists(<<k>> \o Without(l, {k}), M \cup {k})
<1> DEFINE w == Without(l, {k})
           a == <<k>> \o w
<1>1. Lists(w, M \ {k})
  BY ListsWithout
<1> HIDE DEF w
<1>2. PICK m \in Nat : m = Len(w) /\ w \in Seq(Keys)
  BY <1>1, LenProperties DEF Lists
<1>3. <<k>> \in Seq(Keys) /\ Len(<<k>>) = 1 /\ <<k>>[1] = k
  OBVIOUS
<1>4. a \in Seq(Keys) /\ Len(a) = m + 1
  BY <1>2, <1>3, ConcatProperties
<1>5. a[1] = k /\ \A i \in 1..m : a[i + 1] = w[i]
  BY <1>2, <1>3, ConcatProperties
<1> HIDE DEF a
<1>6. \A i \in 1..(m + 1) : i = 1 \/ \E j \in 1..m : i = j + 1
  <2> TAKE i \in 1..(m + 1)
  <2>1. i = 1 \/ (i - 1 \in 1..m /\ i = (i - 1) + 1)
    OBVIOUS
  <2> QED BY <2>1
<1>7. \A i \in 1..m : w[i] # k
  BY <1>1, <1>2 DEF Lists
<1>8. ASSUME NEW i \in 1..Len(a), NEW j \in 1..Len(a), a[i] = a[j] PROVE i = j
  <2>1. CASE i = 1 /\ j = 1
    BY <2>1
  <2>2. CASE i = 1 /\ j # 1
    <3>1. PICK x \in 1..m : j = x + 1
      BY <1>4, <1>6, <2>2
    <3>2. a[j] = w[x] /\ a[i] = k
      BY <1>5, <2>2, <3>1
    <3> QED BY <1>7, <1>8, <3>2
  <2>3. CASE i # 1 /\ j = 1
    <3>1. PICK x \in 1..m : i = x + 1
      BY <1>4, <1>6, <2>3
    <3>2. a[i] = w[x] /\ a[j] = k
      BY <1>5, <2>3, <3>1
    <3> QED BY <1>7, <1>8, <3>2
  <2>4. CASE i # 1 /\ j # 1
    <3>1. PICK x \in 1..m, y \in 1..m : i = x + 1 /\ j = y + 1
      BY <1>4, <1>6, <2>4
    <3>2. w[x] = w[y]
      BY <1>5, <1>8, <3>1
    <3> QED BY <1>1, <1>2, <3>1, <3>2 DEF Lists
  <2> QED BY <2>1, <2>2, <2>3, <2>4
<1>9. ASSUME NEW x PROVE x \in M \cup {k} <=> \E i \in 1..Len(a) : a[i] = x
  <2>1. ASSUME x \in M \ {k} PROVE \E i \in 1..Len(a) : a[i] = x
    <3>1. PICK i \in 1..m : w[i] = x
      BY <1>1, <1>2, <2>1 DEF Lists
    <3>2. i + 1 \in 1..(m + 1) /\ a[i + 1] = x
      BY <1>5, <3>1
    <3> QED BY <1>4, <3>2
  <2>2. 1 \in 1..(m + 1)
    OBVIOUS
  <2>3. ASSUME NEW i \in 1..Len(a), a[i] = x, x # k PROVE x \in M
    <3>1. PICK j \in 1..m : i = j + 1
      BY <1>4, <1>5, <1>6, <2>3
    <3> QED BY <1>1, <1>2, <1>5, <2>3, <3>1 DEF Lists
  <2> QED BY <1>4, <1>5, <2>1, <2>2, <2>3
<1>10. Lists(a, M \cup {k})
  BY <1>4, <1>8, <1>9 DEF Lists
<1> QED BY <1>10 DEF a, w
-----------------------------------------------------------------------------
(* What the entries of a cache weigh.                                       *)
Weights(c) == [k \in Keys |-> EntryOf(c, k).bytes]

LEMMA SumBytesIs ==
  ASSUME NEW c, NEW V, V \subseteq Keys, IsFiniteSet(V)
  PROVE  SumBytes(c, V) = Total(Weights(c), V)
<1> DEFINE R(f) == f = [s \in SUBSET V |-> IF s = {} THEN 0
                                           ELSE LET x == CHOOSE x \in s : TRUE IN EntryOf(c, x).bytes + f[s \ {x}]]
           h == CHOOSE f : R(f)
<1>1. SumBytes(c, V) = h[V]
  BY DEF SumBytes, MapThenSumSet, MapThenFoldSet
<1>2. ASSUME NEW f PROVE R(f) <=> Sums(f, SUBSET V, Weights(c))
  <2> DEFINE A(s) == IF s = {} THEN 0 ELSE LET x == CHOOSE x \in s : TRUE IN EntryOf(c, x).bytes + f[s \ {x}]
             B(s) == IF s = {} THEN 0 ELSE Weights(c)[Pick(s)] + f[s \ {Pick(s)}]
  <2>1. ASSUME NEW s \in SUBSET V PROVE A(s) = B(s)
    <3>1. CASE s = {}
      BY <3>1
    <3>2. CASE s # {}
      <4>1. Pick(s) \in Keys
        BY <3>2, PickIsOne
      <4>2. Weights(c)[Pick(s)] = EntryOf(c, Pick(s)).bytes
        BY <4>1 DEF Weights
      <4> QED BY <3>2, <4>2 DEF Pick
    <3> QED BY <3>1, <3>2
  <2>2. R(f) <=> f = [s \in SUBSET V |-> A(s)]
    OBVIOUS
  <2>3. Sums(f, SUBSET V, Weights(c)) <=> f = [s \in SUBSET V |-> B(s)]
    BY DEF Sums
  <2> HIDE DEF A, B, R
  <2> QED BY <2>1, <2>2, <2>3
<1>3. PICK g : Sums(g, SUBSET V, Weights(c))
  BY SumsExist
<1> HIDE DEF R
<1>4. R(h)
  BY <1>2, <1>3
<1>5. Sums(h, SUBSET V, Weights(c))
  BY <1>2, <1>4
<1> HIDE DEF h
<1>6. h[V] = Total(Weights(c), V)
  <2>1. SameOn(V, Weights(c), Weights(c)) /\ V \subseteq V
    BY DEF SameOn
  <2> QED BY <1>5, <2>1, TotalAgrees
<1> QED BY <1>1, <1>6

LEMMA WeighIs ==
  ASSUME NEW c, Shape(c), NEW k \in Mapped(c)
  PROVE  /\ k \in Keys /\ c.map[k] \in Slots /\ EntryOf(c, k) \in Entry
         /\ EntryOf(c, k).bytes \in Nat /\ Weights(c)[k] = EntryOf(c, k).bytes
<1>1. k \in Keys /\ c.map[k] \in Slots
  BY DEF Mapped, Shape
<1>2. EntryOf(c, k) \in Entry
  BY <1>1 DEF Shape, EntryOf
<1> QED BY <1>1, <1>2 DEF Entry, Weights

-----------------------------------------------------------------------------
(* The books of a cache: lru_ lists the keys of map_, each once, and bytes_ *)
(* is what they weigh.                                                      *)
Whole(c) == Lists(c.lru, Mapped(c)) /\ c.bytes = SumBytes(c, Mapped(c))

LEMMA WholeIs ==
  ASSUME NEW c, Shape(c), Whole(c)
  PROVE  /\ IsFiniteSet(Mapped(c)) /\ Mapped(c) \subseteq Keys
         /\ c.bytes = Total(Weights(c), Mapped(c)) /\ c.bytes \in Nat
         /\ \A k \in Mapped(c) : Weights(c)[k] \in Nat
         /\ \A V \in SUBSET Mapped(c) : SumBytes(c, V) = Total(Weights(c), V) /\ Total(Weights(c), V) \in Nat
<1>1. IsFiniteSet(Mapped(c)) /\ Mapped(c) \subseteq Keys
  BY ListsIsBounded DEF Whole, Mapped
<1>2. \A k \in Mapped(c) : Weights(c)[k] \in Nat
  BY WeighIs
<1>3. ASSUME NEW V \in SUBSET Mapped(c)
      PROVE  SumBytes(c, V) = Total(Weights(c), V) /\ Total(Weights(c), V) \in Nat
  <2>1. IsFiniteSet(V) /\ V \subseteq Keys /\ \A k \in V : Weights(c)[k] \in Nat
    BY <1>1, <1>2, FS_Subset
  <2> QED BY <2>1, SumBytesIs, TotalType
<1>4. c.bytes = SumBytes(c, Mapped(c)) /\ Mapped(c) \in SUBSET Mapped(c)
  BY DEF Whole
<1> QED BY <1>1, <1>2, <1>3, <1>4

LEMMA WholeBySums ==
  ASSUME NEW c, Lists(c.lru, Mapped(c)), c.bytes = Total(Weights(c), Mapped(c))
  PROVE  Whole(c)
<1>1. IsFiniteSet(Mapped(c)) /\ Mapped(c) \subseteq Keys
  BY ListsIsBounded DEF Mapped
<1>2. SumBytes(c, Mapped(c)) = Total(Weights(c), Mapped(c))
  BY <1>1, SumBytesIs
<1> QED BY <1>2 DEF Whole

(* The sum of one set under two functions that agree on it.                 *)
LEMMA ErasedWhole ==
  ASSUME NEW c, Shape(c), Whole(c), NEW V, V \subseteq Mapped(c)
  PROVE  Whole(Erased(c, V)) /\ Mapped(Erased(c, V)) = Mapped(c) \ V
<1> DEFINE d == Erased(c, V)
<1>1. /\ Shape(d) /\ d.entry = c.entry
      /\ d.map = [k \in Keys |-> IF k \in V THEN NoSlot ELSE c.map[k]]
  BY ErasedKeeps
<1>2. d.lru = Without(c.lru, V) /\ d.bytes = c.bytes - Min({c.bytes, SumBytes(c, V)})
  BY DEF Erased, Shape
<1> HIDE DEF d
<1>3. Mapped(d) = Mapped(c) \ V
  BY <1>1 DEF Mapped
<1>4. Lists(d.lru, Mapped(d))
  BY <1>2, <1>3, ListsWithout DEF Whole
<1>5. PICK x \in Nat, y \in Nat : x = SumBytes(c, V) /\ x = Total(Weights(c), V) /\ y = Total(Weights(c), Mapped(c) \ V)
                                  /\ c.bytes = x + y
  <2>1. /\ IsFiniteSet(Mapped(c)) /\ c.bytes = Total(Weights(c), Mapped(c)) /\ \A k \in Mapped(c) : Weights(c)[k] \in Nat
        /\ \A W \in SUBSET Mapped(c) : SumBytes(c, W) = Total(Weights(c), W) /\ Total(Weights(c), W) \in Nat
    BY WholeIs
  <2>2. Total(Weights(c), Mapped(c)) = Total(Weights(c), V) + Total(Weights(c), Mapped(c) \ V)
    BY <2>1, TotalSplits
  <2>3. V \in SUBSET Mapped(c) /\ Mapped(c) \ V \in SUBSET Mapped(c)
    OBVIOUS
  <2> QED BY <2>1, <2>2, <2>3
<1>6. d.bytes = y
  <2>0. c.bytes \in Nat
    BY <1>5
  <2>1. Min({c.bytes, x}) \in {c.bytes, x} /\ Min({c.bytes, x}) <= c.bytes /\ Min({c.bytes, x}) <= x
    BY <2>0, MinIs
  <2>2. Min({c.bytes, x}) = x
    BY <1>5, <2>1
  <2> QED BY <1>2, <1>5, <2>2
<1>7. y = Total(Weights(d), Mapped(d))
  <2>1. IsFiniteSet(Mapped(c) \ V)
    BY WholeIs, FS_Subset
  <2>2. SameOn(Mapped(c) \ V, Weights(c), Weights(d))
    BY <1>1 DEF SameOn, Weights, EntryOf, Mapped
  <2> QED BY <1>3, <1>5, <2>1, <2>2, TotalSame
<1> QED BY <1>3, <1>4, <1>6, <1>7, WholeBySums DEF d

(* A step that leaves the books alone, and sets no mark back.               *)
Alike(d, c) ==
  /\ d.map = c.map /\ d.bytes = c.bytes
  /\ \A k \in Mapped(c) : EntryOf(d, k).bytes = EntryOf(c, k).bytes
  /\ \A k \in Mapped(c) : EntryOf(c, k).refreshing => EntryOf(d, k).refreshing

(* Over its limits, but for what is being fetched, and for some keys.       *)
Roomy(c, keep) == Fits(c) \/ \A k \in Mapped(c) \ keep : EntryOf(c, k).refreshing

LEMMA AlikeWhole ==
  ASSUME NEW c, Shape(c), Whole(c), NEW d, Alike(d, c), Lists(d.lru, Mapped(d))
  PROVE  Whole(d) /\ Mapped(d) = Mapped(c)
<1>1. Mapped(d) = Mapped(c)
  BY DEF Alike, Mapped
<1>2. IsFiniteSet(Mapped(c)) /\ c.bytes = Total(Weights(c), Mapped(c))
  BY WholeIs
<1>3. SameOn(Mapped(c), Weights(c), Weights(d))
  BY DEF SameOn, Weights, Alike, Mapped
<1>4. Total(Weights(c), Mapped(c)) = Total(Weights(d), Mapped(d))
  BY <1>1, <1>2, <1>3, TotalSame
<1>5. d.bytes = c.bytes
  BY DEF Alike
<1> QED BY <1>1, <1>2, <1>4, <1>5, WholeBySums

LEMMA AlikeRoomy ==
  ASSUME NEW c, NEW d, Alike(d, c), NEW keep, Roomy(c, keep)
  PROVE  Roomy(d, keep)
<1>1. Mapped(d) = Mapped(c)
  BY DEF Alike, Mapped
<1>2. Fits(c) => Fits(d)
  BY <1>1 DEF Alike, Fits
<1> QED BY <1>1, <1>2 DEF Roomy, Alike

LEMMA ListedIs ==
  ASSUME NEW c, Shape(c), NEW k
  PROVE  Listed(c, k) = [map |-> c.map, lru |-> <<k>> \o Without(c.lru, {k}), bytes |-> c.bytes, entry |-> c.entry]
<1> DEFINE l == <<k>> \o Without(c.lru, {k})
<1>1. Listed(c, k) = [c EXCEPT !.lru = l]
  BY DEF Listed
<1> HIDE DEF l
<1>2. Listed(c, k) = [map |-> c.map, lru |-> l, bytes |-> c.bytes, entry |-> c.entry]
  BY <1>1 DEF Shape
<1> QED BY <1>2 DEF l

LEMMA ListedWhole ==
  ASSUME NEW c, Shape(c), Whole(c), NEW k \in Mapped(c)
  PROVE  /\ Shape(Listed(c, k)) /\ Whole(Listed(c, k)) /\ Alike(Listed(c, k), c)
         /\ Listed(c, k).map = c.map /\ Listed(c, k).entry = c.entry
<1> DEFINE d == Listed(c, k)
           l == <<k>> \o Without(c.lru, {k})
<1>1. d = [map |-> c.map, lru |-> l, bytes |-> c.bytes, entry |-> c.entry]
  BY ListedIs
<1> HIDE DEF d
<1>2. Shape(d) /\ Alike(d, c)
  BY <1>1 DEF Shape, Alike, EntryOf
<1>3. k \in Keys /\ Mapped(c) \cup {k} = Mapped(c)
  BY DEF Mapped
<1>4. Lists(l, Mapped(c))
  BY <1>3, ListsFirst DEF Whole
<1> HIDE DEF l
<1>5. Lists(d.lru, Mapped(d)) /\ d.map = c.map /\ d.entry = c.entry
  BY <1>1, <1>4 DEF Mapped
<1>6. Whole(d)
  <2>1. Shape(c) /\ Whole(c) /\ Alike(d, c) /\ Lists(d.lru, Mapped(d))
    BY <1>2, <1>5
  <2> QED BY <2>1, AlikeWhole, Zenon
<1> QED BY <1>2, <1>5, <1>6 DEF d

(* A key more, in a slot of its own.                                        *)
LEMMA InsertedWhole ==
  ASSUME NEW c, Shape(c), Whole(c), NEW k \in Keys \ Mapped(c), NEW s \in Slots, \A j \in Keys : c.map[j] # s
  PROVE  Whole(Inserted(c, k, s)) /\ Mapped(Inserted(c, k, s)) = Mapped(c) \cup {k}
<1> DEFINE d == Inserted(c, k, s)
           M == Mapped(c)
           l == <<k>> \o Without(c.lru, {k})
<1>1. d = [map |-> [c.map EXCEPT ![k] = s], lru |-> l, bytes |-> c.bytes + KeyBytes,
           entry |-> [c.entry EXCEPT ![s] = NewEntry]]
  <2> DEFINE L == Listed(c, k)
  <2>1. L = [map |-> c.map, lru |-> l, bytes |-> c.bytes, entry |-> c.entry]
    BY ListedIs
  <2>2. d = [L EXCEPT !.map[k] = s, !.entry[s] = NewEntry, !.bytes = @ + KeyBytes]
    BY DEF Inserted
  <2> HIDE DEF l, L, d
  <2> QED BY <2>1, <2>2
<1> HIDE DEF d
<1>2. s # NoSlot /\ c.map \in [Keys -> Slots \cup {NoSlot}] /\ c.entry \in [Slots -> Entry]
  BY DEF Shape, Slots, NoSlot
<1>3. d.map = [c.map EXCEPT ![k] = s] /\ d.entry = [c.entry EXCEPT ![s] = NewEntry]
  BY <1>1
<1>4. Mapped(d) = M \cup {k}
  BY <1>2, <1>3 DEF Mapped
<1>5. Lists(l, M \cup {k})
  BY ListsFirst DEF Whole
<1> HIDE DEF l
<1>6. EntryOf(d, k) = NewEntry
  BY <1>2, <1>3 DEF EntryOf
<1>7. \A j \in M : j # k /\ EntryOf(d, j) = EntryOf(c, j)
  BY <1>2, <1>3 DEF EntryOf, Mapped
<1> DEFINE W == M \cup {k}
<1>8. PICK n \in Nat : /\ n = c.bytes /\ n = Total(Weights(c), M) /\ IsFiniteSet(M) /\ M \subseteq Keys
                      /\ \A j \in M : Weights(c)[j] \in Nat
  BY WholeIs
<1>9. Weights(d)[k] = KeyBytes /\ \A j \in M : Weights(d)[j] = Weights(c)[j]
  BY <1>6, <1>7, <1>8 DEF Weights, NewEntry
<1>10. IsFiniteSet(W) /\ \A j \in W : Weights(d)[j] \in Nat
  BY <1>8, <1>9, FS_AddElement DEF KeyBytes
<1>11. Total(Weights(d), W) = KeyBytes + Total(Weights(d), M)
  <2>1. k \in W /\ W \ {k} = M
    OBVIOUS
  <2> HIDE DEF W, M
  <2> QED BY <1>9, <1>10, <2>1, TotalIsNat
<1>12. Total(Weights(d), M) = n
  <2>1. SameOn(M, Weights(d), Weights(c))
    BY <1>9 DEF SameOn
  <2> QED BY <1>8, <2>1, TotalSame
<1>13. d.bytes = Total(Weights(d), W)
  BY <1>1, <1>8, <1>11, <1>12 DEF KeyBytes
<1>14. Lists(d.lru, W) /\ Mapped(d) = W
  BY <1>1, <1>4, <1>5
<1> QED BY <1>13, <1>14, WholeBySums DEF d

LEMMA EnforcedWhole ==
  ASSUME NEW c, Shape(c), Whole(c), NEW keep, NEW d \in Enforced(c, keep)
  PROVE  Whole(d) /\ Roomy(d, keep)
<1>1. PICK V \in Victims(c, keep) : d = Erased(c, V)
  BY DEF Enforced
<1>2. V \subseteq Mapped(c) /\ V \subseteq Evictable(c, keep) /\ (Fits(Erased(c, V)) \/ V = Evictable(c, keep))
  BY DEF Victims, Evictable
<1>3. Whole(d) /\ Mapped(d) = Mapped(c) \ V
  BY <1>1, <1>2, ErasedWhole
<1>4. d.entry = c.entry /\ d.map = [k \in Keys |-> IF k \in V THEN NoSlot ELSE c.map[k]]
  BY <1>1, ErasedKeeps
<1>5. \A k \in Mapped(d) : EntryOf(d, k) = EntryOf(c, k)
  BY <1>3, <1>4 DEF EntryOf, Mapped
<1>6. CASE V = Evictable(c, keep)
  BY <1>3, <1>5, <1>6 DEF Roomy, Evictable
<1>7. CASE Fits(Erased(c, V))
  BY <1>1, <1>3, <1>7 DEF Roomy
<1>8. Roomy(d, keep)
  BY <1>2, <1>6, <1>7
<1> QED BY <1>3, <1>8

(* A value is stored, in the slot of one key at most.                       *)
LEMMA StoredWhole ==
  ASSUME NEW c, Shape(c), Whole(c), Roomy(c, {}), NEW k \in Keys, NEW s \in Slots, \A j \in Keys : c.map[j] = s => j = k,
         NEW e \in Entry, NEW d \in Stored(c, k, s, e)
  PROVE  Whole(d) /\ Roomy(d, {})
<1>1. Shape(Put(c, s, e)) /\ Put(c, s, e).map = c.map /\ Put(c, s, e).entry = [c.entry EXCEPT ![s] = e]
      /\ Put(c, s, e).lru = c.lru /\ Put(c, s, e).bytes = c.bytes
  BY PutKeeps DEF Put, Shape
<1>0. c.map \in [Keys -> Slots \cup {NoSlot}] /\ c.entry \in [Slots -> Entry] /\ s # NoSlot
  BY DEF Shape, Slots, NoSlot
<1>2. CASE c.map[k] # s
  <2>1. d = Put(c, s, e)
    BY <1>2 DEF Stored
  <2>2. \A j \in Mapped(c) : c.map[j] \in Slots /\ c.map[j] # s
    BY <1>0, <1>2 DEF Mapped
  <2>3. \A j \in Mapped(c) : EntryOf(d, j) = EntryOf(c, j)
    BY <1>0, <1>1, <2>1, <2>2 DEF EntryOf
  <2>4. Alike(d, c)
    BY <1>1, <2>1, <2>3 DEF Alike
  <2>5. Lists(d.lru, Mapped(d))
    BY <1>1, <2>1 DEF Whole, Mapped
  <2>6. Shape(c) /\ Whole(c) /\ Alike(d, c) /\ Lists(d.lru, Mapped(d)) /\ Roomy(c, {})
    BY <2>4, <2>5
  <2>7. Whole(d)
    BY <2>6, AlikeWhole, Zenon
  <2>8. Roomy(d, {})
    BY <2>6, AlikeRoomy, Zenon
  <2> QED BY <2>7, <2>8
<1>3. CASE c.map[k] = s
  <2> DEFINE f == [Put(c, s, e) EXCEPT !.bytes = @ - Min({@, c.entry[s].bytes}) + e.bytes]
             M == Mapped(c)
  <2>1. f = [map |-> c.map, lru |-> c.lru, bytes |-> c.bytes - Min({c.bytes, c.entry[s].bytes}) + e.bytes,
             entry |-> [c.entry EXCEPT ![s] = e]]
    BY <1>1 DEF Shape
  <2>2. d \in Enforced(f, {})
    BY <1>3 DEF Stored
  <2> HIDE DEF f
  <2>3. Shape(f) /\ Mapped(f) = M
    BY <1>0, <2>1 DEF Shape, Mapped
  <2>4. k \in M /\ EntryOf(c, k) = c.entry[s] /\ EntryOf(f, k) = e /\ \A j \in M \ {k} : EntryOf(f, j) = EntryOf(c, j)
    BY <1>0, <1>3, <2>1 DEF Mapped, EntryOf
  <2>5. /\ IsFiniteSet(M) /\ M \subseteq Keys /\ c.bytes = Total(Weights(c), M)
        /\ \A j \in M : Weights(c)[j] \in Nat
    BY WholeIs
  <2>6. Weights(c)[k] = c.entry[s].bytes /\ Weights(f)[k] = e.bytes /\ \A j \in M \ {k} : Weights(f)[j] = Weights(c)[j]
    BY <2>4, <2>5 DEF Weights
  <2>7. e.bytes \in Nat
    BY DEF Entry
  <2>8. \A j \in M : Weights(f)[j] \in Nat
    BY <2>5, <2>6, <2>7
  <2>9. PICK x \in Nat, r \in Nat : x = c.entry[s].bytes /\ r = Total(Weights(c), M \ {k}) /\ c.bytes = x + r
    <3>1. Total(Weights(c), M) = Weights(c)[k] + Total(Weights(c), M \ {k})
      BY <2>4, <2>5, TotalIsNat
    <3>2. IsFiniteSet(M \ {k}) /\ \A j \in M \ {k} : Weights(c)[j] \in Nat
      BY <2>5, FS_Subset
    <3>3. Total(Weights(c), M \ {k}) \in Nat
      BY <3>2, TotalType
    <3> QED BY <2>4, <2>5, <2>6, <3>1, <3>3
  <2>10. f.bytes = e.bytes + r
    <3>0. c.bytes \in Nat
      BY <2>9
    <3>1. Min({c.bytes, x}) \in {c.bytes, x} /\ Min({c.bytes, x}) <= c.bytes /\ Min({c.bytes, x}) <= x
      BY <3>0, MinIs
    <3>2. Min({c.bytes, x}) = x
      BY <2>9, <3>1
    <3>3. f.bytes = c.bytes - Min({c.bytes, x}) + e.bytes
      BY <2>1, <2>9
    <3> QED BY <2>7, <2>9, <3>2, <3>3
  <2>11. Total(Weights(f), M) = e.bytes + r
    <3>1. Total(Weights(f), M) = Weights(f)[k] + Total(Weights(f), M \ {k})
      BY <2>4, <2>5, <2>8, TotalIsNat
    <3>2. IsFiniteSet(M \ {k}) /\ SameOn(M \ {k}, Weights(f), Weights(c))
      BY <2>5, <2>6, FS_Subset DEF SameOn
    <3>3. Total(Weights(f), M \ {k}) = r
      BY <2>9, <3>2, TotalSame
    <3> QED BY <2>6, <3>1, <3>3
  <2>12. Lists(f.lru, Mapped(f))
    BY <2>1, <2>3 DEF Whole
  <2>13. Whole(f)
    BY <2>3, <2>10, <2>11, <2>12, WholeBySums
  <2> QED BY <2>2, <2>3, <2>13, EnforcedWhole
<1> QED BY <1>2, <1>3

-----------------------------------------------------------------------------
(* A change of an entry that leaves what it weighs, and its mark.           *)
Tame(x, e) == x \in Entry /\ x.bytes = e.bytes /\ (e.refreshing => x.refreshing)

LEMMA TameSteps ==
  ASSUME NEW e \in Entry
  PROVE  /\ Tame(Begun(e), e) /\ Tame([Begun(e) EXCEPT !.queued = TRUE], e)
         /\ Tame(TakenOver(e), e) /\ Tame(Invalidated(e), e) /\ Tame([e EXCEPT !.queued = FALSE], e)
         /\ Begun(e).refreshing /\ [Begun(e) EXCEPT !.queued = TRUE].refreshing
<1>1. /\ Begun(e) \in Entry /\ Begun(e).refreshing
      /\ [Begun(e) EXCEPT !.queued = TRUE] \in Entry /\ [Begun(e) EXCEPT !.queued = TRUE].refreshing
      /\ TakenOver(e) \in Entry /\ TakenOver(e).refreshing = e.refreshing
      /\ Invalidated(e) \in Entry /\ Invalidated(e).refreshing = e.refreshing
      /\ [e EXCEPT !.queued = FALSE] \in Entry /\ [e EXCEPT !.queued = FALSE].refreshing = e.refreshing
  BY EntrySteps
<1>2. Begun(e).bytes = e.bytes /\ [Begun(e) EXCEPT !.queued = TRUE].bytes = e.bytes
  BY DEF Begun, Entry
<1>3. TakenOver(e).bytes = e.bytes
  BY DEF TakenOver, Entry
<1>4. Invalidated(e).bytes = e.bytes
  BY DEF Invalidated, Entry
<1>5. [e EXCEPT !.queued = FALSE].bytes = e.bytes
  BY DEF Entry
<1>6. Tame(Begun(e), e) /\ Tame([Begun(e) EXCEPT !.queued = TRUE], e)
  BY <1>1, <1>2 DEF Tame
<1>7. Tame(TakenOver(e), e)
  BY <1>1, <1>3 DEF Tame
<1>8. Tame(Invalidated(e), e)
  BY <1>1, <1>4 DEF Tame
<1>9. Tame([e EXCEPT !.queued = FALSE], e)
  BY <1>1, <1>5 DEF Tame
<1> QED BY <1>1, <1>6, <1>7, <1>8, <1>9

LEMMA TameWhole ==
  ASSUME NEW c, Shape(c), Whole(c), NEW d, Shape(d), d.map = c.map, d.lru = c.lru, d.bytes = c.bytes,
         \A s \in Slots : Tame(d.entry[s], c.entry[s])
  PROVE  Alike(d, c) /\ Whole(d)
<1>1. \A k \in Mapped(c) : c.map[k] \in Slots /\ EntryOf(c, k) = c.entry[c.map[k]] /\ EntryOf(d, k) = d.entry[c.map[k]]
  BY DEF Mapped, Shape, EntryOf
<1>2. Alike(d, c)
  BY <1>1 DEF Alike, Tame
<1>3. Lists(d.lru, Mapped(d))
  BY DEF Whole, Mapped
<1> QED BY <1>2, <1>3, AlikeWhole

LEMMA PutWhole ==
  ASSUME NEW c, Shape(c), Whole(c), NEW s \in Slots, NEW x, Tame(x, c.entry[s])
  PROVE  /\ Alike(Put(c, s, x), c) /\ Whole(Put(c, s, x)) /\ Shape(Put(c, s, x))
         /\ Put(c, s, x).map = c.map /\ Put(c, s, x).entry = [c.entry EXCEPT ![s] = x]
<1> DEFINE d == Put(c, s, x)
<1>0. x \in Entry
  BY DEF Tame
<1>1. Shape(d) /\ d.map = c.map /\ d.entry = [c.entry EXCEPT ![s] = x]
  BY <1>0, PutKeeps
<1>2. d.lru = c.lru /\ d.bytes = c.bytes
  BY DEF Put, Shape
<1> HIDE DEF d
<1>3. ASSUME NEW t \in Slots PROVE Tame(d.entry[t], c.entry[t])
  <2>1. c.entry \in [Slots -> Entry]
    BY DEF Shape
  <2>2. CASE t = s
    BY <1>1, <2>1, <2>2
  <2>3. CASE t # s
    <3>1. d.entry[t] = c.entry[t] /\ c.entry[t] \in Entry
      BY <1>1, <2>1, <2>3
    <3> QED BY <3>1 DEF Tame
  <2> QED BY <2>2, <2>3
<1>4. Alike(d, c) /\ Whole(d)
  BY <1>1, <1>2, <1>3, TameWhole
<1> QED BY <1>1, <1>4 DEF d

-----------------------------------------------------------------------------
(* The books are right, and the cache is over its limits only while each    *)
(* entry of it is being fetched.  Making: in between, for the key k that a  *)
(* lookup has put in and for which it is about to begin the fetch.          *)
Sound(c) == Whole(c) /\ Roomy(c, {})
Blank(e) == e.gen = 0 /\ e.done = 0 /\ ~e.refreshing
Making(c, k) == Whole(c) /\ Roomy(c, {k}) /\ Blank(EntryOf(c, k))
Begins(c, k) == Sound(c) \/ Making(c, k)

LEMMA SweptSound ==
  ASSUME Shape(cache), Sound(cache), NEW c \in {cache, Swept(cache)}
  PROVE  Shape(c) /\ Whole(c) /\ Forgets(c, cache)
<1>1. CASE c = cache
  BY <1>1 DEF Sound, Forgets
<1>2. CASE c = Swept(cache)
  <2> DEFINE V == {j \in Mapped(cache) : LET e == EntryOf(cache, j) IN
                    ~e.refreshing /\ IF e.gen > 0 THEN e.age = Expired ELSE e.done > 0 /\ ~e.backoff}
  <2>1. c = Erased(cache, V) /\ V \subseteq Mapped(cache)
    BY <1>2 DEF Swept
  <2> HIDE DEF V
  <2>2. Shape(Erased(cache, V)) /\ Forgets(Erased(cache, V), cache)
    BY ErasedKeeps
  <2>3. Whole(Erased(cache, V))
    BY <2>1, ErasedWhole DEF Sound
  <2> QED BY <2>1, <2>2, <2>3
<1> QED BY <1>1, <1>2

LEMMA FoundBegins ==
  ASSUME Shape(cache), Sound(cache), NEW k \in Keys, NEW d \in Found(k)
  PROVE  Begins(d, k)
<1>1. CASE k \in Mapped(cache)
  <2>1. d = Listed(cache, k)
    BY <1>1 DEF Found
  <2>2. Whole(d) /\ Alike(d, cache)
    BY <1>1, <2>1, ListedWhole DEF Sound
  <2>3. Roomy(d, {})
    BY <2>2, AlikeRoomy DEF Sound
  <2> QED BY <2>2, <2>3 DEF Begins, Sound
<1>2. CASE k \notin Mapped(cache)
  <2> DEFINE s == CHOOSE x \in FreeSlots : TRUE
  <2>1. FreeSlots # {} /\ \E c \in {cache, Swept(cache)} : d \in Enforced(Inserted(c, k, s), {k})
    BY <1>2 DEF Found
  <2>2. s \in FreeSlots /\ s \in Slots
    BY <2>1 DEF FreeSlots
  <2> HIDE DEF s
  <2>3. PICK c \in {cache, Swept(cache)} : d \in Enforced(Inserted(c, k, s), {k})
    BY <2>1
  <2>4. Shape(c) /\ Whole(c) /\ Forgets(c, cache)
    BY SweptSound
  <2>5. \A j \in Keys : c.map[j] # s
    BY <2>2, <2>4 DEF FreeSlots, Held, Forgets, NoSlot, Slots
  <2>6. k \in Keys \ Mapped(c)
    BY <1>2, <2>4 DEF Mapped, Forgets
  <2> DEFINE I == Inserted(c, k, s)
             K == {k}
  <2>7. Shape(I) /\ I.map = [c.map EXCEPT ![k] = s] /\ I.entry = [c.entry EXCEPT ![s] = NewEntry]
    BY <2>2, <2>4, InsertedKeeps
  <2>8. Whole(I)
    BY <2>2, <2>4, <2>5, <2>6, InsertedWhole
  <2>9. I.map[k] = s /\ I.entry[s] = NewEntry
    BY <2>2, <2>4, <2>7 DEF Shape
  <2>10. d \in Enforced(I, K) /\ k \in Keys \cap K
    BY <2>3
  <2> HIDE DEF I, K
  <2>11. Whole(d) /\ Roomy(d, K)
    BY <2>7, <2>8, <2>10, EnforcedWhole
  <2>12. d.entry = I.entry /\ d.map[k] = I.map[k]
    <3>1. Shape(I) /\ d \in Enforced(I, K) /\ k \in Keys \cap K
      BY <2>7, <2>10
    <3>2. Shape(d) /\ d.entry = I.entry /\ Forgets(d, I) /\ d.map[k] = I.map[k]
      BY <3>1, EnforcedKeeps
    <3> QED BY <3>2
  <2>13. Blank(EntryOf(d, k))
    BY <2>9, <2>12 DEF Blank, EntryOf, NewEntry
  <2> QED BY <2>11, <2>13 DEF Begins, Making, K
<1> QED BY <1>1, <1>2

LEMMA AlikeSound ==
  ASSUME NEW c, NEW d, Sound(c), Alike(d, c), Whole(d)
  PROVE  Sound(d)
BY AlikeRoomy DEF Sound

(* The fetch begins: the entry of the key has its mark.                     *)
LEMMA BegunSound ==
  ASSUME NEW c, NEW d, NEW k, Begins(c, k), Alike(d, c), Whole(d), EntryOf(d, k).refreshing
  PROVE  Sound(d)
<1>1. CASE Sound(c)
  BY <1>1, AlikeSound
<1>2. CASE Making(c, k)
  <2>1. Roomy(d, {k})
    BY <1>2, AlikeRoomy DEF Making
  <2>2. Roomy(d, {})
    BY <2>1 DEF Roomy
  <2> QED BY <2>2 DEF Sound
<1> QED BY <1>1, <1>2 DEF Begins

LEMMA ForcedBegins ==
  ASSUME NEW c, Shape(c), NEW k \in Keys, c.map[k] \in Slots, Begins(c, k)
  PROVE  Begins(Forced(c, k), k) /\ Shape(Forced(c, k)) /\ Forced(c, k).map = c.map
<1> DEFINE d == Forced(c, k)
           e == EntryOf(c, k)
           x == Invalidated(e)
<1>1. e \in Entry /\ e = c.entry[c.map[k]] /\ Whole(c)
  BY DEF Shape, EntryOf, Begins, Sound, Making
<1>2. Tame(x, e) /\ x.gen = e.gen /\ x.done = e.done /\ (~e.refreshing => ~x.refreshing)
  BY <1>1, TameSteps DEF Invalidated, Entry
<1>3. d = Put(c, c.map[k], x)
  BY DEF Forced
<1> HIDE DEF x
<1>4. Alike(d, c) /\ Whole(d) /\ Shape(d) /\ d.map = c.map /\ d.entry = [c.entry EXCEPT ![c.map[k]] = x]
  BY <1>1, <1>2, <1>3, PutWhole
<1> HIDE DEF d
<1>5. EntryOf(d, k) = x
  BY <1>4 DEF EntryOf, Shape
<1>6. ASSUME Sound(c) PROVE Begins(d, k)
  BY <1>4, <1>6, AlikeSound DEF Begins
<1>7. ASSUME Making(c, k) PROVE Begins(d, k)
  <2>1. Roomy(d, {k})
    BY <1>4, <1>7, AlikeRoomy DEF Making
  <2>2. Blank(e)
    BY <1>7 DEF Making
  <2>3. Blank(x)
    BY <1>2, <2>2 DEF Blank
  <2> QED BY <1>4, <1>5, <2>1, <2>3 DEF Begins, Making
<1>8. Begins(d, k)
  BY <1>6, <1>7 DEF Begins
<1> QED BY <1>4, <1>8 DEF d

-----------------------------------------------------------------------------
(* The steps: the books stay right.                                         *)
LEMMA TameSound ==
  ASSUME NEW c, Shape(c), Sound(c), NEW s \in Slots, NEW x, Tame(x, c.entry[s])
  PROVE  Sound(Put(c, s, x))
<1> DEFINE d == Put(c, s, x)
<1>1. Whole(c)
  BY DEF Sound
<1>2. Alike(d, c) /\ Whole(d)
  BY <1>1, PutWhole
<1> HIDE DEF d
<1>3. Sound(d)
  BY <1>2, AlikeSound
<1> QED BY <1>3 DEF d

(* The mark is set for the key that a lookup has put in.                    *)
LEMMA MarkedSound ==
  ASSUME NEW c, Shape(c), NEW k \in Keys, c.map[k] \in Slots, Begins(c, k),
         NEW x, Tame(x, c.entry[c.map[k]]), x.refreshing
  PROVE  Sound(Put(c, c.map[k], x))
<1> DEFINE d == Put(c, c.map[k], x)
<1>1. Whole(c)
  BY DEF Begins, Sound, Making
<1>2. Alike(d, c) /\ Whole(d) /\ d.map = c.map /\ d.entry = [c.entry EXCEPT ![c.map[k]] = x]
  BY <1>1, PutWhole
<1> HIDE DEF d
<1>3. EntryOf(d, k) = x
  BY <1>2 DEF EntryOf, Shape
<1>4. Sound(d)
  BY <1>2, <1>3, BegunSound
<1> QED BY <1>4 DEF d

LEMMA RoundSound ==
  ASSUME NEW r, NEW c, NEW q, Shape(c), Sound(c), q.slot \in Slots, Round(r, c, q)
  PROVE  Sound(cache')
<1> DEFINE e == c.entry[q.slot]
<1>1. e \in Entry
  BY DEF Shape
<1>2. cache' = c \/ cache' = Put(c, q.slot, TakenOver(e)) \/ cache' = Put(c, q.slot, Begun(e))
  BY DEF Round
<1>3. Tame(TakenOver(e), e) /\ Tame(Begun(e), e)
  BY <1>1, TameSteps
<1> QED BY <1>2, <1>3, TameSound

LEMMA ServeSound ==
  ASSUME NEW r, NEW k \in Keys, NEW c, Shape(c), c.map[k] \in Slots, Begins(c, k), NEW revalidate, Serve(r, k, c, revalidate)
  PROVE  Sound(cache')
<1> PICK s \in Slots : s = c.map[k]
  OBVIOUS
<1> DEFINE e == c.entry[s]
           q == [key |-> k, slot |-> s, target |-> Max({e.minValid, e.done + 1}), asked |-> e.minValid > e.done,
                 since |-> epoch'[k], gen |-> 0, at |-> 0]
<1>1. e \in Entry /\ e = EntryOf(c, k)
  BY DEF Shape, EntryOf
<1>2. Tame(Begun(e), e) /\ Tame([Begun(e) EXCEPT !.queued = TRUE], e) /\ Tame(TakenOver(e), e)
      /\ Begun(e).refreshing /\ [Begun(e) EXCEPT !.queued = TRUE].refreshing
  BY <1>1, TameSteps
<1>3. ASSUME e.gen > 0 \/ e.done > 0 \/ e.refreshing PROVE Sound(c)
  <2>1. ~Blank(e)
    BY <1>1, <1>3 DEF Blank, Entry
  <2> QED BY <1>1, <2>1 DEF Begins, Making
<1>4. CASE Servable(e, Fresh) /\ cache' = c
  BY <1>3, <1>4 DEF Servable
<1>5. CASE Servable(e, Stale) /\ StartsRefresh(c, k, s)
  <2>1. Sound(c)
    BY <1>3, <1>5 DEF Servable
  <2>2. cache' = c \/ cache' = Put(c, s, [Begun(e) EXCEPT !.queued = TRUE])
    BY <1>5 DEF StartsRefresh
  <2> HIDE DEF e
  <2> QED BY <1>2, <2>1, <2>2, TameSound DEF e
<1>6. CASE Round(r, c, q)
  <2>1. q.slot = s /\ q.target >= e.done + 1
    BY <1>1, MaxIs DEF Entry
  <2>2. /\ q.target \in Nat /\ e.done \in Nat
    <3>1. e.minValid \in Nat /\ e.done + 1 \in Nat /\ e.done \in Nat
      BY <1>1 DEF Entry
    <3>2. Max({e.minValid, e.done + 1}) \in {e.minValid, e.done + 1}
      BY <3>1, MaxIs
    <3> QED BY <3>1, <3>2
  <2>3. ~(e.done >= q.target)
    BY <2>1, <2>2
  <2> HIDE DEF q
  <2>4. \/ e.refreshing /\ cache' = Put(c, s, TakenOver(e))
        \/ e.refreshing /\ cache' = c
        \/ RecentFailure(e, q) /\ cache' = c
        \/ cache' = Put(c, s, Begun(e))
    BY <1>6, <2>1, <2>3 DEF Round
  <2>5. CASE e.refreshing /\ cache' = Put(c, s, TakenOver(e))
    BY <1>2, <1>3, <2>5, TameSound
  <2>6. CASE e.refreshing /\ cache' = c
    BY <1>3, <2>6
  <2>7. CASE RecentFailure(e, q) /\ cache' = c
    BY <1>3, <2>7 DEF RecentFailure
  <2>8. CASE cache' = Put(c, s, Begun(e))
    <3>1. Tame(Begun(e), c.entry[c.map[k]]) /\ Begun(e).refreshing
      BY <1>2
    <3> QED BY <2>8, <3>1, MarkedSound
  <2> QED BY <2>4, <2>5, <2>6, <2>7, <2>8
<1>7. (Servable(e, Fresh) /\ cache' = c) \/ (Servable(e, Stale) /\ StartsRefresh(c, k, s)) \/ Round(r, c, q)
  BY DEF Serve
<1> QED BY <1>4, <1>5, <1>6, <1>7

LEMMA LookupSound ==
  ASSUME Types, FetchInv, Sound(cache), NEW r \in Readers, Lookup(r)
  PROVE  Sound(cache')
<1>1. PICK k \in Keys, force \in BOOLEAN, revalidate \in BOOLEAN :
        \E c \in Found(k) : Serve(r, k, IF force THEN Forced(c, k) ELSE c, revalidate)
  BY DEF Lookup
<1>2. PICK d \in Found(k) : Serve(r, k, IF force THEN Forced(d, k) ELSE d, revalidate)
  BY <1>1
<1>3. Shape(cache)
  BY DEF Types
<1>4. Shape(d) /\ (Kept(d, k) \/ Added(d, k))
  BY <1>3, FoundIs
<1>5. d.map[k] \in Slots
  BY <1>4 DEF Kept, Added, FreeSlots
<1>6. Begins(d, k)
  BY <1>3, FoundBegins
<1>7. Begins(Forced(d, k), k) /\ Shape(Forced(d, k)) /\ Forced(d, k).map = d.map
  BY <1>4, <1>5, <1>6, ForcedBegins
<1>8. CASE force
  <2> DEFINE f == Forced(d, k)
  <2>1. Serve(r, k, f, revalidate) /\ Begins(f, k) /\ Shape(f) /\ f.map[k] \in Slots
    BY <1>2, <1>5, <1>7, <1>8
  <2> HIDE DEF f
  <2> QED BY <2>1, ServeSound
<1>9. CASE ~force
  <2>1. Serve(r, k, d, revalidate)
    BY <1>2, <1>9
  <2> QED BY <1>4, <1>5, <1>6, <2>1, ServeSound
<1> QED BY <1>8, <1>9

LEMMA WakeSound ==
  ASSUME Types, Sound(cache), NEW r \in Readers, Wake(r)
  PROVE  Sound(cache')
<1>1. Shape(cache) /\ req[r].slot \in Slots /\ Round(r, cache, req[r])
  BY DEF Wake, Types, Request
<1> QED BY <1>1, RoundSound

(* A fetch ends, for the one key that its slot is used for.                 *)
LEMMA FetchEndsSound ==
  ASSUME Types, CurrentInv, Sound(cache), NEW r \in Readers, FetchEnds(r)
  PROVE  Sound(cache')
<1>1. PICK q \in Request : q = req[r] /\ pc[r] = "fetch"
  BY DEF FetchEnds, Types
<1>2. PICK s \in Slots, k \in Keys : s = q.slot /\ k = q.key
  BY DEF Request
<1>3. PICK e \in Outcomes(cache.entry[s], q.gen, q.at) : cache' \in Stored(cache, k, s, e)
  BY <1>1, <1>2 DEF FetchEnds
<1>4. Shape(cache) /\ cache.entry[s] \in Entry /\ q.gen \in Nat /\ q.at \in Nat
  BY DEF Types, Shape, Request
<1>5. e \in Entry
  BY <1>4, OutcomeKeeps
<1>6. ASSUME NEW j \in Keys, cache.map[j] = s PROVE j = k
  <2>1. Uses(s, j) /\ Uses(s, k)
    BY <1>1, <1>2, <1>6 DEF Uses, Asks
  <2>2. OneKey(s)
    BY DEF CurrentInv, Current
  <2> QED BY <2>1, <2>2 DEF OneKey
<1>7. Whole(cache) /\ Roomy(cache, {})
  BY DEF Sound
<1>8. Whole(cache') /\ Roomy(cache', {})
  BY <1>3, <1>4, <1>5, <1>6, <1>7, StoredWhole
<1> QED BY <1>8 DEF Sound

LEMMA TaskEndsSound ==
  ASSUME Types, CurrentInv, Sound(cache), NEW w \in Workers, TaskEnds(w)
  PROVE  Sound(cache')
<1>1. PICK q \in Job : q = worker[w] /\ worker[w] # <<>>
  BY DEF TaskEnds, Types
<1>2. PICK s \in Slots, k \in Keys : s = q.slot /\ k = q.key
  BY DEF Job
<1>3. PICK e \in Outcomes(cache.entry[s], q.gen, q.at) : cache' \in Stored(cache, k, s, e)
  BY <1>1, <1>2 DEF TaskEnds
<1>4. Shape(cache) /\ cache.entry[s] \in Entry /\ q.gen \in Nat /\ q.at \in Nat
  BY DEF Types, Shape, Job
<1>5. e \in Entry
  BY <1>4, OutcomeKeeps
<1>6. ASSUME NEW j \in Keys, cache.map[j] = s PROVE j = k
  <2>1. Uses(s, j) /\ Uses(s, k)
    BY <1>1, <1>2, <1>6 DEF Uses
  <2>2. OneKey(s)
    BY DEF CurrentInv, Current
  <2> QED BY <2>1, <2>2 DEF OneKey
<1>7. Whole(cache) /\ Roomy(cache, {})
  BY DEF Sound
<1>8. Whole(cache') /\ Roomy(cache', {})
  BY <1>3, <1>4, <1>5, <1>6, <1>7, StoredWhole
<1> QED BY <1>8 DEF Sound

LEMMA InvalidateSound ==
  ASSUME Types, Types', Sound(cache), Invalidate
  PROVE  Sound(cache')
<1>1. PICK K \in (SUBSET Keys) \ {{}} :
        cache' = [cache EXCEPT !.entry = [s \in Slots |->
                   IF \E k \in K : cache.map[k] = s THEN Invalidated(cache.entry[s]) ELSE cache.entry[s]]]
  BY DEF Invalidate
<1> DEFINE E == [s \in Slots |-> IF \E k \in K : cache.map[k] = s THEN Invalidated(cache.entry[s]) ELSE cache.entry[s]]
<1>2. ASSUME NEW s \in Slots PROVE Tame(E[s], cache.entry[s])
  <2>1. cache.entry[s] \in Entry
    BY DEF Types, Shape
  <2>2. Tame(Invalidated(cache.entry[s]), cache.entry[s]) /\ Tame(cache.entry[s], cache.entry[s])
    BY <2>1, TameSteps DEF Tame
  <2> QED BY <2>2
<1>3. cache' = [cache EXCEPT !.entry = E]
  BY <1>1
<1> HIDE DEF E
<1>4. cache' = [map |-> cache.map, lru |-> cache.lru, bytes |-> cache.bytes, entry |-> E]
  BY <1>3 DEF Types, Shape
<1>5. cache'.map = cache.map /\ cache'.lru = cache.lru /\ cache'.bytes = cache.bytes /\ cache'.entry = E
  BY <1>4
<1>6. Shape(cache') /\ Shape(cache) /\ Whole(cache)
  BY DEF Types, Sound
<1>7. \A s \in Slots : Tame(cache'.entry[s], cache.entry[s])
  BY <1>2, <1>5
<1>8. Alike(cache', cache) /\ Whole(cache')
  BY <1>5, <1>6, <1>7, TameWhole
<1> QED BY <1>8, AlikeSound

LEMMA RunSound ==
  ASSUME Types, Sound(cache), NEW w \in Workers, Run(w)
  PROVE  Sound(cache')
<1>1. PICK j \in Job : worker[w] = j
  BY DEF Run, Types
<1>2. PICK s \in Slots : s = j.slot
  BY DEF Job
<1> DEFINE x == [cache.entry[s] EXCEPT !.queued = FALSE]
<1>3. cache' = cache \/ cache' = Put(cache, s, x)
  BY <1>1, <1>2 DEF Run
<1>4. Shape(cache) /\ cache.entry[s] \in Entry
  BY DEF Types, Shape
<1>5. Tame(x, cache.entry[s])
  BY <1>4, TameSteps
<1> HIDE DEF x
<1> QED BY <1>3, <1>4, <1>5, TameSound

LEMMA TimeSound ==
  ASSUME Types, Sound(cache), NEW s \in Slots, Ages(s) \/ BackoffEnds(s)
  PROVE  Sound(cache')
<1>1. Shape(cache) /\ cache.entry[s] \in Entry
  BY DEF Types, Shape
<1>2. PICK x : cache' = [cache EXCEPT !.entry[s] = x] /\ Tame(x, cache.entry[s])
  <2>1. CASE Ages(s)
    <3> DEFINE e == [cache.entry[s] EXCEPT !.age = @ + 1]
    <3>1. cache' = [cache EXCEPT !.entry[s] = e]
      BY <2>1 DEF Ages
    <3>2. cache.entry[s].age + 1 \in Fresh..Expired
      BY <1>1, <2>1 DEF Ages, Entry, Fresh, Expired
    <3>3. Tame(e, cache.entry[s])
      BY <1>1, <3>2 DEF Entry, Tame
    <3> QED BY <3>1, <3>3
  <2>2. CASE BackoffEnds(s)
    <3> DEFINE e == [cache.entry[s] EXCEPT !.backoff = FALSE]
    <3>1. cache' = [cache EXCEPT !.entry[s] = e]
      BY <2>2 DEF BackoffEnds
    <3>2. Tame(e, cache.entry[s])
      BY <1>1 DEF Entry, Tame
    <3> QED BY <3>1, <3>2
  <2> QED BY <2>1, <2>2
<1>3. cache' = Put(cache, s, x)
  BY <1>2 DEF Put
<1> QED BY <1>1, <1>2, <1>3, TameSound

LEMMA InitSound ==
  ASSUME Init
  PROVE  Sound(cache)
<1>1. Mapped(cache) = {} /\ cache.lru = <<>> /\ cache.bytes = 0
  BY DEF Init, Mapped
<1>2. <<>> \in Seq(Keys) /\ Len(<<>>) = 0
  BY EmptySeq
<1>3. 1..0 = {}
  OBVIOUS
<1>4. Lists(cache.lru, Mapped(cache))
  BY <1>1, <1>2, <1>3 DEF Lists
<1>5. IsFiniteSet({})
  BY FS_EmptySet
<1>6. Total(Weights(cache), {}) = 0
  BY <1>5, TotalIs
<1>7. Whole(cache)
  BY <1>1, <1>4, <1>6, WholeBySums
<1> QED BY <1>1, <1>7 DEF Sound, Roomy

LEMMA StepSound ==
  ASSUME Types, Types', FetchInv, CurrentInv, Sound(cache), [Next]_vars
  PROVE  Sound(cache')
<1>1. CASE \E r \in Readers : Lookup(r) \/ Wake(r) \/ FetchEnds(r)
  BY <1>1, LookupSound, WakeSound, FetchEndsSound
<1>2. CASE Invalidate
  BY <1>2, InvalidateSound
<1>3. CASE \E w \in Workers : Run(w) \/ TaskEnds(w)
  BY <1>3, RunSound, TaskEndsSound
<1>4. CASE \E s \in Slots : Ages(s) \/ BackoffEnds(s)
  BY <1>4, TimeSound
<1>5. CASE (\E r \in Readers : TimesOut(r)) \/ (\E w \in Workers : Take(w)) \/ StopRefresher \/ UNCHANGED vars
  <2>1. UNCHANGED cache
    BY <1>5 DEF TimesOut, Take, StopRefresher, vars
  <2> QED BY <2>1
<1> QED BY <1>1, <1>2, <1>3, <1>4, <1>5 DEF Next

(* bytes_ is what the entries of map_ weigh, lru_ lists its keys, each of   *)
(* them once, and the cache is over its limits only while every entry of it *)
(* is being fetched, for any number of keys, sizes and limits.              *)
THEOREM CacheStaysBounded == Spec => []CacheIsBounded
<1>1. Init => Types /\ FetchInv /\ CurrentInv /\ Sound(cache)
  BY InitHolds, InitIsCurrent, InitSound
<1>2. Types /\ FetchInv /\ CurrentInv /\ Sound(cache) /\ [Next]_vars => (Types /\ FetchInv /\ CurrentInv /\ Sound(cache))'
  BY StepKeeps, StepMoves, StepSound DEF Moves, CurrentInv
<1>3. Sound(cache) => CacheIsBounded
  <2> SUFFICES ASSUME Sound(cache) PROVE CacheIsBounded
    OBVIOUS
  <2>1. cache.bytes = SumBytes(cache, Mapped(cache)) /\ Lists(cache.lru, Mapped(cache)) /\ Roomy(cache, {})
    BY DEF Sound, Whole
  <2>2. ToSet(cache.lru) = Mapped(cache) /\ Len(cache.lru) = Cardinality(Mapped(cache))
    BY <2>1, ListsIsBounded
  <2> QED BY <2>1, <2>2 DEF CacheIsBounded, Roomy
<1> QED BY <1>1, <1>2, <1>3, PTL DEF Spec

-----------------------------------------------------------------------------
(* What the types have beyond the arguments above: the locals of a reader   *)
(* that does nothing, and the counters.                                     *)
Rest ==
  /\ \A r \in Readers : pc[r] = "idle" => req[r] = <<>>
  /\ stopping \in BOOLEAN
  /\ calls \in Nat

(* A reader leaves its lookup with its locals gone.                         *)
Leaves(r) == pc'[r] = "idle" => req'[r] = <<>>
Others(r) == \A x \in Readers \ {r} : req'[x] = req[x] /\ (pc'[x] = "idle" => pc[x] = "idle")

LEMMA ReturnsLeaves ==
  ASSUME Types, NEW r \in Readers, NEW a, Returns(r, a)
  PROVE  Leaves(r) /\ Others(r)
BY DEF Returns, Types, Leaves, Others

LEMMA RoundLeaves ==
  ASSUME Types, NEW r \in Readers, NEW c, NEW q, Round(r, c, q)
  PROVE  Leaves(r) /\ Others(r)
<1>1. ASSUME NEW g, NEW d, Fetches(r, d, g) PROVE Leaves(r) /\ Others(r)
  BY <1>1 DEF Fetches, Types, Leaves, Others
<1>2. ASSUME NEW d, Waits(r, d) PROVE Leaves(r) /\ Others(r)
  BY <1>2 DEF Waits, Types, Leaves, Others
<1>3. (\E a : Returns(r, a)) \/ (\E g : Fetches(r, q, g)) \/ Waits(r, q)
  BY DEF Round
<1> QED BY <1>1, <1>2, <1>3, ReturnsLeaves

LEMMA ServeLeaves ==
  ASSUME Types, NEW r \in Readers, NEW k, NEW c, NEW revalidate, Serve(r, k, c, revalidate)
  PROVE  Leaves(r) /\ Others(r)
<1>1. (\E a : Returns(r, a)) \/ \E q : Round(r, c, q)
  BY DEF Serve
<1> QED BY <1>1, ReturnsLeaves, RoundLeaves

LEMMA StepRests ==
  ASSUME Types, Rest, [Next]_vars
  PROVE  Rest'
<1>1. ASSUME NEW r \in Readers, Lookup(r) PROVE Rest'
  <2>1. Leaves(r) /\ Others(r)
    BY <1>1, ServeLeaves DEF Lookup
  <2>2. calls' = calls + 1 /\ UNCHANGED stopping
    BY <1>1 DEF Lookup, Called
  <2> QED BY <2>1, <2>2 DEF Rest, Leaves, Others
<1>2. ASSUME NEW r \in Readers, Wake(r) PROVE Rest'
  <2>1. Leaves(r) /\ Others(r)
    BY <1>2, RoundLeaves DEF Wake
  <2>2. UNCHANGED <<calls, stopping>>
    BY <1>2 DEF Wake, refreshVars
  <2> QED BY <2>1, <2>2 DEF Rest, Leaves, Others
<1>3. ASSUME NEW r \in Readers, TimesOut(r) PROVE Rest'
  <2>1. Leaves(r) /\ Others(r)
    BY <1>3, ReturnsLeaves DEF TimesOut
  <2>2. UNCHANGED <<calls, stopping>>
    BY <1>3 DEF TimesOut, refreshVars
  <2> QED BY <2>1, <2>2 DEF Rest, Leaves, Others
<1>4. ASSUME NEW r \in Readers, FetchEnds(r) PROVE Rest'
  <2>1. pc' = [Notifies(req[r].slot) EXCEPT ![r] = "idle"] /\ req' = [req EXCEPT ![r] = <<>>] /\ UNCHANGED <<calls, stopping>>
    BY <1>4 DEF FetchEnds, refreshVars
  <2>2. Leaves(r) /\ Others(r)
    BY <2>1 DEF Types, Leaves, Others, Notifies
  <2> QED BY <2>1, <2>2 DEF Rest, Leaves, Others
<1>5. CASE Invalidate
  BY <1>5 DEF Invalidate, Called, readerVars, refreshVars, Rest
<1>6. ASSUME NEW w \in Workers, Take(w) PROVE Rest'
  BY <1>6 DEF Take, readerVars, Rest
<1>7. ASSUME NEW w \in Workers, Run(w) PROVE Rest'
  <2>1. UNCHANGED <<pc, req, stopping, calls>>
    BY <1>7 DEF Run, readerVars
  <2> QED BY <2>1 DEF Rest
<1>8. ASSUME NEW w \in Workers, TaskEnds(w) PROVE Rest'
  <2>1. pc' = Notifies(worker[w].slot) /\ UNCHANGED <<req, stopping, calls>>
    BY <1>8 DEF TaskEnds
  <2>2. \A r \in Readers : pc'[r] = "idle" => pc[r] = "idle"
    BY <2>1 DEF Notifies
  <2> QED BY <2>1, <2>2 DEF Rest
<1>9. CASE StopRefresher
  BY <1>9 DEF StopRefresher, readerVars, Rest
<1>10. ASSUME NEW s \in Slots, Ages(s) \/ BackoffEnds(s) PROVE Rest'
  <2>1. UNCHANGED <<pc, req, stopping, calls>>
    BY <1>10 DEF Ages, BackoffEnds, readerVars, refreshVars
  <2> QED BY <2>1 DEF Rest
<1>11. CASE UNCHANGED vars
  BY <1>11 DEF vars, readerVars, refreshVars, Rest
<1> QED BY <1>1, <1>2, <1>3, <1>4, <1>5, <1>6, <1>7, <1>8, <1>9, <1>10, <1>11 DEF Next

(* The types of the state, for any number of readers, keys and entries.     *)
THEOREM CacheTypeCorrect == Spec => []TypeOK
<1>1. Init => Types /\ FetchInv /\ CurrentInv /\ Sound(cache) /\ Rest
  <2>1. Init => Types /\ FetchInv /\ CurrentInv /\ Sound(cache)
    BY InitHolds, InitIsCurrent, InitSound
  <2>2. ASSUME Init PROVE Rest
    <3>1. \A r \in Readers : req[r] = <<>>
      BY <2>2 DEF Init
    <3>2. stopping \in BOOLEAN
      BY <2>2 DEF Init
    <3>3. calls \in Nat
      BY <2>2 DEF Init
    <3> QED BY <3>1, <3>2, <3>3 DEF Rest
  <2> QED BY <2>1, <2>2
<1>2. Types /\ FetchInv /\ CurrentInv /\ Sound(cache) /\ Rest /\ [Next]_vars
        => (Types /\ FetchInv /\ CurrentInv /\ Sound(cache) /\ Rest)'
  BY StepKeeps, StepMoves, StepSound, StepRests DEF Moves, CurrentInv
<1>3. Types /\ CurrentInv /\ Sound(cache) /\ Rest => TypeOK
  <2> SUFFICES ASSUME Types, CurrentInv, Sound(cache), Rest PROVE TypeOK
    OBVIOUS
  <2>1. cache.map \in [Keys -> Slots \cup {NoSlot}] /\ cache.entry \in [Slots -> Entry]
    BY DEF Types, Shape
  <2>2. cache.lru \in Seq(Keys)
    BY DEF Sound, Whole, Lists
  <2>3. cache.bytes \in Nat
    BY WholeIs DEF Types, Sound
  <2>4. answer \in [Readers -> {"none", "value", "outdated", "error"}]
    BY DEF CurrentInv, Good
  <2> QED BY <2>1, <2>2, <2>3, <2>4 DEF TypeOK, Types, Rest
<1> QED BY <1>1, <1>2, <1>3, PTL DEF Spec
=============================================================================
