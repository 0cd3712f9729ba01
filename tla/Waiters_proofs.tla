--------------------------- MODULE Waiters_proofs ---------------------------
(* Threads that wait for each other on a condition variable: the leases of   *)
(* the connection pool, the flush that one caller runs for the others, and   *)
(* the queue of the block encoder; for any number of threads.                *)
EXTENDS ClientPool, FlushGate, BlockEncoder, Totals, SequenceTheorems

-----------------------------------------------------------------------------
(* The connection pool.                                                      *)

Leased == {"pings", "opens", "holds"}

(* What each thread does; which connection it has does not matter here.      *)
ClientOK(c) ==
  /\ c = [t \in PoolThreads |-> c[t]]
  /\ \A t \in PoolThreads : /\ c[t] = [step |-> c[t].step, key |-> c[t].key, socket |-> c[t].socket]
                            /\ c[t].step \in ClientSteps /\ c[t].key \in PoolKeys

(* d is c, with another step and another key of the thread t.                *)
Changed(c, d, t, step, key) ==
  ClientOK(d) /\ d[t].step = step /\ d[t].key = key /\ \A u \in PoolThreads \ {t} : d[u] = c[u]

LeasingIn(c, h) == {t \in PoolThreads : c[t].key.host = h /\ c[t].step \in Leased}
Woken           == {t \in PoolThreads : Does(t, "woken")}

Counted == \A h \in Hosts : leased[h] = Cardinality(LeasingIn(client, h)) /\ leased[h] <= MaxLeased

(* A sleeper of the only host has all leases taken, or others woken for them. *)
Awaited == \A h \in Hosts : Hosts = {h} /\ Asleep # {} => leased[h] + Cardinality(Woken) >= MaxLeased

PoolInv == ClientOK(client) /\ leased \in [Hosts -> Nat] /\ Counted /\ Awaited
-----------------------------------------------------------------------------
(* Changes of one field of one thread.                                       *)
LEMMA StepField ==
  ASSUME NEW c, ClientOK(c), NEW t \in PoolThreads, NEW x \in ClientSteps
  PROVE  Changed(c, [c EXCEPT ![t].step = x], t, x, c[t].key)
<1> DEFINE r == [c[t] EXCEPT !.step = x]
           d == [c EXCEPT ![t] = r]
<1>1. r = [step |-> x, key |-> c[t].key, socket |-> c[t].socket]
  BY DEF ClientOK
<1>2. r.step = x /\ r.key = c[t].key /\ r.socket = c[t].socket
  BY <1>1
<1> HIDE DEF r
<1>3. d = [u \in PoolThreads |-> IF u = t THEN r ELSE c[u]]
  BY DEF ClientOK
<1>4. d[t] = r /\ \A u \in PoolThreads \ {t} : d[u] = c[u]
  BY <1>3
<1>5. ClientOK(d)
  BY <1>1, <1>2, <1>3, <1>4 DEF ClientOK
<1> QED BY <1>2, <1>4, <1>5 DEF r, Changed

LEMMA SocketField ==
  ASSUME NEW c, ClientOK(c), NEW t \in PoolThreads, NEW s
  PROVE  Changed(c, [c EXCEPT ![t].socket = s], t, c[t].step, c[t].key)
<1> DEFINE r == [c[t] EXCEPT !.socket = s]
           d == [c EXCEPT ![t] = r]
<1>1. r = [step |-> c[t].step, key |-> c[t].key, socket |-> s]
  BY DEF ClientOK
<1>2. r.step = c[t].step /\ r.key = c[t].key /\ r.socket = s
  BY <1>1
<1> HIDE DEF r
<1>3. d = [u \in PoolThreads |-> IF u = t THEN r ELSE c[u]]
  BY DEF ClientOK
<1>4. d[t] = r /\ \A u \in PoolThreads \ {t} : d[u] = c[u]
  BY <1>3
<1>5. ClientOK(d)
  BY <1>1, <1>2, <1>3, <1>4 DEF ClientOK
<1> QED BY <1>2, <1>4, <1>5 DEF r, Changed

LEMMA KeyField ==
  ASSUME NEW c, ClientOK(c), NEW t \in PoolThreads, NEW k \in PoolKeys
  PROVE  Changed(c, [c EXCEPT ![t].key = k], t, c[t].step, k)
<1> DEFINE r == [c[t] EXCEPT !.key = k]
           d == [c EXCEPT ![t] = r]
<1>1. r = [step |-> c[t].step, key |-> k, socket |-> c[t].socket]
  BY DEF ClientOK
<1>2. r.step = c[t].step /\ r.key = k /\ r.socket = c[t].socket
  BY <1>1
<1> HIDE DEF r
<1>3. d = [u \in PoolThreads |-> IF u = t THEN r ELSE c[u]]
  BY DEF ClientOK
<1>4. d[t] = r /\ \A u \in PoolThreads \ {t} : d[u] = c[u]
  BY <1>3
<1>5. ClientOK(d)
  BY <1>1, <1>2, <1>3, <1>4 DEF ClientOK
<1> QED BY <1>2, <1>4, <1>5 DEF r, Changed

LEMMA WholeClient ==
  ASSUME NEW c, ClientOK(c), NEW t \in PoolThreads, NEW x \in ClientSteps, NEW k \in PoolKeys, NEW s
  PROVE  Changed(c, [c EXCEPT ![t] = [step |-> x, key |-> k, socket |-> s]], t, x, k)
BY DEF ClientOK, Changed
-----------------------------------------------------------------------------
(* What the steps of a pool do to its counts.  First: a thread takes a lease. *)
LEMMA LeasingIsFinite == \A c, h : IsFiniteSet(LeasingIn(c, h)) /\ Cardinality(LeasingIn(c, h)) \in Nat
BY PoolAssumption, FS_Subset, FS_CardinalityType DEF LeasingIn

LEMMA WokenIsFinite == IsFiniteSet(Woken) /\ Cardinality(Woken) \in Nat
BY PoolAssumption, FS_Subset, FS_CardinalityType DEF Woken

LEMMA WokenIsFinitePrime == IsFiniteSet(Woken') /\ Cardinality(Woken') \in Nat
BY PoolAssumption, FS_Subset, FS_CardinalityType DEF Woken

LEMMA LeaseTaken ==
  ASSUME PoolInv, NEW t \in PoolThreads, NEW k \in PoolKeys,
         client[t].step \notin Leased, leased[k.host] < MaxLeased,
         leased' = [leased EXCEPT ![k.host] = @ + 1],
         ClientOK(client'), client'[t].step \in Leased, client'[t].key = k,
         \A u \in PoolThreads \ {t} : client'[u] = client[u]
  PROVE  PoolInv'
<1>0. k.host \in Hosts /\ MaxLeased \in Nat /\ leased \in [Hosts -> Nat]
  BY PoolAssumption DEF PoolKeys, PoolInv
<1>1. leased' \in [Hosts -> Nat] /\ leased'[k.host] = leased[k.host] + 1 /\ leased'[k.host] <= MaxLeased
      /\ \A h \in Hosts \ {k.host} : leased'[h] = leased[h]
  BY <1>0
<1>2. Counted'
  <2>1. LeasingIn(client', k.host) = LeasingIn(client, k.host) \cup {t} /\ t \notin LeasingIn(client, k.host)
    BY DEF LeasingIn
  <2>2. \A h \in Hosts \ {k.host} : LeasingIn(client', h) = LeasingIn(client, h)
    BY DEF LeasingIn
  <2>3. Cardinality(LeasingIn(client', k.host)) = Cardinality(LeasingIn(client, k.host)) + 1
    BY <2>1, LeasingIsFinite, FS_AddElement
  <2> QED BY <1>0, <1>1, <2>2, <2>3 DEF PoolInv, Counted
<1>3. Awaited'
  <2> SUFFICES ASSUME NEW h \in Hosts, Hosts = {h}, Asleep' # {}
               PROVE  leased'[h] + Cardinality(Woken') >= MaxLeased
    BY DEF Awaited
  <2>1. k.host = h /\ Asleep # {}
    BY <1>0 DEF Asleep, Does, Leased
  <2>2. leased[h] + Cardinality(Woken) >= MaxLeased
    BY <2>1 DEF PoolInv, Awaited
  <2>3. Woken' = Woken \ {t}
    BY DEF Woken, Does, Leased
  <2>4. Cardinality(Woken') >= Cardinality(Woken) - 1
    <3>1. Cardinality(Woken \ {t}) = IF t \in Woken THEN Cardinality(Woken) - 1 ELSE Cardinality(Woken)
      BY WokenIsFinite, FS_RemoveElement
    <3> QED BY <2>3, <3>1, WokenIsFinite
  <2> QED BY <1>0, <1>1, <2>1, <2>2, <2>4, WokenIsFinite, WokenIsFinitePrime
<1> QED BY <1>1, <1>2, <1>3 DEF PoolInv

(* A thread finds all leases of its host taken: it sleeps or gives up.       *)
LEMMA NoLeaseFree ==
  ASSUME PoolInv, NEW t \in PoolThreads, NEW k \in PoolKeys,
         client[t].step \notin Leased, leased[k.host] >= MaxLeased, UNCHANGED leased,
         ClientOK(client'), client'[t].step \notin Leased, client'[t].key = k,
         \A u \in PoolThreads \ {t} : client'[u] = client[u]
  PROVE  PoolInv'
<1>0. k.host \in Hosts /\ MaxLeased \in Nat /\ leased \in [Hosts -> Nat]
  BY PoolAssumption DEF PoolKeys, PoolInv
<1>1. \A h \in Hosts : LeasingIn(client', h) = LeasingIn(client, h)
  BY DEF LeasingIn
<1>2. Counted'
  BY <1>1 DEF PoolInv, Counted
<1>3. Awaited'
  BY <1>0, WokenIsFinitePrime DEF Awaited
<1> QED BY <1>0, <1>2, <1>3 DEF PoolInv

(* A thread with a lease goes on with it.                                    *)
LEMMA LeaseKept ==
  ASSUME PoolInv, NEW t \in PoolThreads, client[t].step \in Leased, UNCHANGED leased,
         ClientOK(client'), client'[t].step \in Leased, client'[t].key = client[t].key,
         \A u \in PoolThreads \ {t} : client'[u] = client[u]
  PROVE  PoolInv'
<1>1. \A h \in Hosts : LeasingIn(client', h) = LeasingIn(client, h)
  BY DEF LeasingIn
<1>2. Asleep' = Asleep /\ Woken' = Woken
  BY DEF Asleep, Woken, Does, Leased
<1> QED BY <1>1, <1>2 DEF PoolInv, Counted, Awaited

(* A thread ends its lease, and one that sleeps is woken for it.             *)
LEMMA LeaseEnded ==
  ASSUME PoolInv, NEW t \in PoolThreads, client[t].step \in Leased, EndsLease(t), NotifiesOne(t)
  PROVE  PoolInv'
<1> DEFINE h0 == client[t].key.host
<1>0. h0 \in Hosts /\ MaxLeased \in Nat /\ leased \in [Hosts -> Nat] /\ ClientOK(client)
  BY PoolAssumption DEF PoolKeys, PoolInv, ClientOK
<1>1. t \in LeasingIn(client, h0)
  BY DEF LeasingIn
<1>2. /\ Cardinality(LeasingIn(client, h0) \ {t}) = Cardinality(LeasingIn(client, h0)) - 1
      /\ Cardinality(LeasingIn(client, h0) \ {t}) \in Nat
  BY <1>1, LeasingIsFinite, FS_RemoveElement, FS_CardinalityType
<1>3. leased[h0] = Cardinality(LeasingIn(client, h0)) /\ leased[h0] <= MaxLeased
  BY <1>0 DEF PoolInv, Counted
<1>4. leased' \in [Hosts -> Nat] /\ leased'[h0] = leased[h0] - 1 /\ \A h \in Hosts \ {h0} : leased'[h] = leased[h]
  <2>1. leased[h0] - 1 \in Nat
    BY <1>2, <1>3
  <2> QED BY <1>0, <2>1 DEF EndsLease, Elsewhere
<1>5. "out" \in ClientSteps /\ "woken" \in ClientSteps
  BY DEF ClientSteps
<1>6. ASSUME ClientOK(client'), client'[t].step = "out", client'[t].key = client[t].key,
             \A u \in PoolThreads \ {t} : client'[u].key = client[u].key
                                           /\ (client'[u].step \in Leased <=> client[u].step \in Leased),
             Asleep' = {} \/ (Cardinality(Woken') = Cardinality(Woken) + 1 /\ Asleep # {})
      PROVE  PoolInv'
  <2>1. LeasingIn(client', h0) = LeasingIn(client, h0) \ {t}
    BY <1>6 DEF LeasingIn, Leased
  <2>2. \A h \in Hosts \ {h0} : LeasingIn(client', h) = LeasingIn(client, h)
    BY <1>6 DEF LeasingIn, Leased
  <2>3. Counted'
    <3>1. leased'[h0] = Cardinality(LeasingIn(client', h0)) /\ leased'[h0] <= MaxLeased
      BY <1>0, <1>2, <1>3, <1>4, <2>1
    <3>2. ASSUME NEW h \in Hosts \ {h0} PROVE leased'[h] = Cardinality(LeasingIn(client', h)) /\ leased'[h] <= MaxLeased
      BY <1>4, <2>2, <3>2 DEF PoolInv, Counted
    <3> QED BY <3>1, <3>2 DEF Counted
  <2>4. Awaited'
    <3> SUFFICES ASSUME NEW h \in Hosts, Hosts = {h}, Asleep' # {}
                 PROVE  leased'[h] + Cardinality(Woken') >= MaxLeased
      BY DEF Awaited
    <3>1. leased[h] + Cardinality(Woken) >= MaxLeased
      BY <1>6 DEF PoolInv, Awaited
    <3> QED BY <1>0, <1>4, <1>6, <3>1, WokenIsFinite
  <2> QED BY <1>4, <1>6, <2>3, <2>4 DEF PoolInv
<1>7. ASSUME NEW c, ClientOK(c), NEW d, d = [c EXCEPT ![t].step = "out", ![t].socket = NoSocket]
      PROVE  Changed(c, d, t, "out", c[t].key)
  <2> DEFINE e == [c EXCEPT ![t].step = "out"]
             f == [e EXCEPT ![t].socket = NoSocket]
  <2>1. Changed(c, e, t, "out", c[t].key)
    BY <1>5, <1>7, StepField
  <2>2. d = f
    BY <1>7
  <2> HIDE DEF e
  <2>3. Changed(e, f, t, e[t].step, e[t].key)
    BY <2>1, SocketField DEF Changed
  <2> HIDE DEF f
  <2> QED BY <2>1, <2>2, <2>3 DEF Changed
<1>8. CASE Asleep = {} /\ client' = [client EXCEPT ![t].step = "out", ![t].socket = NoSocket]
  <2>1. Changed(client, client', t, "out", client[t].key)
    BY <1>0, <1>7, <1>8
  <2>2. Asleep' = {}
    BY <2>1, <1>8 DEF Asleep, Does, Changed
  <2>3. /\ ClientOK(client') /\ client'[t].step = "out" /\ client'[t].key = client[t].key
        /\ \A u \in PoolThreads \ {t} : client'[u] = client[u]
    BY <2>1 DEF Changed
  <2>4. \A u \in PoolThreads \ {t} : client'[u].key = client[u].key
                                     /\ (client'[u].step \in Leased <=> client[u].step \in Leased)
    BY <2>3
  <2> QED BY <1>6, <2>2, <2>3, <2>4, Zenon
<1>9. ASSUME NEW w \in Asleep, client' = [client EXCEPT ![w].step = "woken", ![t].step = "out", ![t].socket = NoSocket]
      PROVE  PoolInv'
  <2>0. w \in PoolThreads /\ w # t /\ client[w].step = "waits"
    BY DEF Asleep, Does, Leased
  <2> DEFINE c == [client EXCEPT ![w].step = "woken"]
  <2>1. Changed(client, c, w, "woken", client[w].key)
    BY <1>0, <1>5, <2>0, StepField
  <2>2. client' = [c EXCEPT ![t].step = "out", ![t].socket = NoSocket]
    BY <1>9
  <2> HIDE DEF c
  <2>3. Changed(c, client', t, "out", c[t].key)
    <3>1. ClientOK(c)
      BY <2>1 DEF Changed
    <3> QED BY <3>1, <2>2, <1>7
  <2>5. /\ ClientOK(client') /\ client'[t].step = "out" /\ client'[t].key = client[t].key
        /\ client'[w].step = "woken" /\ client'[w].key = client[w].key
        /\ \A u \in PoolThreads \ {t, w} : client'[u] = client[u]
    BY <2>0, <2>1, <2>3 DEF Changed
  <2>6. Woken' = Woken \cup {w} /\ w \notin Woken
    BY <2>0, <2>5 DEF Woken, Does, Leased
  <2>7. Cardinality(Woken') = Cardinality(Woken) + 1
    BY <2>6, WokenIsFinite, FS_AddElement
  <2>8. \A u \in PoolThreads \ {t} : client'[u].key = client[u].key
                                     /\ (client'[u].step \in Leased <=> client[u].step \in Leased)
    BY <2>0, <2>5 DEF Leased
  <2> QED BY <1>6, <2>5, <2>7, <2>8
<1> QED BY <1>8, <1>9 DEF NotifiesOne
-----------------------------------------------------------------------------
LEMMA PoolInvStarts == PoolInit => PoolInv
<1> SUFFICES ASSUME PoolInit PROVE PoolInv
  OBVIOUS
<1>1. ClientOK(client) /\ \A t \in PoolThreads : client[t].step = "out"
  <2> DEFINE k0 == CHOOSE k \in PoolKeys : TRUE
  <2>1. PICK h \in Hosts : TRUE
    BY PoolAssumption
  <2>2. [host |-> h, bounded |-> TRUE] \in PoolKeys
    BY DEF PoolKeys
  <2>3. k0 \in PoolKeys
    BY <2>2
  <2>4. client \in [PoolThreads -> [step : {"out"}, key : {k0}, socket : {NoSocket}]]
    BY DEF PoolInit
  <2> HIDE DEF k0
  <2> QED BY <2>3, <2>4 DEF ClientOK, ClientSteps
<1>2. \A h \in Hosts : LeasingIn(client, h) = {}
  BY <1>1 DEF LeasingIn, Leased
<1>3. Counted
  <2>1. Cardinality({}) = 0 /\ MaxLeased \in Nat
    BY FS_EmptySet, PoolAssumption
  <2>2. \A h \in Hosts : leased[h] = 0
    BY DEF PoolInit
  <2>3. \A h \in Hosts : Cardinality(LeasingIn(client, h)) = 0
    BY <1>2, <2>1, Zenon
  <2> QED BY <2>1, <2>2, <2>3 DEF Counted
<1>4. Awaited
  BY <1>1 DEF Awaited, Asleep, Does
<1> QED BY <1>1, <1>3, <1>4 DEF PoolInit, PoolInv

LEMMA LeasesKeeps ==
  ASSUME PoolInv, NEW t \in PoolThreads, NEW k \in PoolKeys, client[t].step \notin Leased, Leases(t, k)
  PROVE  PoolInv'
<1>0. ClientOK(client)
  BY DEF PoolInv
<1>1. \E x \in Leased : \E s : client' = [client EXCEPT ![t] = [step |-> x, key |-> k, socket |-> s]]
  <2>1. CASE client' = [client EXCEPT ![t] = [step |-> "opens", key |-> k, socket |-> NoSocket]]
    BY <2>1 DEF Leased
  <2>2. CASE \E i \in Lendable(k) :
               client' = [client EXCEPT ![t] = [step |-> IF YoungIdle[k][i].age = 0 THEN "holds" ELSE "pings", key |-> k,
                                                socket |-> YoungIdle[k][i].socket]]
    <3>1. PICK i \in Lendable(k) :
               client' = [client EXCEPT ![t] = [step |-> IF YoungIdle[k][i].age = 0 THEN "holds" ELSE "pings", key |-> k,
                                                socket |-> YoungIdle[k][i].socket]]
      BY <2>2
    <3>2. (IF YoungIdle[k][i].age = 0 THEN "holds" ELSE "pings") \in Leased
      BY DEF Leased
    <3> QED BY <3>1, <3>2
  <2> QED BY <2>1, <2>2 DEF Leases
<1>2. PICK x \in Leased : \E s : client' = [client EXCEPT ![t] = [step |-> x, key |-> k, socket |-> s]]
  BY <1>1
<1>w. PICK s : client' = [client EXCEPT ![t] = [step |-> x, key |-> k, socket |-> s]]
  BY <1>2
<1>3. x \in ClientSteps
  BY DEF Leased, ClientSteps
<1>4. Changed(client, client', t, x, k)
  BY <1>0, <1>w, <1>3, WholeClient
<1>5. leased[k.host] < MaxLeased /\ leased' = [leased EXCEPT ![k.host] = @ + 1]
  BY DEF Leases
<1> QED BY <1>4, <1>5, LeaseTaken DEF Changed

LEMMA PoolInvSteps == PoolInv /\ [PoolNext]_poolVars => PoolInv'
<1> SUFFICES ASSUME PoolInv, [PoolNext]_poolVars PROVE PoolInv'
  OBVIOUS
<1>0. ClientOK(client) /\ {"out", "waits", "woken", "holds", "opens"} \subseteq ClientSteps
  BY DEF PoolInv, ClientSteps
<1>k. \A t \in PoolThreads : client[t].key \in PoolKeys
  BY <1>0 DEF ClientOK
<1>1. ASSUME NEW t \in PoolThreads, NEW k \in PoolKeys, Acquire(t, k) PROVE PoolInv'
  <2>1. client[t].step = "out" /\ client[t].step \notin Leased
    BY <1>1 DEF Acquire, Does, Leased
  <2>2. CASE Leases(t, k)
    BY <2>1, <2>2, LeasesKeeps
  <2>3. CASE /\ leased[k.host] >= MaxLeased /\ UNCHANGED leased
             /\ client' = [client EXCEPT ![t].step = "waits", ![t].key = k]
    <3> DEFINE c == [client EXCEPT ![t].step = "waits"]
    <3>1. Changed(client, c, t, "waits", client[t].key)
      BY <1>0, StepField
    <3>2. client' = [c EXCEPT ![t].key = k]
      BY <2>3
    <3> HIDE DEF c
    <3>3. Changed(c, client', t, c[t].step, k)
      <4>1. ClientOK(c)
        BY <3>1 DEF Changed
      <4> QED BY <4>1, <3>2, KeyField
    <3>4. Changed(client, client', t, "waits", k)
      BY <3>1, <3>3 DEF Changed
    <3> QED BY <3>4, <2>1, <2>3, NoLeaseFree DEF Changed, Leased
  <2> QED BY <1>1, <2>2, <2>3 DEF Acquire
<1>2. ASSUME NEW t \in PoolThreads, LooksAgain(t) \/ WaitEnds(t) PROVE PoolInv'
  <2>1. client[t].step \notin Leased
    BY <1>2 DEF LooksAgain, WaitEnds, Does, Leased
  <2>2. CASE Leases(t, client[t].key)
    BY <1>k, <2>1, <2>2, LeasesKeeps
  <2>3. ASSUME NEW x \in {"waits", "out"},
               leased[Elsewhere(t)] >= MaxLeased, UNCHANGED leased, client' = [client EXCEPT ![t].step = x]
        PROVE  PoolInv'
    <3>1. Changed(client, client', t, x, client[t].key) /\ x \notin Leased
      BY <1>0, <2>3, StepField DEF Leased
    <3> QED BY <1>k, <2>1, <2>3, <3>1, NoLeaseFree DEF Changed, Elsewhere
  <2> QED BY <1>2, <2>2, <2>3 DEF LooksAgain, WaitEnds
<1>3. ASSUME NEW t \in PoolThreads, Ping(t) PROVE PoolInv'
  <2>1. client[t].step \in Leased /\ UNCHANGED leased
    BY <1>3 DEF Ping, Does, Leased
  <2>2. CASE client' = [client EXCEPT ![t].step = "holds"]
    <3>1. Changed(client, client', t, "holds", client[t].key) /\ "holds" \in Leased
      BY <1>0, <2>2, StepField DEF Leased
    <3> QED BY <2>1, <3>1, LeaseKept DEF Changed
  <2>3. CASE client' = [client EXCEPT ![t].step = "opens", ![t].socket = NoSocket]
    <3>1. Changed(client, client', t, "opens", client[t].key) /\ "opens" \in Leased
      <4> DEFINE c == [client EXCEPT ![t].step = "opens"]
      <4>1. Changed(client, c, t, "opens", client[t].key)
        BY <1>0, StepField
      <4>2. client' = [c EXCEPT ![t].socket = NoSocket]
        BY <2>3
      <4> HIDE DEF c
      <4>3. ClientOK(c)
        BY <4>1 DEF Changed
      <4>4. Changed(c, client', t, c[t].step, c[t].key)
        BY <4>2, <4>3, SocketField
      <4> QED BY <4>1, <4>4 DEF Changed, Leased
    <3> QED BY <2>1, <3>1, LeaseKept DEF Changed
  <2> QED BY <1>3, <2>2, <2>3 DEF Ping
<1>4. ASSUME NEW t \in PoolThreads, OpenClient(t) PROVE PoolInv'
  <2>1. client[t].step \in Leased /\ UNCHANGED leased
    BY <1>4 DEF OpenClient, Does, Leased
  <2>2. PICK s : client' = [client EXCEPT ![t].step = "holds", ![t].socket = s]
    BY <1>4 DEF OpenClient
  <2> DEFINE c == [client EXCEPT ![t].step = "holds"]
  <2>3. Changed(client, c, t, "holds", client[t].key)
    BY <1>0, StepField
  <2>4. client' = [c EXCEPT ![t].socket = s]
    BY <2>2
  <2> HIDE DEF c
  <2>5. ClientOK(c)
    BY <2>3 DEF Changed
  <2>6. Changed(c, client', t, c[t].step, c[t].key)
    BY <2>4, <2>5, SocketField
  <2>7. Changed(client, client', t, "holds", client[t].key) /\ "holds" \in Leased
    BY <2>3, <2>6 DEF Changed, Leased
  <2> QED BY <2>1, <2>7, LeaseKept DEF Changed
<1>5. ASSUME NEW t \in PoolThreads, OpenFails(t) \/ Release(t) PROVE PoolInv'
  BY <1>5, LeaseEnded DEF OpenFails, Release, Does, Leased
<1>6. CASE UNCHANGED <<leased, client>>
  BY <1>6 DEF PoolInv, ClientOK, Counted, LeasingIn, Awaited, Asleep, Woken, Does
<1> QED
  BY <1>1, <1>2, <1>3, <1>4, <1>5, <1>6 DEF PoolNext, MarkDirty, ReapIdle, IdleTime, poolVars

(* LeasesAreCounted: every lease is counted for as long as a thread has it,  *)
(* and no host has more than its limit.                                      *)
THEOREM LeaseLimitHolds == PoolSpec => []LeasesAreCounted
<1>1. PoolInv => LeasesAreCounted
  BY DEF PoolInv, Counted, LeasesAreCounted, LeasingIn, Leasing, Leased, Elsewhere
<1> QED BY <1>1, PoolInvStarts, PoolInvSteps, PTL DEF PoolSpec

(* NoStrandedWaiter: with one host, nobody sleeps while a lease is free and  *)
(* nobody was woken for it.                                                  *)
THEOREM FreeLeaseIsAnnounced == PoolSpec => []NoStrandedWaiter
<1>1. PoolInv => NoStrandedWaiter
  <2> SUFFICES ASSUME PoolInv, Cardinality(Hosts) = 1, Asleep # {}, NEW h \in Hosts
               PROVE  leased[h] + Cardinality({t \in PoolThreads : Does(t, "woken")}) >= MaxLeased
    BY DEF NoStrandedWaiter
  <2>1. Hosts = {h}
    BY PoolAssumption, FS_Singleton
  <2> QED BY <2>1 DEF PoolInv, Awaited, Woken
<1> QED BY <1>1, PoolInvStarts, PoolInvSteps, PTL DEF PoolSpec

-----------------------------------------------------------------------------
(* Who has which connection.                                                 *)
Connections == [socket : Sockets, age : 0..2]

(* The sockets of r are of the first n of s, each from a place of its own.   *)
PartIn(r, n, s) ==
  \E q \in [1..Len(r) -> 1..n] :
    /\ \A i, j \in 1..Len(r) : q[i] = q[j] => i = j
    /\ \A i \in 1..Len(r) : r[i].socket = s[q[i]].socket

PartOf(r, s) == PartIn(r, Len(s), s)

LEMMA OneMore ==
  ASSUME NEW r \in Seq(Connections), NEW n \in Nat, NEW s, PartIn(r, n, s), s[n + 1] \in Connections
  PROVE  /\ PartIn(r, n + 1, s)
         /\ Append(r, s[n + 1]) \in Seq(Connections) /\ PartIn(Append(r, s[n + 1]), n + 1, s)
<1>1. PICK q \in [1..Len(r) -> 1..n] :
                       /\ \A i, j \in 1..Len(r) : q[i] = q[j] => i = j
                       /\ \A i \in 1..Len(r) : r[i].socket = s[q[i]].socket
  BY DEF PartIn
<1>2. PICK m \in Nat : m = Len(r)
  BY LenProperties
<1>3. q \in [1..m -> 1..n] /\ (\A i \in 1..m : q[i] \in 1..n) /\ q \in [1..m -> 1..(n + 1)]
  BY <1>2
<1>4. PartIn(r, n + 1, s)
  BY <1>1, <1>2, <1>3 DEF PartIn
<1> DEFINE a == Append(r, s[n + 1])
           p == [i \in 1..(m + 1) |-> IF i = m + 1 THEN n + 1 ELSE q[i]]
<1>5. a \in Seq(Connections) /\ Len(a) = m + 1 /\ a[m + 1] = s[n + 1] /\ \A i \in 1..m : a[i] = r[i]
  BY <1>2, AppendProperties
<1>6. p \in [1..(m + 1) -> 1..(n + 1)] /\ p[m + 1] = n + 1 /\ \A i \in 1..m : p[i] = q[i]
  BY <1>3
<1>7. \A l \in 1..(m + 1) : l = m + 1 \/ l \in 1..m
  OBVIOUS
<1> HIDE DEF p, a
<1>8. \A i, j \in 1..Len(a) : p[i] = p[j] => i = j
  BY <1>1, <1>2, <1>3, <1>5, <1>6, <1>7
<1>9. \A i \in 1..Len(a) : a[i].socket = s[p[i]].socket
  BY <1>1, <1>2, <1>5, <1>6, <1>7
<1>10. p \in [1..Len(a) -> 1..(n + 1)]
  BY <1>5, <1>6
<1>11. PartIn(a, n + 1, s)
  BY <1>8, <1>9, <1>10, Zenon DEF PartIn
<1> QED BY <1>4, <1>5, <1>11 DEF a

(* The function in the definition of Kept, up to a place n.                  *)
Keeping(f, n, s) ==
  f = [i \in 0..n |-> IF i = 0 THEN <<>> ELSE IF Young(s[i]) THEN Append(f[i - 1], s[i]) ELSE f[i - 1]]

LEMMA KeepingExists ==
  ASSUME NEW s, NEW N \in Nat
  PROVE  \E f : Keeping(f, N, s)
<1> DEFINE S == {n \in Nat : \E f : Keeping(f, n, s)}
<1>1. 0 \in S
  <2> DEFINE f == [i \in 0..0 |-> <<>>]
  <2>1. Keeping(f, 0, s)
    BY DEF Keeping
  <2> QED BY <2>1
<1>2. ASSUME NEW n \in Nat, n \in S PROVE n + 1 \in S
  <2>1. PICK f : Keeping(f, n, s)
    BY <1>2
  <2> DEFINE last == IF Young(s[n + 1]) THEN Append(f[n], s[n + 1]) ELSE f[n]
             g == [i \in 0..(n + 1) |-> IF i = n + 1 THEN last ELSE f[i]]
  <2>2. \A i \in 0..n : f[i] = IF i = 0 THEN <<>> ELSE IF Young(s[i]) THEN Append(f[i - 1], s[i]) ELSE f[i - 1]
    BY <2>1 DEF Keeping
  <2>3. ASSUME NEW i \in 0..(n + 1)
        PROVE  g[i] = IF i = 0 THEN <<>> ELSE IF Young(s[i]) THEN Append(g[i - 1], s[i]) ELSE g[i - 1]
    <3>1. CASE i = n + 1
      <4>1. g[i] = last /\ g[i - 1] = f[n] /\ i # 0
        BY <3>1
      <4> HIDE DEF g
      <4> QED BY <3>1, <4>1
    <3>2. CASE i # n + 1
      <4>1. i \in 0..n /\ g[i] = f[i] /\ (i # 0 => g[i - 1] = f[i - 1])
        BY <3>2
      <4> HIDE DEF g
      <4> QED BY <2>2, <4>1
    <3> QED BY <3>1, <3>2
  <2>4. Keeping(g, n + 1, s)
    <3>1. g = [i \in 0..(n + 1) |-> g[i]]
      OBVIOUS
    <3> HIDE DEF g
    <3> QED BY <2>3, <3>1 DEF Keeping
  <2> HIDE DEF g
  <2> QED BY <2>4
<1> HIDE DEF S
<1>3. Nat \subseteq S
  BY <1>1, <1>2, Induct
<1> QED BY <1>3 DEF S

(* What stays of a list is a part of it.                                     *)
LEMMA KeptIsPart ==
  ASSUME NEW s \in Seq(Connections)
  PROVE  Kept(s) \in Seq(Connections) /\ PartOf(Kept(s), s)
<1>0. Len(s) \in Nat /\ DOMAIN s = 1..Len(s) /\ \A i \in 1..Len(s) : s[i] \in Connections
  BY LenProperties, ElementOfSeq
<1> DEFINE kept == CHOOSE f : Keeping(f, Len(s), s)
<1>1. Keeping(kept, Len(s), s)
  BY <1>0, KeepingExists
<1>2. Kept(s) = kept[Len(s)]
  BY DEF Kept, Keeping
<1> HIDE DEF kept
<1>3. \A i \in 0..Len(s) : kept[i] = IF i = 0 THEN <<>> ELSE IF Young(s[i]) THEN Append(kept[i - 1], s[i]) ELSE kept[i - 1]
  BY <1>1 DEF Keeping
<1> DEFINE Good(n) == kept[n] \in Seq(Connections) /\ PartIn(kept[n], n, s)
           S == {n \in Nat : n <= Len(s) => Good(n)}
<1>4. 0 \in S
  <2>1. kept[0] = <<>>
    BY <1>0, <1>3
  <2>2. kept[0] \in Seq(Connections) /\ Len(kept[0]) = 0
    BY <2>1, EmptySeq
  <2> DEFINE q == [i \in 1..0 |-> i]
  <2>3. q \in [1..0 -> 1..0] /\ 1..0 = {}
    OBVIOUS
  <2> HIDE DEF q
  <2>4. PartIn(kept[0], 0, s)
    BY <2>2, <2>3 DEF PartIn
  <2> QED BY <2>2, <2>4
<1>5. ASSUME NEW n \in Nat, n \in S PROVE n + 1 \in S
  <2> SUFFICES ASSUME n + 1 <= Len(s) PROVE Good(n + 1)
    OBVIOUS
  <2>1. Good(n) /\ n + 1 \in 1..Len(s) /\ n + 1 \in 0..Len(s)
    BY <1>0, <1>5
  <2>2. s[n + 1] \in Connections /\ kept[n + 1] = IF Young(s[n + 1]) THEN Append(kept[n], s[n + 1]) ELSE kept[n]
    BY <1>0, <1>3, <2>1
  <2> QED BY <2>1, <2>2, OneMore
<1> HIDE DEF S
<1>6. Nat \subseteq S
  BY <1>4, <1>5, Induct
<1> QED BY <1>0, <1>2, <1>6 DEF S, PartOf
-----------------------------------------------------------------------------
(* No two places have the same connection: I are the idle lists, c is what   *)
(* the threads do, d are the marked connections.                             *)
OneOwner(I, c, d) ==
  /\ \A t, u \in PoolThreads : c[t].socket # NoSocket /\ c[t].socket = c[u].socket => t = u
  /\ \A t \in PoolThreads : \A k \in PoolKeys : \A i \in 1..Len(I[k]) : c[t].socket # I[k][i].socket
  /\ \A k, l \in PoolKeys : \A i \in 1..Len(I[k]) : \A j \in 1..Len(I[l]) :
       I[k][i].socket = I[l][j].socket => k = l /\ i = j
  /\ \A k \in PoolKeys : \A i \in 1..Len(I[k]) : I[k][i].socket \notin d

Lists == [PoolKeys -> Seq(Connections)]

LEMMA InLists ==
  ASSUME NEW I \in Lists, NEW k \in PoolKeys
  PROVE  I[k] \in Seq(Connections) /\ \A i \in 1..Len(I[k]) : I[k][i].socket \in Sockets
<1>1. I[k] \in Seq(Connections)
  BY DEF Lists
<1>2. \A i \in 1..Len(I[k]) : I[k][i] \in Connections
  BY <1>1, ElementOfSeq
<1> QED BY <1>1, <1>2 DEF Connections

(* Connections are closed, and threads give up theirs.                       *)
LEMMA Thins ==
  ASSUME NEW I \in Lists, NEW J \in Lists, NEW c, NEW e, NEW d, NEW b, OneOwner(I, c, d),
         \A k \in PoolKeys : PartOf(J[k], I[k]),
         \A t \in PoolThreads : e[t].socket = c[t].socket \/ e[t].socket = NoSocket,
         \A x \in b : x \in d \/ \E t \in PoolThreads : c[t].socket = x
  PROVE  OneOwner(J, e, b)
<1>1. ASSUME NEW k \in PoolKeys
      PROVE  \E q \in [1..Len(J[k]) -> 1..Len(I[k])] :
               /\ \A i, j \in 1..Len(J[k]) : q[i] = q[j] => i = j
               /\ \A i \in 1..Len(J[k]) : J[k][i].socket = I[k][q[i]].socket
  BY DEF PartOf, PartIn
<1>2. \A k \in PoolKeys : \A i \in 1..Len(J[k]) : \E m \in 1..Len(I[k]) : J[k][i].socket = I[k][m].socket
  BY <1>1
<1>3. NoSocket \notin Sockets /\ \A k \in PoolKeys : \A i \in 1..Len(J[k]) : J[k][i].socket \in Sockets
  BY PoolAssumption, InLists
<1>4. ASSUME NEW k \in PoolKeys, NEW l \in PoolKeys, NEW i \in 1..Len(J[k]), NEW j \in 1..Len(J[l]),
             J[k][i].socket = J[l][j].socket
      PROVE  k = l /\ i = j
  <2>1. PICK q \in [1..Len(J[k]) -> 1..Len(I[k])] :
               /\ \A m, n \in 1..Len(J[k]) : q[m] = q[n] => m = n
               /\ \A m \in 1..Len(J[k]) : J[k][m].socket = I[k][q[m]].socket
    BY <1>1
  <2>2. PICK n \in 1..Len(I[l]) : J[l][j].socket = I[l][n].socket
    BY <1>2
  <2>3. q[i] \in 1..Len(I[k]) /\ I[k][q[i]].socket = I[l][n].socket
    BY <1>4, <2>1, <2>2
  <2>4. k = l
    BY <2>3 DEF OneOwner
  <2>5. j \in 1..Len(J[k]) /\ q[j] \in 1..Len(I[k]) /\ I[k][q[i]].socket = I[k][q[j]].socket
    BY <1>4, <2>1, <2>3, <2>4
  <2> QED BY <2>1, <2>3, <2>4, <2>5 DEF OneOwner
<1>5. ASSUME NEW t \in PoolThreads, NEW k \in PoolKeys, NEW i \in 1..Len(J[k])
      PROVE  e[t].socket # J[k][i].socket /\ c[t].socket # J[k][i].socket
  BY <1>2, <1>3 DEF OneOwner
<1>6. ASSUME NEW k \in PoolKeys, NEW i \in 1..Len(J[k]) PROVE J[k][i].socket \notin b
  BY <1>2, <1>5 DEF OneOwner
<1> QED BY <1>4, <1>5, <1>6 DEF OneOwner

(* An idle connection gets a user.                                           *)
LEMMA Lends ==
  ASSUME NEW I \in Lists, NEW J \in Lists, NEW c, NEW e, NEW d, OneOwner(I, c, d),
         NEW t \in PoolThreads, NEW k \in PoolKeys, NEW p \in 1..Len(I[k]),
         \A l \in PoolKeys : PartOf(J[l], I[l]),
         \A i \in 1..Len(J[k]) : J[k][i].socket # I[k][p].socket,
         e[t].socket = I[k][p].socket, \A u \in PoolThreads \ {t} : e[u] = c[u]
  PROVE  OneOwner(J, e, d)
<1>1. OneOwner(J, c, d)
  <2>1. \A x \in d : x \in d \/ \E u \in PoolThreads : c[u].socket = x
    OBVIOUS
  <2>2. \A u \in PoolThreads : c[u].socket = c[u].socket \/ c[u].socket = NoSocket
    OBVIOUS
  <2> QED BY <2>1, <2>2, Thins
<1>2. ASSUME NEW l \in PoolKeys, NEW i \in 1..Len(J[l]) PROVE \E m \in 1..Len(I[l]) : J[l][i].socket = I[l][m].socket
  <2>1. PICK q \in [1..Len(J[l]) -> 1..Len(I[l])] : \A j \in 1..Len(J[l]) : J[l][j].socket = I[l][q[j]].socket
    BY DEF PartOf, PartIn
  <2> QED BY <2>1
<1>3. ASSUME NEW l \in PoolKeys, NEW i \in 1..Len(J[l]) PROVE J[l][i].socket # I[k][p].socket
  BY <1>2 DEF OneOwner
<1>4. ASSUME NEW u \in PoolThreads \ {t} PROVE e[u].socket # e[t].socket /\ e[u].socket = c[u].socket
  BY DEF OneOwner
<1>5. ASSUME NEW u \in PoolThreads, NEW l \in PoolKeys, NEW i \in 1..Len(J[l]) PROVE e[u].socket # J[l][i].socket
  BY <1>1, <1>3 DEF OneOwner
<1>6. ASSUME NEW u \in PoolThreads, NEW w \in PoolThreads, e[u].socket # NoSocket, e[u].socket = e[w].socket PROVE u = w
  BY <1>1, <1>4, <1>6 DEF OneOwner
<1> QED BY <1>1, <1>5, <1>6 DEF OneOwner

(* A new connection is opened.                                               *)
LEMMA Opens ==
  ASSUME NEW I \in Lists, NEW c, NEW e, NEW d, OneOwner(I, c, d), NEW t \in PoolThreads, NEW s,
         \A u \in PoolThreads : c[u].socket # s,
         \A k \in PoolKeys : \A i \in 1..Len(I[k]) : I[k][i].socket # s,
         e[t].socket = s, \A u \in PoolThreads \ {t} : e[u] = c[u]
  PROVE  OneOwner(I, e, d \ {s})
BY DEF OneOwner

(* A connection goes back to the end of the list k.                          *)
LEMMA Returns ==
  ASSUME NEW I \in Lists, NEW c, NEW e, NEW d, OneOwner(I, c, d), NEW t \in PoolThreads, NEW k \in PoolKeys,
         c[t].socket \in Sockets \ d, e[t].socket = NoSocket,
         \A u \in PoolThreads \ {t} : e[u].socket = c[u].socket,
         NEW J, J = [I EXCEPT ![k] = Append(@, [socket |-> c[t].socket, age |-> 0])]
  PROVE  J \in Lists /\ OneOwner(J, e, d)
<1> DEFINE x == [socket |-> c[t].socket, age |-> 0]
<1>1. x \in Connections /\ I[k] \in Seq(Connections) /\ x.socket = c[t].socket
  <2>1. x \in Connections /\ x.socket = c[t].socket
    BY DEF Connections
  <2> QED BY <2>1, InLists
<1>2. PICK m \in Nat : m = Len(I[k])
  BY <1>1, LenProperties
<1>3. J[k] = Append(I[k], x) /\ \A l \in PoolKeys \ {k} : J[l] = I[l]
  BY DEF Lists
<1> HIDE DEF x
<1>4. J[k] \in Seq(Connections) /\ Len(J[k]) = m + 1 /\ J[k][m + 1] = x /\ \A i \in 1..m : J[k][i] = I[k][i]
  BY <1>1, <1>2, <1>3, AppendProperties
<1>5. J \in Lists
  <2>1. J = [l \in PoolKeys |-> J[l]]
    BY DEF Lists
  <2>2. \A l \in PoolKeys : J[l] \in Seq(Connections)
    BY <1>3, <1>4 DEF Lists
  <2> QED BY <2>1, <2>2 DEF Lists
<1>6. ASSUME NEW l \in PoolKeys, NEW i \in 1..Len(J[l])
      PROVE  \/ l = k /\ i = m + 1 /\ J[l][i].socket = c[t].socket
             \/ i \in 1..Len(I[l]) /\ J[l][i] = I[l][i]
  <2>1. CASE l # k
    BY <1>3, <2>1
  <2>2. CASE l = k /\ i = m + 1
    BY <1>1, <1>4, <2>2
  <2>3. CASE l = k /\ i # m + 1
    <3>1. i \in 1..m
      BY <1>4, <2>3
    <3> QED BY <1>2, <1>4, <2>3, <3>1
  <2> QED BY <2>1, <2>2, <2>3
<1>7. c[t].socket # NoSocket
  BY PoolAssumption
<1>8. ASSUME NEW u \in PoolThreads, NEW l \in PoolKeys, NEW i \in 1..Len(J[l]) PROVE e[u].socket # J[l][i].socket
  <2>1. J[l][i].socket \in Sockets
    BY <1>5, InLists
  <2> QED BY <1>6, <1>7, <2>1, PoolAssumption DEF OneOwner
<1>9. ASSUME NEW l \in PoolKeys, NEW n \in PoolKeys, NEW i \in 1..Len(J[l]), NEW j \in 1..Len(J[n]),
             J[l][i].socket = J[n][j].socket
      PROVE  l = n /\ i = j
  BY <1>6, <1>9 DEF OneOwner
<1>10. ASSUME NEW l \in PoolKeys, NEW i \in 1..Len(J[l]) PROVE J[l][i].socket \notin d
  BY <1>6 DEF OneOwner
<1>11. ASSUME NEW u \in PoolThreads, NEW w \in PoolThreads, e[u].socket # NoSocket, e[u].socket = e[w].socket PROVE u = w
  BY <1>11 DEF OneOwner
<1> QED BY <1>5, <1>8, <1>9, <1>10, <1>11 DEF OneOwner
-----------------------------------------------------------------------------
(* The lists of one state as parts of those of another one.                  *)
LEMMA PartOfItself ==
  ASSUME NEW s \in Seq(Connections), NEW r \in Seq(Connections), Len(r) = Len(s),
         \A i \in 1..Len(s) : r[i].socket = s[i].socket
  PROVE  PartOf(r, s)
<1> DEFINE q == [i \in 1..Len(r) |-> i]
<1>1. q \in [1..Len(r) -> 1..Len(s)] /\ \A i \in 1..Len(r) : q[i] = i
  OBVIOUS
<1> HIDE DEF q
<1> QED BY <1>1 DEF PartOf, PartIn

LEMMA PrefixIsPart ==
  ASSUME NEW s \in Seq(Connections), NEW n \in Nat, n <= Len(s)
  PROVE  /\ SubSeq(s, 1, n) \in Seq(Connections) /\ PartOf(SubSeq(s, 1, n), s)
         /\ Len(SubSeq(s, 1, n)) = n /\ \A i \in 1..n : SubSeq(s, 1, n)[i] = s[i]
<1>1. Len(s) \in Nat /\ \A i \in 1..n : s[i] \in Connections
  BY LenProperties, ElementOfSeq
<1> DEFINE r == SubSeq(s, 1, n)
<1>2. r \in Seq(Connections) /\ Len(r) = n /\ \A i \in 1..n : r[i] = s[i]
  <2>1. r \in Seq(Connections) /\ Len(r) = (IF 1 <= n THEN n - 1 + 1 ELSE 0) /\ \A i \in 1..(n - 1 + 1) : r[i] = s[1 + i - 1]
    BY <1>1, SubSeqProperties
  <2>2. \A i \in 1..n : 1 + i - 1 = i
    OBVIOUS
  <2> HIDE DEF r
  <2> QED BY <2>1, <2>2
<1> HIDE DEF r
<1> DEFINE q == [i \in 1..n |-> i]
<1>3. q \in [1..n -> 1..Len(s)] /\ \A i \in 1..n : q[i] = i
  BY <1>1
<1> HIDE DEF q
<1>4. q \in [1..Len(r) -> 1..Len(s)] /\ \A i \in 1..Len(r) : q[i] = i /\ r[i] = s[i]
  BY <1>2, <1>3
<1>5. PartOf(r, s)
  BY <1>4 DEF PartOf, PartIn
<1> QED BY <1>2, <1>5 DEF r

LEMMA YoungIsPart ==
  ASSUME idle \in Lists
  PROVE  YoungIdle \in Lists /\ \A k \in PoolKeys : PartOf(YoungIdle[k], idle[k])
<1>1. \A k \in PoolKeys : YoungIdle[k] = Kept(idle[k])
  BY DEF YoungIdle
<1>2. \A k \in PoolKeys : Kept(idle[k]) \in Seq(Connections) /\ PartOf(Kept(idle[k]), idle[k])
  BY InLists, KeptIsPart
<1> QED BY <1>1, <1>2 DEF Lists, YoungIdle

LEMMA SameLists == ASSUME NEW I \in Lists PROVE \A k \in PoolKeys : PartOf(I[k], I[k])
BY InLists, PartOfItself
-----------------------------------------------------------------------------
(* A thread holds a connection in two of its steps.                          *)
HeldOK(c) ==
  \A t \in PoolThreads : IF c[t].step \in {"pings", "holds"} THEN c[t].socket \in Sockets ELSE c[t].socket = NoSocket

OwnInv == idle \in Lists /\ ClientOK(client) /\ HeldOK(client) /\ OneOwner(idle, client, dirty)

(* e is c, with another step and connection of t.                            *)
Turned(c, e, t, x, s) ==
  ClientOK(e) /\ e[t].step = x /\ e[t].socket = s /\ \A u \in PoolThreads \ {t} : e[u] = c[u]

LEMMA TurnedStep ==
  ASSUME NEW c, ClientOK(c), NEW t \in PoolThreads, NEW x \in ClientSteps
  PROVE  Turned(c, [c EXCEPT ![t].step = x], t, x, c[t].socket)
<1> DEFINE r == [c[t] EXCEPT !.step = x]
           e == [c EXCEPT ![t] = r]
<1>1. Changed(c, e, t, x, c[t].key)
  BY StepField
<1>2. r.socket = c[t].socket
  <2>1. r = [step |-> x, key |-> c[t].key, socket |-> c[t].socket]
    BY DEF ClientOK
  <2> HIDE DEF r
  <2> QED BY <2>1
<1> HIDE DEF r
<1>3. e[t] = r
  BY DEF ClientOK
<1> QED BY <1>1, <1>2, <1>3 DEF Changed, Turned, r

LEMMA TurnedSocket ==
  ASSUME NEW c, ClientOK(c), NEW t \in PoolThreads, NEW s
  PROVE  Turned(c, [c EXCEPT ![t].socket = s], t, c[t].step, s)
<1> DEFINE r == [c[t] EXCEPT !.socket = s]
           e == [c EXCEPT ![t] = r]
<1>1. Changed(c, e, t, c[t].step, c[t].key)
  BY SocketField
<1>2. r.socket = s
  <2>1. r = [step |-> c[t].step, key |-> c[t].key, socket |-> s]
    BY DEF ClientOK
  <2> HIDE DEF r
  <2> QED BY <2>1
<1> HIDE DEF r
<1>3. e[t] = r
  BY DEF ClientOK
<1> QED BY <1>1, <1>2, <1>3 DEF Changed, Turned, r

LEMMA TurnedKey ==
  ASSUME NEW c, ClientOK(c), NEW t \in PoolThreads, NEW k \in PoolKeys
  PROVE  Turned(c, [c EXCEPT ![t].key = k], t, c[t].step, c[t].socket)
<1> DEFINE r == [c[t] EXCEPT !.key = k]
           e == [c EXCEPT ![t] = r]
<1>1. Changed(c, e, t, c[t].step, k)
  BY KeyField
<1>2. r.socket = c[t].socket
  <2>1. r = [step |-> c[t].step, key |-> k, socket |-> c[t].socket]
    BY DEF ClientOK
  <2> HIDE DEF r
  <2> QED BY <2>1
<1> HIDE DEF r
<1>3. e[t] = r
  BY DEF ClientOK
<1> QED BY <1>1, <1>2, <1>3 DEF Changed, Turned, r

LEMMA TurnedBoth ==
  ASSUME NEW c, ClientOK(c), NEW t \in PoolThreads, NEW x \in ClientSteps, NEW s,
         NEW e, e = [c EXCEPT ![t].step = x, ![t].socket = s]
  PROVE  Turned(c, e, t, x, s)
<1> DEFINE a == [c EXCEPT ![t].step = x]
           b == [a EXCEPT ![t].socket = s]
<1>1. Turned(c, a, t, x, c[t].socket)
  BY TurnedStep
<1>2. e = b
  OBVIOUS
<1> HIDE DEF a
<1>3. ClientOK(a)
  BY <1>1 DEF Turned
<1>4. Turned(a, b, t, a[t].step, s)
  BY <1>3, TurnedSocket
<1> HIDE DEF b
<1> QED BY <1>1, <1>2, <1>4 DEF Turned

LEMMA TurnedHeld ==
  ASSUME NEW c, HeldOK(c), NEW t \in PoolThreads, NEW x, NEW s, NEW e, Turned(c, e, t, x, s),
         IF x \in {"pings", "holds"} THEN s \in Sockets ELSE s = NoSocket
  PROVE  HeldOK(e)
BY DEF HeldOK, Turned
-----------------------------------------------------------------------------
(* The steps of the pool.                                                    *)
LEMMA TurnedWhole ==
  ASSUME NEW c, ClientOK(c), NEW t \in PoolThreads, NEW x \in ClientSteps, NEW k \in PoolKeys, NEW s
  PROVE  Turned(c, [c EXCEPT ![t] = [step |-> x, key |-> k, socket |-> s]], t, x, s)
BY DEF ClientOK, Turned

LEMMA NotifiesSockets ==
  ASSUME ClientOK(client), HeldOK(client), NEW t \in PoolThreads, client[t].step \in Leased, NotifiesOne(t)
  PROVE  /\ ClientOK(client') /\ HeldOK(client') /\ client'[t].socket = NoSocket
         /\ \A u \in PoolThreads \ {t} : client'[u].socket = client[u].socket
<1>0. "out" \in ClientSteps /\ "woken" \in ClientSteps
  BY DEF ClientSteps
<1>1. CASE client' = [client EXCEPT ![t].step = "out", ![t].socket = NoSocket]
  <2>1. Turned(client, client', t, "out", NoSocket)
    BY <1>0, <1>1, TurnedBoth
  <2>2. HeldOK(client')
    BY <2>1, TurnedHeld
  <2> QED BY <2>1, <2>2 DEF Turned
<1>2. ASSUME NEW w \in Asleep, client' = [client EXCEPT ![w].step = "woken", ![t].step = "out", ![t].socket = NoSocket]
      PROVE  /\ ClientOK(client') /\ HeldOK(client') /\ client'[t].socket = NoSocket
             /\ \A u \in PoolThreads \ {t} : client'[u].socket = client[u].socket
  <2>0. w \in PoolThreads /\ w # t /\ client[w].step = "waits"
    BY DEF Asleep, Does, Leased
  <2> DEFINE c == [client EXCEPT ![w].step = "woken"]
  <2>1. Turned(client, c, w, "woken", client[w].socket)
    BY <1>0, <2>0, TurnedStep
  <2>2. client' = [c EXCEPT ![t].step = "out", ![t].socket = NoSocket]
    BY <1>2
  <2> HIDE DEF c
  <2>3. client[w].socket = NoSocket
    BY <2>0 DEF HeldOK
  <2>4. ClientOK(c) /\ HeldOK(c)
    BY <2>0, <2>1, <2>3, TurnedHeld DEF Turned
  <2>5. Turned(c, client', t, "out", NoSocket)
    BY <1>0, <2>2, <2>4, TurnedBoth
  <2>6. HeldOK(client')
    BY <2>4, <2>5, TurnedHeld
  <2> QED BY <2>0, <2>1, <2>5, <2>6 DEF Turned
<1> QED BY <1>1, <1>2 DEF NotifiesOne

LEMMA LeasesOwns ==
  ASSUME OwnInv, NEW t \in PoolThreads, NEW k \in PoolKeys, client[t].step \notin Leased, Leases(t, k)
  PROVE  OwnInv'
<1>0. idle \in Lists /\ ClientOK(client) /\ HeldOK(client) /\ OneOwner(idle, client, dirty) /\ dirty' = dirty
  BY DEF OwnInv, Leases
<1>1. YoungIdle \in Lists /\ \A l \in PoolKeys : PartOf(YoungIdle[l], idle[l])
  BY <1>0, YoungIsPart
<1>2. OneOwner(YoungIdle, client, dirty)
  BY <1>0, <1>1, Thins
<1>s. client[t].socket = NoSocket
  BY <1>0 DEF HeldOK, Leased
<1>3. PICK Y \in Lists : Y = YoungIdle
  BY <1>1
<1>4. PICK s : s = Y[k] /\ s \in Seq(Connections) /\ Len(s) \in Nat /\ DOMAIN s = 1..Len(s)
  BY <1>3, InLists, LenProperties
<1>5. ASSUME NEW r \in Seq(Connections), PartOf(r, s), NEW J, J = [Y EXCEPT ![k] = r]
      PROVE  J \in Lists /\ (\A l \in PoolKeys : PartOf(J[l], Y[l])) /\ J[k] = r
  <2>1. J[k] = r /\ \A l \in PoolKeys \ {k} : J[l] = Y[l]
    BY <1>5 DEF Lists
  <2>2. \A l \in PoolKeys : J[l] \in Seq(Connections) /\ PartOf(J[l], Y[l])
    BY <1>4, <1>5, <2>1, InLists, SameLists
  <2>3. J = [l \in PoolKeys |-> J[l]]
    BY <1>5 DEF Lists
  <2> QED BY <2>1, <2>2, <2>3 DEF Lists
<1>6. CASE /\ idle' = [YoungIdle EXCEPT ![k] = <<>>]
           /\ client' = [client EXCEPT ![t] = [step |-> "opens", key |-> k, socket |-> NoSocket]]
  <2>1. Turned(client, client', t, "opens", NoSocket)
    BY <1>0, <1>6, TurnedWhole DEF ClientSteps
  <2>2. idle' = [Y EXCEPT ![k] = <<>>]
    BY <1>3, <1>6
  <2>r. <<>> \in Seq(Connections) /\ PartOf(<<>>, s)
    <3>1. SubSeq(s, 1, 0) = <<>>
      BY SubSeqEmpty
    <3>2. SubSeq(s, 1, 0) \in Seq(Connections) /\ PartOf(SubSeq(s, 1, 0), s)
      BY <1>4, PrefixIsPart
    <3> QED BY <3>1, <3>2
  <2>3. idle' \in Lists /\ \A l \in PoolKeys : PartOf(idle'[l], Y[l])
    BY <1>5, <2>2, <2>r
  <2>4. \A u \in PoolThreads : client'[u].socket = client[u].socket \/ client'[u].socket = NoSocket
    BY <2>1 DEF Turned
  <2>5. OneOwner(idle', client', dirty')
    BY <1>0, <1>2, <1>3, <2>3, <2>4, Thins
  <2>6. HeldOK(client')
    BY <1>0, <2>1, TurnedHeld
  <2> QED BY <2>1, <2>3, <2>5, <2>6 DEF OwnInv, Turned
<1>7. ASSUME NEW i \in Lendable(k),
             idle' = [YoungIdle EXCEPT ![k] = SubSeq(@, 1, i - 1)],
             client' = [client EXCEPT ![t] = [step |-> IF YoungIdle[k][i].age = 0 THEN "holds" ELSE "pings", key |-> k,
                                              socket |-> YoungIdle[k][i].socket]]
      PROVE  OwnInv'
  <2>1. i \in 1..Len(s) /\ i - 1 \in Nat /\ i - 1 <= Len(s)
    BY <1>3, <1>4 DEF Lendable
  <2>2. PICK x \in {"holds", "pings"} : x = IF YoungIdle[k][i].age = 0 THEN "holds" ELSE "pings"
    OBVIOUS
  <2>3. s[i].socket \in Sockets /\ YoungIdle[k][i].socket = s[i].socket
    BY <1>3, <1>4, <2>1, InLists
  <2>4. client' = [client EXCEPT ![t] = [step |-> x, key |-> k, socket |-> s[i].socket]]
    BY <1>7, <2>2, <2>3
  <2>5. Turned(client, client', t, x, s[i].socket)
    BY <1>0, <2>2, <2>4, TurnedWhole DEF ClientSteps
  <2>r. PICK r \in Seq(Connections) :
          r = SubSeq(s, 1, i - 1) /\ PartOf(r, s) /\ Len(r) = i - 1 /\ \A j \in 1..(i - 1) : r[j] = s[j]
    BY <1>4, <2>1, PrefixIsPart
  <2>6. idle' = [Y EXCEPT ![k] = r]
    BY <1>3, <1>4, <1>7, <2>r
  <2>7. /\ idle' \in Lists /\ \A l \in PoolKeys : PartOf(idle'[l], Y[l])
        /\ idle'[k] = r
    BY <1>5, <2>r, <2>6
  <2>8. ASSUME NEW j \in 1..(i - 1) PROVE s[j].socket # s[i].socket
    <3>1. j \in 1..Len(s) /\ j # i
      BY <1>4, <2>1
    <3> QED BY <1>2, <1>3, <1>4, <2>1, <3>1 DEF OneOwner
  <2>9. \A j \in 1..Len(idle'[k]) : idle'[k][j].socket # Y[k][i].socket
    BY <1>4, <2>r, <2>7, <2>8
  <2>10. OneOwner(idle', client', dirty)
    <3>1. client'[t].socket = Y[k][i].socket /\ \A u \in PoolThreads \ {t} : client'[u] = client[u]
      BY <1>4, <2>5 DEF Turned
    <3>2. i \in 1..Len(Y[k]) /\ OneOwner(Y, client, dirty)
      BY <1>2, <1>3, <1>4, <2>1
    <3> QED BY <3>1, <3>2, <2>7, <2>9, Lends
  <2>11. HeldOK(client')
    BY <1>0, <2>3, <2>5, TurnedHeld
  <2> QED BY <1>0, <2>5, <2>7, <2>10, <2>11 DEF OwnInv, Turned
<1> QED BY <1>6, <1>7 DEF Leases

LEMMA OwnInvStarts == PoolInit => OwnInv
<1> SUFFICES ASSUME PoolInit PROVE OwnInv
  OBVIOUS
<1>1. ClientOK(client)
  BY PoolInvStarts DEF PoolInv
<1>2. \A t \in PoolThreads : client[t].step = "out" /\ client[t].socket = NoSocket
  <2> DEFINE k0 == CHOOSE k \in PoolKeys : TRUE
  <2>1. client \in [PoolThreads -> [step : {"out"}, key : {k0}, socket : {NoSocket}]]
    BY DEF PoolInit
  <2> HIDE DEF k0
  <2> QED BY <2>1
<1>3. HeldOK(client)
  BY <1>2 DEF HeldOK
<1>4. idle \in Lists /\ \A k \in PoolKeys : 1..Len(idle[k]) = {}
  <2>1. <<>> \in Seq(Connections) /\ Len(<<>>) = 0
    BY EmptySeq
  <2> QED BY <2>1 DEF PoolInit, Lists
<1> QED BY <1>1, <1>2, <1>3, <1>4 DEF OwnInv, OneOwner, PoolInit

LEMMA OwnInvSteps == OwnInv /\ [PoolNext]_poolVars => OwnInv'
<1> SUFFICES ASSUME OwnInv, [PoolNext]_poolVars PROVE OwnInv'
  OBVIOUS
<1>0. /\ idle \in Lists /\ ClientOK(client) /\ HeldOK(client) /\ OneOwner(idle, client, dirty)
      /\ {"out", "waits", "woken", "holds", "opens"} \subseteq ClientSteps /\ NoSocket \notin Sockets
  BY PoolAssumption DEF OwnInv, ClientSteps
<1>k. \A t \in PoolThreads : client[t].key \in PoolKeys
  BY <1>0 DEF ClientOK
<1>s. \A t \in PoolThreads : client[t].step \notin {"pings", "holds"} => client[t].socket = NoSocket
  BY <1>0 DEF HeldOK
<1>p. \A k \in PoolKeys : PartOf(idle[k], idle[k])
  BY <1>0, SameLists
(* A step of t that leaves the lists alone, and takes t's connection if any. *)
<1>g. ASSUME NEW t \in PoolThreads, NEW x \in ClientSteps, NEW s \in {client[t].socket, NoSocket},
             Turned(client, client', t, x, s), UNCHANGED <<idle, dirty>>,
             IF x \in {"pings", "holds"} THEN s \in Sockets ELSE s = NoSocket
      PROVE  OwnInv'
  <2>1. \A u \in PoolThreads : client'[u].socket = client[u].socket \/ client'[u].socket = NoSocket
    BY <1>g DEF Turned
  <2>2. OneOwner(idle, client', dirty)
    BY <1>0, <1>p, <2>1, Thins
  <2>3. HeldOK(client')
    BY <1>0, <1>g, TurnedHeld
  <2> QED BY <1>0, <1>g, <2>2, <2>3 DEF OwnInv, Turned
<1>1. ASSUME NEW t \in PoolThreads, NEW k \in PoolKeys, Acquire(t, k) PROVE OwnInv'
  <2>1. client[t].step = "out" /\ client[t].step \notin Leased /\ client[t].socket = NoSocket
    BY <1>1, <1>s DEF Acquire, Does, Leased
  <2>2. CASE Leases(t, k)
    BY <2>1, <2>2, LeasesOwns
  <2>3. CASE UNCHANGED <<idle, dirty>> /\ client' = [client EXCEPT ![t].step = "waits", ![t].key = k]
    <3> DEFINE c == [client EXCEPT ![t].step = "waits"]
    <3>1. Turned(client, c, t, "waits", NoSocket)
      BY <1>0, <2>1, TurnedStep
    <3>2. client' = [c EXCEPT ![t].key = k]
      BY <2>3
    <3> HIDE DEF c
    <3>3. Turned(c, client', t, c[t].step, c[t].socket)
      <4>1. ClientOK(c)
        BY <3>1 DEF Turned
      <4> QED BY <4>1, <3>2, TurnedKey
    <3>4. Turned(client, client', t, "waits", NoSocket)
      BY <3>1, <3>3 DEF Turned
    <3> QED BY <1>0, <1>g, <2>3, <3>4
  <2> QED BY <1>1, <2>2, <2>3 DEF Acquire
<1>2. ASSUME NEW t \in PoolThreads, LooksAgain(t) \/ WaitEnds(t) PROVE OwnInv'
  <2>1. client[t].step \notin Leased /\ client[t].socket = NoSocket
    BY <1>2, <1>s DEF LooksAgain, WaitEnds, Does, Leased
  <2>2. CASE Leases(t, client[t].key)
    BY <1>k, <2>1, <2>2, LeasesOwns
  <2>3. ASSUME NEW x \in {"waits", "out"}, UNCHANGED <<idle, dirty>>, client' = [client EXCEPT ![t].step = x]
        PROVE  OwnInv'
    <3>1. Turned(client, client', t, x, NoSocket)
      BY <1>0, <2>1, <2>3, TurnedStep
    <3> QED BY <1>0, <1>g, <2>3, <3>1
  <2> QED BY <1>2, <2>2, <2>3 DEF LooksAgain, WaitEnds
<1>3. ASSUME NEW t \in PoolThreads, Ping(t) PROVE OwnInv'
  <2>1. client[t].step = "pings" /\ UNCHANGED <<idle, dirty>>
    BY <1>3 DEF Ping, Does
  <2>2. client[t].socket \in Sockets
    BY <1>0, <2>1 DEF HeldOK
  <2>3. CASE client' = [client EXCEPT ![t].step = "holds"]
    <3>1. Turned(client, client', t, "holds", client[t].socket)
      BY <1>0, <2>3, TurnedStep
    <3> QED BY <1>0, <1>g, <2>1, <2>2, <3>1
  <2>4. CASE client' = [client EXCEPT ![t].step = "opens", ![t].socket = NoSocket]
    <3>1. Turned(client, client', t, "opens", NoSocket)
      BY <1>0, <2>4, TurnedBoth
    <3> QED BY <1>0, <1>g, <2>1, <3>1
  <2> QED BY <1>3, <2>3, <2>4 DEF Ping
<1>4. ASSUME NEW t \in PoolThreads, OpenClient(t) PROVE OwnInv'
  <2>1. PICK s \in Sockets \ OpenSockets :
          client' = [client EXCEPT ![t].step = "holds", ![t].socket = s] /\ dirty' = dirty \ {s} /\ idle' = idle
    BY <1>4 DEF OpenClient
  <2>2. Turned(client, client', t, "holds", s)
    BY <1>0, <2>1, TurnedBoth
  <2>3. (\A u \in PoolThreads : client[u].socket # s) /\ \A k \in PoolKeys : \A i \in 1..Len(idle[k]) : idle[k][i].socket # s
    <3>1. \A k \in PoolKeys : DOMAIN idle[k] = 1..Len(idle[k])
      BY <1>0, InLists, LenProperties
    <3>2. ASSUME NEW u \in PoolThreads, client[u].socket = s PROVE s \in OpenSockets
      <4>1. s # NoSocket /\ s \in {client[w].socket : w \in PoolThreads}
        BY <1>0, <3>2
      <4> QED BY <4>1 DEF OpenSockets
    <3>3. ASSUME NEW k \in PoolKeys, NEW i \in 1..Len(idle[k]) PROVE idle[k][i].socket \in OpenSockets
      <4>1. idle[k][i].socket \in IdleSockets(k)
        BY <3>1 DEF IdleSockets
      <4>2. idle[k][i].socket # NoSocket
        BY <1>0, InLists
      <4> QED BY <4>1, <4>2 DEF OpenSockets
    <3> QED BY <3>2, <3>3
  <2>4. OneOwner(idle, client', dirty \ {s})
    BY <1>0, <2>2, <2>3, Opens DEF Turned
  <2>5. HeldOK(client')
    BY <1>0, <2>2, TurnedHeld
  <2> QED BY <1>0, <2>1, <2>2, <2>4, <2>5 DEF OwnInv, Turned
<1>5. ASSUME NEW t \in PoolThreads, OpenFails(t) \/ Release(t) PROVE OwnInv'
  <2>1. client[t].step \in Leased /\ NotifiesOne(t) /\ UNCHANGED dirty
    BY <1>5 DEF OpenFails, Release, Does, Leased
  <2>2. /\ ClientOK(client') /\ HeldOK(client') /\ client'[t].socket = NoSocket
        /\ \A u \in PoolThreads \ {t} : client'[u].socket = client[u].socket
    BY <1>0, <2>1, NotifiesSockets
  <2>3. CASE UNCHANGED idle
    <3>1. OneOwner(idle, client', dirty)
      BY <1>0, <1>p, <2>2, Thins
    <3> QED BY <1>0, <2>1, <2>2, <2>3, <3>1 DEF OwnInv
  <2>4. CASE /\ Release(t) /\ Returnable(t)
             /\ idle' = [idle EXCEPT ![client[t].key] = Append(@, [socket |-> client[t].socket, age |-> 0])]
    <3>1. client[t].socket \in Sockets \ dirty
      BY <1>0, <2>4 DEF Release, Returnable, Does, HeldOK
    <3>2. idle' \in Lists /\ OneOwner(idle', client', dirty)
      <4>1. PICK k \in PoolKeys : k = client[t].key
        BY <1>k
      <4>2. idle' = [idle EXCEPT ![k] = Append(@, [socket |-> client[t].socket, age |-> 0])]
        BY <2>4, <4>1
      <4>3. idle' \in Lists /\ OneOwner(idle', client', dirty)
        <5>1. PICK J : J = idle'
          OBVIOUS
        <5>2. J = [idle EXCEPT ![k] = Append(@, [socket |-> client[t].socket, age |-> 0])]
          BY <4>2, <5>1
        <5>3. PICK e : e = client'
          OBVIOUS
        <5>4. /\ client[t].socket \in Sockets \ dirty /\ e[t].socket = NoSocket
              /\ \A u \in PoolThreads \ {t} : e[u].socket = client[u].socket
          BY <2>2, <3>1, <5>3
        <5>5. idle \in Lists /\ OneOwner(idle, client, dirty)
          BY <1>0
        <5>6. J \in Lists /\ OneOwner(J, e, dirty)
          BY <5>2, <5>4, <5>5, Returns
        <5> QED BY <2>1, <5>1, <5>3, <5>6
      <4> QED BY <2>1, <4>3
    <3> QED BY <2>1, <2>2, <3>2 DEF OwnInv
  <2> QED BY <1>5, <2>3, <2>4 DEF OpenFails, Release
<1>6. ASSUME NEW t \in PoolThreads, MarkDirty(t) PROVE OwnInv'
  <2>1. dirty' = dirty \cup {client[t].socket} /\ UNCHANGED <<idle, client>>
    BY <1>6 DEF MarkDirty
  <2>2. \A x \in dirty' : x \in dirty \/ \E u \in PoolThreads : client[u].socket = x
    BY <2>1
  <2>3. OneOwner(idle, client, dirty')
    BY <1>0, <1>p, <2>2, Thins
  <2> QED BY <1>0, <2>1, <2>3 DEF OwnInv
<1>7. ASSUME idle' \in Lists, \A k \in PoolKeys : PartOf(idle'[k], idle[k]), UNCHANGED <<client, dirty>> PROVE OwnInv'
  <2>1. OneOwner(idle', client, dirty)
    BY <1>0, <1>7, Thins
  <2> QED BY <1>0, <1>7, <2>1 DEF OwnInv
<1>8. CASE ReapIdle
  BY <1>0, <1>7, <1>8, YoungIsPart DEF ReapIdle
<1>9. CASE IdleTime
  <2>1. \A k \in PoolKeys : idle'[k] = [i \in DOMAIN idle[k] |-> [idle[k][i] EXCEPT !.age = IF @ = 2 THEN 2 ELSE @ + 1]]
    BY <1>9 DEF IdleTime
  <2>2. ASSUME NEW k \in PoolKeys PROVE idle'[k] \in Seq(Connections) /\ PartOf(idle'[k], idle[k])
    <3>1. PICK n \in Nat : n = Len(idle[k]) /\ DOMAIN idle[k] = 1..n /\ \A i \in 1..n : idle[k][i] \in Connections
      BY <1>0, InLists, LenProperties, ElementOfSeq
    <3>2. ASSUME NEW c \in Connections
          PROVE  [c EXCEPT !.age = IF @ = 2 THEN 2 ELSE @ + 1] \in Connections
                 /\ [c EXCEPT !.age = IF @ = 2 THEN 2 ELSE @ + 1].socket = c.socket
      BY DEF Connections
    <3>3. idle'[k] \in [1..n -> Connections] /\ \A i \in 1..n : idle'[k][i].socket = idle[k][i].socket
      <4>1. PICK f : f = idle'[k]
        OBVIOUS
      <4>2. f = [i \in 1..n |-> [idle[k][i] EXCEPT !.age = IF @ = 2 THEN 2 ELSE @ + 1]]
        BY <2>1, <3>1, <4>1
      <4>3. \A i \in 1..n : f[i] \in Connections /\ f[i].socket = idle[k][i].socket
        <5> TAKE i \in 1..n
        <5>1. PICK c \in Connections : c = idle[k][i]
          BY <3>1
        <5>2. f[i] = [c EXCEPT !.age = IF @ = 2 THEN 2 ELSE @ + 1]
          BY <4>2, <5>1
        <5> QED BY <3>2, <5>1, <5>2
      <4>4. f = [i \in 1..n |-> f[i]]
        BY <4>2
      <4> QED BY <4>1, <4>3, <4>4
    <3>4. idle'[k] \in Seq(Connections) /\ Len(idle'[k]) = n
      BY <3>3
    <3> QED BY <1>0, <3>1, <3>3, <3>4, InLists, PartOfItself
  <2>3. idle' \in Lists
    BY <1>9, <2>2 DEF IdleTime, Lists
  <2> QED BY <1>7, <1>9, <2>2, <2>3 DEF IdleTime
<1>10. CASE UNCHANGED poolVars
  BY <1>0, <1>10 DEF poolVars, OwnInv
<1> QED BY <1>1, <1>2, <1>3, <1>4, <1>5, <1>6, <1>8, <1>9, <1>10 DEF PoolNext

(* SocketsHaveOneOwner: a connection is in one list at one place, or one     *)
(* thread has it, and a marked one is never idle, for any number of hosts,   *)
(* threads, connections and any limits.                                      *)
THEOREM OneOwnerAlways == PoolSpec => []SocketsHaveOneOwner
<1>1. ASSUME OwnInv PROVE SocketsHaveOneOwner
  <2>1. \A k \in PoolKeys : DOMAIN idle[k] = 1..Len(idle[k])
    BY <1>1, InLists, LenProperties DEF OwnInv
  <2>2. OneOwner(idle, client, dirty)
    BY <1>1 DEF OwnInv
  <2>3. ASSUME NEW t \in PoolThreads, client[t].socket # NoSocket
        PROVE  /\ \A u \in PoolThreads \ {t} : client[u].socket # client[t].socket
               /\ \A k \in PoolKeys : client[t].socket \notin IdleSockets(k)
    BY <2>1, <2>2, <2>3 DEF OneOwner, IdleSockets
  <2>4. ASSUME NEW k \in PoolKeys, NEW l \in PoolKeys, NEW i \in DOMAIN idle[k], NEW j \in DOMAIN idle[l],
               idle[k][i].socket = idle[l][j].socket
        PROVE  k = l /\ i = j
    BY <2>1, <2>2, <2>4 DEF OneOwner
  <2>5. ASSUME NEW k \in PoolKeys PROVE IdleSockets(k) \cap dirty = {}
    BY <2>1, <2>2 DEF OneOwner, IdleSockets
  <2> QED BY <2>3, <2>4, <2>5 DEF SocketsHaveOneOwner
<1> QED BY <1>1, OwnInvStarts, OwnInvSteps, PTL DEF PoolSpec
-----------------------------------------------------------------------------
(* The flush gate.                                                           *)

Steps    == {"away", "asks", "waits", "flushes", "flushed", "failed", "told"}
FlushOf  == [step : Steps, logs : SUBSET Logs, needed : Nat, started : Nat]

GateTypes ==
  /\ clock \in Nat
  /\ flusher \in [Flushers -> FlushOf]
  /\ covered \in [Logs -> Nat] /\ written \in [Logs -> Nat]

(* No moment is in the future.  A log was written at the latest flush that   *)
(* counts for it, or later.                                                  *)
FlushMoments ==
  /\ \A t \in Flushers : flusher[t].started <= clock /\ flusher[t].needed <= clock
  /\ \A l \in Logs : covered[l] <= written[l] /\ written[l] <= clock

(* What each thread knows of its own flush, and of the flush that another    *)
(* ran for it.                                                               *)
Knows(t) ==
  /\ Flusher(t, "told") => \A l \in flusher[t].logs : written[l] >= flusher[t].needed
  /\ flusher[t].step \in {"flushes", "flushed"} => flusher[t].needed <= flusher[t].started
  /\ Flusher(t, "flushed") => \A l \in flusher[t].logs : written[l] >= flusher[t].started

GateInv == GateTypes /\ FlushMoments /\ \A t \in Flushers : Knows(t)
-----------------------------------------------------------------------------
LEMMA GateInvStarts == FlushInit => GateInv
BY DEF FlushInit, GateInv, GateTypes, FlushMoments, Knows, Away, FlushOf, Steps, Flusher

(* A thread whose own record stays keeps what it knows, because logs are     *)
(* only ever written later.                                                  *)
LEMMA KnowsStays ==
  ASSUME NEW t \in Flushers, GateInv, GateTypes', Knows(t),
         flusher'[t] = flusher[t], \A l \in Logs : written'[l] >= written[l]
  PROVE  Knows(t)'
<1>1. /\ flusher[t] \in FlushOf /\ flusher[t].logs \subseteq Logs
      /\ flusher[t].needed \in Nat /\ flusher[t].started \in Nat
  BY DEF GateInv, GateTypes, FlushOf
<1>2. \A l \in Logs : written[l] \in Nat /\ written'[l] \in Nat
  BY DEF GateInv, GateTypes
<1> QED BY <1>1, <1>2 DEF Knows, Flusher

(* A record of a thread that starts a flush, field by field.                 *)
LEMMA StartedRecord ==
  ASSUME NEW f \in FlushOf, NEW m \in Nat
  PROVE  LET g == [[f EXCEPT !.step = "flushes"] EXCEPT !.started = m]
         IN  g \in FlushOf /\ g.step = "flushes" /\ g.started = m /\ g.needed = f.needed
<1>1. ASSUME NEW e \in FlushOf
      PROVE  LET g == [e EXCEPT !.started = m]
             IN  g \in FlushOf /\ g.step = e.step /\ g.started = m /\ g.needed = e.needed
  BY DEF FlushOf
<1>2. LET e == [f EXCEPT !.step = "flushes"]
      IN  e \in FlushOf /\ e.step = "flushes" /\ e.needed = f.needed
  BY DEF FlushOf, Steps
<1> QED BY <1>1, <1>2

LEMMA GateInvSteps == GateInv /\ [FlushNext]_gateVars => GateInv'
<1> SUFFICES ASSUME GateInv, [FlushNext]_gateVars PROVE GateInv'
  OBVIOUS
<1>t. GateTypes /\ FlushMoments /\ \A t \in Flushers : Knows(t)
  BY DEF GateInv
<1>f. \A t \in Flushers : /\ flusher[t] \in FlushOf /\ flusher[t].logs \subseteq Logs
                          /\ flusher[t].needed \in Nat /\ flusher[t].started \in Nat
  BY <1>t DEF GateTypes, FlushOf
<1>l. \A l \in Logs : covered[l] \in Nat /\ written[l] \in Nat
  BY <1>t DEF GateTypes
<1>1. ASSUME NEW t \in Flushers, NEW logs \in SUBSET Logs, Needs(t, logs) PROVE GateInv'
  <2>1. GateTypes'
    <3>1. [step |-> "asks", logs |-> logs, needed |-> clock', started |-> 0] \in FlushOf
      BY <1>1, <1>t DEF Needs, GateTypes, FlushOf, Steps
    <3> QED BY <3>1, <1>1, <1>t DEF Needs, GateTypes
  <2>2. FlushMoments'
    BY <2>1, <1>1, <1>t, <1>f, <1>l DEF Needs, FlushMoments, GateTypes
  <2>3. ASSUME NEW u \in Flushers PROVE Knows(u)'
    <3>1. CASE u = t
      BY <3>1, <1>1, <1>t DEF Needs, Knows, Flusher, GateTypes
    <3>2. CASE u # t
      BY <3>2, <2>1, <1>1, <1>t, <1>l, KnowsStays DEF Needs, GateTypes
    <3> QED BY <3>1, <3>2
  <2> QED BY <2>1, <2>2, <2>3 DEF GateInv
<1>2. ASSUME NEW t \in Flushers, LooksForFlush(t) PROVE GateInv'
  <2>1. CASE Covered(t) /\ Becomes(t, "told") /\ UNCHANGED <<clock, inFlight>>
    <3>1. GateTypes'
      BY <2>1, <1>2, <1>t, <1>f DEF LooksForFlush, Becomes, GateTypes, FlushOf, Steps
    <3>2. FlushMoments'
      BY <3>1, <2>1, <1>2, <1>t, <1>f DEF LooksForFlush, Becomes, FlushMoments, GateTypes
    <3>3. ASSUME NEW u \in Flushers PROVE Knows(u)'
      <4>1. CASE u = t
        <5>1. \A l \in flusher[t].logs : written[l] >= flusher[t].needed
          BY <2>1, <1>t, <1>f, <1>l DEF Covered, FlushMoments
        <5> QED BY <4>1, <5>1, <2>1, <1>2, <1>t DEF LooksForFlush, Becomes, Knows, Flusher, GateTypes
      <4>2. CASE u # t
        BY <4>2, <3>1, <2>1, <1>2, <1>t, <1>l, KnowsStays DEF LooksForFlush, Becomes, GateTypes
      <4> QED BY <4>1, <4>2
    <3> QED BY <3>1, <3>2, <3>3 DEF GateInv
  <2>2. CASE Becomes(t, "waits") /\ UNCHANGED <<clock, inFlight>>
    <3>1. GateTypes'
      BY <2>2, <1>2, <1>t, <1>f DEF LooksForFlush, Becomes, GateTypes, FlushOf, Steps
    <3>2. FlushMoments'
      BY <3>1, <2>2, <1>2, <1>t, <1>f DEF LooksForFlush, Becomes, FlushMoments, GateTypes
    <3>3. ASSUME NEW u \in Flushers PROVE Knows(u)'
      <4>1. CASE u = t
        BY <4>1, <2>2, <1>2, <1>t DEF LooksForFlush, Becomes, Knows, Flusher, GateTypes
      <4>2. CASE u # t
        BY <4>2, <3>1, <2>2, <1>2, <1>t, <1>l, KnowsStays DEF LooksForFlush, Becomes, GateTypes
      <4> QED BY <4>1, <4>2
    <3> QED BY <3>1, <3>2, <3>3 DEF GateInv
  <2>3. CASE /\ clock' = clock + 1
             /\ flusher' = [flusher EXCEPT ![t].step = "flushes", ![t].started = clock']
    <3> DEFINE mine == [[flusher[t] EXCEPT !.step = "flushes"] EXCEPT !.started = clock + 1]
    <3>0. mine \in FlushOf /\ mine.step = "flushes" /\ mine.started = clock + 1 /\ mine.needed = flusher[t].needed
      <4>1. flusher[t] \in FlushOf /\ clock + 1 \in Nat
        BY <1>f, <1>t DEF GateTypes
      <4> QED BY <4>1, StartedRecord, Zenon
    <3> HIDE DEF mine
    <3>00. /\ flusher' = [flusher EXCEPT ![t] = mine]
           /\ covered' = covered /\ written' = written
      <4>1. flusher' = [flusher EXCEPT ![t] = mine]
        BY <2>3, <1>t DEF GateTypes, mine
      <4>2. covered' = covered /\ written' = written
        BY <1>2 DEF LooksForFlush
      <4> QED BY <4>1, <4>2
    <3>1. GateTypes'
      BY <3>0, <3>00, <2>3, <1>t DEF GateTypes
    <3>2. FlushMoments'
      BY <3>0, <3>00, <2>3, <1>t, <1>f, <1>l DEF FlushMoments, GateTypes
    <3>3. ASSUME NEW u \in Flushers PROVE Knows(u)'
      <4>1. CASE u = t
        <5>1. /\ flusher'[u].step = "flushes" /\ flusher'[u].started = clock + 1
              /\ flusher'[u].needed = flusher[t].needed
          BY <4>1, <3>0, <3>00, <1>t DEF GateTypes
        <5>2. flusher[t].needed <= clock + 1
          BY <1>t, <1>f DEF FlushMoments, GateTypes
        <5> QED BY <5>1, <5>2 DEF Knows, Flusher
      <4>2. CASE u # t
        BY <4>2, <3>1, <3>00, <1>t, <1>l, KnowsStays DEF GateTypes
      <4> QED BY <4>1, <4>2
    <3> QED BY <3>1, <3>2, <3>3 DEF GateInv
  <2> QED BY <2>1, <2>2, <2>3, <1>2 DEF LooksForFlush
<1>3. ASSUME NEW t \in Flushers, ServerFlushes(t) PROVE GateInv'
  <2>0. clock' = clock /\ covered' = covered /\ Flusher(t, "flushes") /\ flusher[t].started <= clock
    BY <1>3, <1>t DEF ServerFlushes, FlushMoments
  <2>1. CASE Becomes(t, "flushed") /\ written' = [l \in Logs |-> IF l \in flusher[t].logs THEN clock ELSE written[l]]
    <3>1. GateTypes'
      BY <2>0, <2>1, <1>t, <1>f, <1>l DEF Becomes, GateTypes, FlushOf, Steps
    <3>2. \A l \in Logs : written'[l] >= written[l] /\ written'[l] <= clock
      BY <2>1, <1>t, <1>l DEF FlushMoments, GateTypes
    <3>3. \A u \in Flushers : flusher'[u].started = flusher[u].started /\ flusher'[u].needed = flusher[u].needed
      BY <2>1, <1>t DEF Becomes, GateTypes
    <3>4. FlushMoments'
      BY <2>0, <3>1, <3>2, <3>3, <1>t, <1>f, <1>l DEF FlushMoments, GateTypes
    <3>5. ASSUME NEW u \in Flushers PROVE Knows(u)'
      <4>1. CASE u = t
        <5>1. \A l \in flusher[t].logs : written'[l] = clock
          BY <2>1, <1>f
        <5>2. /\ flusher'[u].step = "flushed" /\ flusher'[u].logs = flusher[t].logs
              /\ flusher'[u].started = flusher[t].started /\ flusher'[u].needed = flusher[t].needed
          BY <4>1, <2>1, <1>t DEF Becomes, GateTypes
        <5>3. flusher[t].needed <= flusher[t].started
          BY <2>0, <1>t DEF Knows, Flusher
        <5>4. \A l \in flusher'[u].logs : written'[l] >= flusher'[u].started
          BY <5>1, <5>2, <2>0, <1>f, <1>t DEF GateTypes
        <5> QED BY <5>2, <5>3, <5>4 DEF Knows, Flusher
      <4>2. CASE u # t
        BY <4>2, <3>1, <3>2, <2>1, <1>t, KnowsStays DEF Becomes, GateTypes
      <4> QED BY <4>1, <4>2
    <3> QED BY <3>1, <3>4, <3>5 DEF GateInv
  <2>2. CASE Becomes(t, "failed") /\ UNCHANGED written
    <3>1. GateTypes'
      BY <2>0, <2>2, <1>t, <1>f DEF Becomes, GateTypes, FlushOf, Steps
    <3>2. \A u \in Flushers : flusher'[u].started = flusher[u].started /\ flusher'[u].needed = flusher[u].needed
      BY <2>2, <1>t DEF Becomes, GateTypes
    <3>3. FlushMoments'
      BY <2>0, <2>2, <3>2, <1>t DEF FlushMoments, GateTypes
    <3>4. ASSUME NEW u \in Flushers PROVE Knows(u)'
      <4>1. CASE u = t
        <5>1. flusher'[u].step = "failed"
          BY <4>1, <2>2, <1>t DEF Becomes, GateTypes
        <5> QED BY <5>1 DEF Knows, Flusher
      <4>2. CASE u # t
        BY <4>2, <3>1, <2>2, <1>t, <1>l, KnowsStays DEF Becomes, GateTypes
      <4> QED BY <4>1, <4>2
    <3> QED BY <3>1, <3>3, <3>4 DEF GateInv
  <2> QED BY <2>1, <2>2, <1>3 DEF ServerFlushes
<1>4. ASSUME NEW t \in Flushers, FlushEnds(t) PROVE GateInv'
  <2>1. CASE Flusher(t, "flushed") /\ Becomes(t, "told") /\ covered' = [l \in Logs |-> IF l \in flusher[t].logs THEN MomentOfFlush(t) ELSE covered[l]]
    <3>1. GateTypes'
      BY <2>1, <1>4, <1>t, <1>f, <1>l DEF FlushEnds, Becomes, MomentOfFlush, GateTypes, FlushOf, Steps
    <3>2. FlushMoments'
      BY <3>1, <2>1, <1>4, <1>t, <1>f, <1>l DEF FlushEnds, Becomes, MomentOfFlush, FlushMoments, GateTypes, Knows
    <3>3. ASSUME NEW u \in Flushers PROVE Knows(u)'
      <4>1. CASE u = t
        <5>1. \A l \in flusher[t].logs : written[l] >= flusher[t].needed
          BY <2>1, <1>t, <1>f, <1>l DEF Knows, Flusher
        <5> QED BY <4>1, <5>1, <2>1, <1>4, <1>t DEF FlushEnds, Becomes, Knows, Flusher, GateTypes
      <4>2. CASE u # t
        BY <4>2, <3>1, <2>1, <1>4, <1>t, <1>l, KnowsStays DEF FlushEnds, Becomes, GateTypes
      <4> QED BY <4>1, <4>2
    <3> QED BY <3>1, <3>2, <3>3 DEF GateInv
  <2>2. CASE flusher' = [flusher EXCEPT ![t] = Away] /\ UNCHANGED covered
    <3>1. GateTypes'
      BY <2>2, <1>4, <1>t DEF FlushEnds, Away, GateTypes, FlushOf, Steps
    <3>2. FlushMoments'
      BY <3>1, <2>2, <1>4, <1>t DEF FlushEnds, Away, FlushMoments, GateTypes
    <3>3. ASSUME NEW u \in Flushers PROVE Knows(u)'
      <4>1. CASE u = t
        BY <4>1, <2>2, <1>t DEF Away, Knows, Flusher, GateTypes
      <4>2. CASE u # t
        BY <4>2, <3>1, <2>2, <1>4, <1>t, <1>l, KnowsStays DEF FlushEnds, GateTypes
      <4> QED BY <4>1, <4>2
    <3> QED BY <3>1, <3>2, <3>3 DEF GateInv
  <2> QED BY <2>1, <2>2, <1>4 DEF FlushEnds
<1>5. ASSUME NEW t \in Flushers, Leaves(t) PROVE GateInv'
  <2>1. GateTypes'
    BY <1>5, <1>t DEF Leaves, Away, GateTypes, FlushOf, Steps
  <2>2. FlushMoments'
    BY <2>1, <1>5, <1>t DEF Leaves, Away, FlushMoments, GateTypes
  <2>3. ASSUME NEW u \in Flushers PROVE Knows(u)'
    <3>1. CASE u = t
      BY <3>1, <1>5, <1>t DEF Leaves, Away, Knows, Flusher, GateTypes
    <3>2. CASE u # t
      BY <3>2, <2>1, <1>5, <1>t, <1>l, KnowsStays DEF Leaves, GateTypes
    <3> QED BY <3>1, <3>2
  <2> QED BY <2>1, <2>2, <2>3 DEF GateInv
<1>6. CASE UNCHANGED gateVars
  BY <1>6, <1>t DEF gateVars, GateInv, GateTypes, FlushMoments, Knows, Flusher
<1> QED BY <1>1, <1>2, <1>3, <1>4, <1>5, <1>6 DEF FlushNext

(* RowsAreWritten: whoever is told that the logs are flushed finds the rows  *)
(* that it needed, for any number of threads, logs and moments.              *)
THEOREM ToldMeansWritten == FlushSpec => []RowsAreWritten
<1>1. GateInv => RowsAreWritten
  BY DEF GateInv, RowsAreWritten, Knows
<1> QED BY <1>1, GateInvStarts, GateInvSteps, PTL DEF FlushSpec

-----------------------------------------------------------------------------
(* The block encoder.                                                        *)

Holding  == encoder.step \in {"tells", "encodes"}
Held     == IF Holding THEN 1 ELSE 0
Receives == {"receives", "submits", "asleep", "drains", "drops"}
Left     == {"joins", "joins_error", "finished", "threw"}

EncoderTypes ==
  /\ blocks \in Seq(Nat) /\ output \in Seq(Nat) /\ Len(blocks) <= QueueDepth
  /\ receiver \in [step : Receives \cup Left, sent : Nat]
  /\ encoder \in [step : {"looks", "asleep", "tells", "encodes", "tells_error", "ended"}, block : Nat]
  /\ failed \in BOOLEAN /\ closing \in BOOLEAN /\ revoked \in BOOLEAN

(* Block by block: those that are encoded, the one that the thread has, and  *)
(* those that wait follow each other, up to the last one that was submitted, *)
(* unless an error or a failed statement drops them.                         *)
InOrder ==
  /\ \A i \in 1..Len(output) : output[i] = i
  /\ Holding => encoder.block = Len(output) + 1
  /\ \A i \in 1..Len(blocks) : blocks[i] = Len(output) + Held + i
  /\ ~failed /\ receiver.step \notin {"joins_error", "threw"} => Len(output) + Held + Len(blocks) = receiver.sent

(* Where each thread can be beside the other.                                *)
Beside ==
  /\ failed => encoder.step \in {"tells_error", "ended"}
  /\ encoder.step = "tells_error" => failed
  /\ failed => blocks = <<>>
  /\ encoder.step = "ended" /\ ~failed => blocks = <<>> /\ closing
  /\ closing => receiver.step \in Left
  /\ receiver.step = "finished" => encoder.step = "ended" /\ ~failed
  /\ receiver.step = "asleep" =>
       encoder.step \in {"tells", "tells_error"} \/ (encoder.step \in {"looks", "encodes"} /\ ~failed /\ Len(blocks) = QueueDepth)
  /\ encoder.step = "asleep" => blocks = <<>> /\ ~closing

EncoderInv == EncoderTypes /\ InOrder /\ Beside

-----------------------------------------------------------------------------
(* Sequences of blocks: the empty one, one with a block more, and one        *)
(* without its first.                                                        *)
LEMMA NoBlocks == <<>> \in Seq(Nat) /\ Len(<<>>) = 0 /\ (\A i \in 1..Len(<<>>) : FALSE)
<1>1. Len(<<>>) = 0
  OBVIOUS
<1> QED BY <1>1

LEMMA LastIndex ==
  ASSUME NEW n \in Nat, NEW i \in 1..(n + 1)
  PROVE  i \in Nat /\ (i \in 1..n \/ i = n + 1)
OBVIOUS

LEMMA Appended ==
  ASSUME NEW s \in Seq(Nat), NEW n \in Nat
  PROVE  /\ Append(s, n) \in Seq(Nat) /\ Len(Append(s, n)) = Len(s) + 1
         /\ \A i \in 1..Len(s) : Append(s, n)[i] = s[i]
         /\ Append(s, n)[Len(s) + 1] = n
OBVIOUS

LEMMA Taken ==
  ASSUME NEW s \in Seq(Nat), s # <<>>
  PROVE  /\ Tail(s) \in Seq(Nat) /\ Len(s) \in Nat /\ Len(s) > 0 /\ Len(Tail(s)) = Len(s) - 1
         /\ Head(s) = s[1] /\ Head(s) \in Nat
         /\ \A i \in 1..Len(Tail(s)) : Tail(s)[i] = s[i + 1]
OBVIOUS

-----------------------------------------------------------------------------
LEMMA EncoderInvStarts == EncoderInit => EncoderInv
<1> SUFFICES ASSUME EncoderInit PROVE EncoderInv
  OBVIOUS
<1>1. /\ blocks = <<>> /\ output = <<>> /\ ~failed /\ ~closing /\ failed \in BOOLEAN /\ closing \in BOOLEAN /\ revoked \in BOOLEAN
      /\ receiver = [step |-> "receives", sent |-> 0] /\ encoder = [step |-> "looks", block |-> 0]
  BY DEF EncoderInit
<1>2. EncoderTypes
  BY <1>1, NoBlocks, EncoderAssumption DEF EncoderTypes, Receives
<1>3. Held = 0 /\ ~Holding
  BY <1>1 DEF Held, Holding
<1>4. InOrder
  BY <1>1, <1>3, NoBlocks DEF InOrder
<1>5. Beside
  BY <1>1 DEF Beside
<1> QED BY <1>2, <1>4, <1>5 DEF EncoderInv

LEMMA EncoderInvSteps == EncoderInv /\ [EncoderNext]_encoderVars => EncoderInv'
<1> SUFFICES ASSUME EncoderInv, [EncoderNext]_encoderVars PROVE EncoderInv'
  OBVIOUS
<1>d. QueueDepth \in Nat /\ QueueDepth >= 1
  BY EncoderAssumption
<1> USE DEF EncoderInv
<1>1. CASE ReceivesBlock
  BY <1>1, <1>d DEF ReceivesBlock, ReceiverGoes, EncoderTypes, InOrder, Beside, Holding, Held, Receives, Left
<1>2. CASE SubmitWaits
  BY <1>2, <1>d DEF SubmitWaits, ReceiverGoes, EncoderTypes, InOrder, Beside, Holding, Held, Receives, Left
<1>3. CASE SubmitThrows
  BY <1>3, <1>d DEF SubmitThrows, ReceiverGoes, EncoderTypes, InOrder, Beside, Holding, Held, Receives, Left
<1>4. CASE Submits
  <2>0. /\ EncoderTypes /\ InOrder /\ Beside /\ receiver.sent \in Nat /\ receiver.step = "submits"
        /\ blocks \in Seq(Nat) /\ Len(blocks) \in Nat /\ Len(output) \in Nat
    BY <1>4 DEF EncoderTypes, Submits
  <2>1. /\ blocks' \in Seq(Nat) /\ Len(blocks') = Len(blocks) + 1
        /\ \A i \in 1..Len(blocks) : blocks'[i] = blocks[i]
        /\ blocks'[Len(blocks) + 1] = receiver.sent + 1
    BY <1>4, <2>0, Appended DEF Submits
  <2>2. /\ receiver' = [step |-> "receives", sent |-> receiver.sent + 1]
        /\ output' = output /\ failed' = failed /\ closing' = closing /\ revoked' = revoked
        /\ ~failed /\ Len(blocks) < QueueDepth
    BY <1>4 DEF Submits
  <2>3. /\ encoder' \in [step : {"looks", "asleep", "tells", "encodes", "tells_error", "ended"}, block : Nat]
        /\ encoder'.block = encoder.block /\ encoder'.step # "asleep"
        /\ encoder.step # "asleep" => encoder' = encoder
        /\ encoder.step = "asleep" => encoder'.step = "looks"
    BY <1>4, <2>0 DEF Submits, WakesEncoder, EncoderTypes
  <2>4. EncoderTypes'
    BY <2>0, <2>1, <2>2, <2>3, <1>d DEF EncoderTypes, Receives, Left
  <2>5. Holding' = Holding /\ Held' = Held /\ Held \in 0..1
    BY <2>3 DEF Holding, Held
  <2>6. InOrder'
    <3>1. Len(output) + Held + Len(blocks) = receiver.sent
      BY <2>0, <2>2 DEF InOrder
    <3>2. ASSUME NEW i \in 1..Len(blocks') PROVE blocks'[i] = Len(output) + Held + i
      <4>1. i \in Nat /\ (i \in 1..Len(blocks) \/ i = Len(blocks) + 1)
        BY <2>0, <2>1, LastIndex
      <4>2. CASE i \in 1..Len(blocks)
        BY <4>2, <2>0, <2>1 DEF InOrder
      <4>3. CASE i = Len(blocks) + 1
        BY <4>3, <3>1, <2>0, <2>1, <2>5
      <4> QED BY <4>1, <4>2, <4>3
    <3> QED BY <3>1, <3>2, <2>0, <2>1, <2>2, <2>3, <2>5 DEF InOrder
  <2>7. Beside'
    BY <2>0, <2>1, <2>2, <2>3 DEF Beside, Left
  <2> QED BY <2>4, <2>6, <2>7
<1>5. CASE StatementIsOver
  BY <1>5, <1>d DEF StatementIsOver, ReceiverGoes, EncoderTypes, InOrder, Beside, Holding, Held, Receives, Left
<1>6. CASE StopsEncoder
  <2>0. EncoderTypes /\ InOrder /\ Beside
    OBVIOUS
  <2>2. /\ closing' = TRUE /\ output' = output /\ failed' = failed /\ revoked' = revoked
        /\ receiver'.sent = receiver.sent /\ receiver' \in [step : Receives \cup Left, sent : Nat]
        /\ \/ receiver.step = "drains" /\ receiver'.step = "joins" /\ blocks' = blocks
           \/ receiver.step = "drops" /\ receiver'.step = "joins_error" /\ blocks' = <<>>
    BY <1>6, <2>0 DEF StopsEncoder, ReceiverGoes, EncoderTypes, Receives, Left
  <2>1. blocks' \in Seq(Nat) /\ Len(blocks') <= QueueDepth /\ (blocks' = blocks \/ blocks' = <<>>)
    <3>1. blocks' = blocks \/ blocks' = <<>>
      BY <2>2
    <3>2. blocks \in Seq(Nat) /\ Len(blocks) <= QueueDepth
      BY <2>0 DEF EncoderTypes
    <3>3. CASE blocks' = blocks
      BY <3>2, <3>3
    <3>4. CASE blocks' = <<>>
      <4>1. Len(blocks') = 0 /\ blocks' \in Seq(Nat)
        BY <3>4, NoBlocks
      <4> QED BY <4>1, <1>d, <3>1
    <3> QED BY <3>1, <3>3, <3>4
  <2>3. /\ encoder' \in [step : {"looks", "asleep", "tells", "encodes", "tells_error", "ended"}, block : Nat]
        /\ encoder'.block = encoder.block /\ encoder'.step # "asleep"
        /\ encoder.step # "asleep" => encoder' = encoder
        /\ encoder.step = "asleep" => encoder'.step = "looks"
    BY <1>6, <2>0 DEF StopsEncoder, WakesEncoder, EncoderTypes
  <2>4. EncoderTypes'
    BY <2>0, <2>1, <2>2, <2>3 DEF EncoderTypes
  <2>5. Holding' = Holding /\ Held' = Held
    BY <2>3 DEF Holding, Held
  <2>6. InOrder'
    BY <2>0, <2>1, <2>2, <2>3, <2>5 DEF InOrder
  <2>7. Beside'
    BY <2>0, <2>1, <2>2, <2>3 DEF Beside, Left
  <2> QED BY <2>4, <2>6, <2>7
<1>7. CASE Joins
  BY <1>7, <1>d DEF Joins, ReceiverGoes, EncoderTypes, InOrder, Beside, Holding, Held, Receives, Left
<1>8. CASE LooksForBlock
  <2>0. /\ EncoderTypes /\ InOrder /\ Beside /\ encoder.step = "looks" /\ Held = 0 /\ ~Holding
        /\ receiver' = receiver /\ output' = output /\ failed' = failed /\ closing' = closing /\ revoked' = revoked
    BY <1>8 DEF LooksForBlock, EncoderGoes, Holding, Held
  <2>1. CASE blocks # <<>> /\ encoder' = [step |-> "tells", block |-> Head(blocks)] /\ blocks' = Tail(blocks)
    <3>1. /\ blocks \in Seq(Nat) /\ blocks' \in Seq(Nat) /\ Len(blocks) \in Nat /\ Len(blocks') = Len(blocks) - 1
          /\ Len(blocks) > 0 /\ Head(blocks) = blocks[1] /\ Head(blocks) \in Nat
          /\ \A i \in 1..Len(blocks') : blocks'[i] = blocks[i + 1]
      BY <2>0, <2>1, Taken DEF EncoderTypes
    <3>2. Len(output) \in Nat
      BY <2>0 DEF EncoderTypes
    <3>3. Held' = 1 /\ Holding' /\ encoder'.step = "tells" /\ encoder'.block = blocks[1]
      BY <2>1, <3>1 DEF Held, Holding
    <3>4. EncoderTypes'
      BY <2>0, <2>1, <3>1, <1>d DEF EncoderTypes
    <3>5. InOrder'
      <4>1. encoder'.block = Len(output) + 1
        BY <2>0, <3>1, <3>2, <3>3 DEF InOrder
      <4>2. \A i \in 1..Len(blocks') : blocks'[i] = Len(output) + 1 + i
        BY <2>0, <3>1, <3>2 DEF InOrder
      <4> QED BY <4>1, <4>2, <2>0, <3>1, <3>2, <3>3 DEF InOrder
    <3>6. Beside'
      BY <2>0, <3>1, <3>3 DEF Beside, Left
    <3> QED BY <3>4, <3>5, <3>6
  <2>2. CASE blocks = <<>> /\ blocks' = blocks /\ encoder' = [encoder EXCEPT !.step = IF closing THEN "ended" ELSE "asleep"]
    <3>1. /\ encoder' \in [step : {"looks", "asleep", "tells", "encodes", "tells_error", "ended"}, block : Nat]
          /\ encoder'.step = (IF closing THEN "ended" ELSE "asleep")
      BY <2>0, <2>2 DEF EncoderTypes
    <3>2. EncoderTypes'
      BY <2>0, <2>2, <3>1 DEF EncoderTypes
    <3>3. Held' = 0 /\ ~Holding'
      BY <3>1 DEF Held, Holding
    <3>4. InOrder'
      BY <2>0, <2>2, <3>3 DEF InOrder
    <3>5. Beside'
      <4>1. Len(<<>>) = 0
        OBVIOUS
      <4> QED BY <4>1, <2>0, <2>2, <3>1, <1>d DEF Beside, EncoderTypes
    <3> QED BY <3>2, <3>4, <3>5
  <2> QED BY <2>1, <2>2, <1>8, <2>0 DEF LooksForBlock, EncoderGoes, EncoderTypes
<1>9. CASE TellsRoom
  BY <1>9, <1>d DEF TellsRoom, EncoderGoes, WakesReceiver, EncoderTypes, InOrder, Beside, Holding, Held, Receives, Left
<1>10. CASE Encodes
  <2>0. /\ EncoderTypes /\ InOrder /\ Beside /\ encoder.step = "encodes" /\ Held = 1 /\ Holding
        /\ receiver' = receiver /\ blocks' = blocks /\ failed' = failed /\ closing' = closing /\ revoked' = revoked
        /\ encoder.block \in Nat /\ output \in Seq(Nat) /\ Len(output) \in Nat /\ Len(blocks) \in Nat
    BY <1>10 DEF Encodes, EncoderGoes, Holding, Held, EncoderTypes
  <2>1. /\ output' \in Seq(Nat) /\ Len(output') = Len(output) + 1
        /\ \A i \in 1..Len(output) : output'[i] = output[i]
        /\ output'[Len(output) + 1] = encoder.block
    BY <1>10, <2>0, Appended DEF Encodes
  <2>2. /\ encoder' \in [step : {"looks", "asleep", "tells", "encodes", "tells_error", "ended"}, block : Nat]
        /\ encoder'.step = "looks"
    BY <1>10, <2>0 DEF Encodes, EncoderGoes, EncoderTypes
  <2>3. EncoderTypes'
    BY <2>0, <2>1, <2>2 DEF EncoderTypes
  <2>4. Held' = 0 /\ ~Holding'
    BY <2>2 DEF Held, Holding
  <2>5. InOrder'
    <3>1. ASSUME NEW i \in 1..Len(output') PROVE output'[i] = i
      <4>1. i \in 1..Len(output) \/ i = Len(output) + 1
        BY <2>0, <2>1, LastIndex
      <4> QED BY <4>1, <2>0, <2>1 DEF InOrder
    <3>2. \A i \in 1..Len(blocks) : blocks[i] = Len(output') + i
      BY <2>0, <2>1 DEF InOrder
    <3> QED BY <3>1, <3>2, <2>0, <2>1, <2>4 DEF InOrder
  <2>6. Beside'
    BY <2>0, <2>2 DEF Beside
  <2> QED BY <2>3, <2>5, <2>6
<1>11. CASE EncodeThrows
  <2>0. EncoderTypes /\ InOrder /\ Beside /\ encoder.step = "encodes"
    BY <1>11 DEF EncodeThrows, EncoderGoes
  <2>1. /\ failed' = TRUE /\ blocks' = <<>>
        /\ receiver' = receiver /\ output' = output /\ closing' = closing /\ revoked' = revoked
        /\ encoder' \in [step : {"looks", "asleep", "tells", "encodes", "tells_error", "ended"}, block : Nat]
        /\ encoder'.step = "tells_error"
    BY <1>11, <2>0 DEF EncodeThrows, EncoderGoes, EncoderTypes
  <2>2. Held' = 0 /\ ~Holding'
    BY <2>1 DEF Held, Holding
  <2>3. EncoderTypes'
    BY <2>0, <2>1, <1>d, NoBlocks DEF EncoderTypes
  <2>4. InOrder'
    BY <2>0, <2>1, <2>2, NoBlocks DEF InOrder
  <2>5. Beside'
    <3>1. receiver.step # "finished"
      BY <2>0 DEF Beside
    <3> QED BY <3>1, <2>0, <2>1 DEF Beside
  <2> QED BY <2>3, <2>4, <2>5
<1>12. CASE TellsError
  <2>0. EncoderTypes /\ InOrder /\ Beside /\ encoder.step = "tells_error"
    BY <1>12 DEF TellsError, EncoderGoes
  <2>1. /\ blocks' = blocks /\ output' = output /\ failed' = failed /\ closing' = closing /\ revoked' = revoked
        /\ encoder' \in [step : {"looks", "asleep", "tells", "encodes", "tells_error", "ended"}, block : Nat]
        /\ encoder'.step = "ended"
    BY <1>12, <2>0 DEF TellsError, EncoderGoes, EncoderTypes
  <2>2. /\ receiver' \in [step : Receives \cup Left, sent : Nat] /\ receiver'.sent = receiver.sent
        /\ receiver'.step = (IF receiver.step = "asleep" THEN "submits" ELSE receiver.step)
    BY <1>12, <2>0 DEF TellsError, WakesReceiver, EncoderTypes, Receives, Left
  <2>3. Held' = 0 /\ Held = 0 /\ ~Holding'
    BY <2>0, <2>1 DEF Held, Holding
  <2> QED BY <2>0, <2>1, <2>2, <2>3 DEF EncoderTypes, InOrder, Beside, Left
<1>13. CASE Revokes
  BY <1>13, <1>d DEF Revokes, EncoderTypes, InOrder, Beside, Holding, Held, Receives, Left
<1>14. CASE UNCHANGED encoderVars
  BY <1>14 DEF encoderVars, EncoderTypes, InOrder, Beside, Holding, Held, Receives, Left
<1> QED BY <1>1, <1>2, <1>3, <1>4, <1>5, <1>6, <1>7, <1>8, <1>9, <1>10, <1>11, <1>12, <1>13, <1>14 DEF EncoderNext

(* BlocksAreEncoded: the blocks reach the result in their order, each of     *)
(* them once, and nobody sleeps beside a thread that will not wake it, for   *)
(* any number of blocks and any depth of the queue.                          *)
THEOREM BlocksReachTheResult == EncoderSpec => []BlocksAreEncoded
<1>1. EncoderInv => BlocksAreEncoded
  BY DEF EncoderInv, EncoderTypes, InOrder, Beside, Holding, Held, BlocksAreEncoded, Receives, Left
<1> QED BY <1>1, EncoderInvStarts, EncoderInvSteps, PTL DEF EncoderSpec
-----------------------------------------------------------------------------
(* Only connections are marked: a thread marks the one that it has.          *)
LEMMA MarksSteps == OwnInv /\ dirty \subseteq Sockets /\ [PoolNext]_poolVars => dirty' \subseteq Sockets
<1> SUFFICES ASSUME OwnInv, dirty \subseteq Sockets, [PoolNext]_poolVars
             PROVE  dirty' \subseteq Sockets
  OBVIOUS
<1>1. ASSUME NEW t \in PoolThreads, NEW k \in PoolKeys, Leases(t, k) PROVE UNCHANGED dirty
  BY <1>1 DEF Leases
<1>2. \A t \in PoolThreads : client[t].key \in PoolKeys
  BY DEF OwnInv, ClientOK
<1>3. ASSUME NEW t \in PoolThreads, NEW k \in PoolKeys, Acquire(t, k) \/ LooksAgain(t) \/ WaitEnds(t)
      PROVE  UNCHANGED dirty
  BY <1>1, <1>2, <1>3 DEF Acquire, LooksAgain, WaitEnds
<1>4. ASSUME NEW t \in PoolThreads, LooksAgain(t) \/ WaitEnds(t) PROVE UNCHANGED dirty
  BY <1>1, <1>2, <1>4 DEF LooksAgain, WaitEnds
<1>5. ASSUME NEW t \in PoolThreads, Ping(t) \/ OpenFails(t) \/ Release(t) PROVE UNCHANGED dirty
  BY <1>5 DEF Ping, OpenFails, Release
<1>6. ASSUME NEW t \in PoolThreads, OpenClient(t) PROVE dirty' \subseteq Sockets
  BY <1>6 DEF OpenClient
<1>7. ASSUME NEW t \in PoolThreads, MarkDirty(t) PROVE dirty' \subseteq Sockets
  BY <1>7 DEF MarkDirty, Does, OwnInv, HeldOK
<1>8. CASE ReapIdle \/ IdleTime \/ UNCHANGED poolVars
  BY <1>8 DEF ReapIdle, IdleTime, poolVars
<1> QED BY <1>3, <1>4, <1>5, <1>6, <1>7, <1>8 DEF PoolNext

(* The type invariant of the pool: its counts never go below zero or above   *)
(* max_leased_per_uri (ch_client_pool.cpp, acquire and release).             *)
THEOREM PoolTypeCorrect == PoolSpec => []PoolTypeOK
<1> DEFINE Typed == PoolInv /\ OwnInv /\ dirty \subseteq Sockets
<1>1. PoolInit => Typed
  BY PoolInvStarts, OwnInvStarts DEF PoolInit
<1>2. Typed /\ [PoolNext]_poolVars => Typed'
  BY PoolInvSteps, OwnInvSteps, MarksSteps
<1>3. ASSUME Typed PROVE PoolTypeOK
  <2>1. idle \in [PoolKeys -> Seq([socket : Sockets, age : 0..2])]
    BY <1>3 DEF OwnInv, Lists, Connections
  <2>2. leased \in [Hosts -> 0..MaxLeased]
    BY <1>3, PoolAssumption DEF PoolInv, Counted
  <2>3. \A t \in PoolThreads : client[t].socket \in Sockets \cup {NoSocket}
    BY <1>3 DEF OwnInv, HeldOK
  <2>4. client \in [PoolThreads -> [step : ClientSteps, key : PoolKeys, socket : Sockets \cup {NoSocket}]]
    BY <1>3, <2>3 DEF OwnInv, ClientOK
  <2> QED BY <1>3, <2>1, <2>2, <2>4 DEF PoolTypeOK
<1> QED BY <1>1, <1>2, <1>3, PTL DEF PoolSpec

(* No moment is later than the bound of the model lets it be.                *)
LEMMA ClockSteps == GateInv /\ clock <= MaxClock /\ inFlight \in BOOLEAN /\ [FlushNext]_gateVars
                    => clock' <= MaxClock /\ inFlight' \in BOOLEAN
<1> SUFFICES ASSUME GateInv, clock <= MaxClock, inFlight \in BOOLEAN, [FlushNext]_gateVars
             PROVE  clock' <= MaxClock /\ inFlight' \in BOOLEAN
  OBVIOUS
<1>0. clock \in Nat /\ MaxClock \in Nat
  BY FlushAssumption DEF GateInv, GateTypes
<1>1. ASSUME NEW t \in Flushers, NEW logs \in SUBSET Logs, Needs(t, logs)
      PROVE  clock' <= MaxClock /\ inFlight' \in BOOLEAN
  BY <1>0, <1>1 DEF Needs
<1>2. ASSUME NEW t \in Flushers, LooksForFlush(t)
      PROVE  clock' <= MaxClock /\ inFlight' \in BOOLEAN
  <2>1. CASE UNCHANGED <<clock, inFlight>>
    BY <2>1
  <2>2. CASE clock < MaxClock /\ clock' = clock + 1 /\ inFlight' = TRUE
    <3>1. clock' <= MaxClock
      BY <1>0, <2>2
    <3>2. inFlight' \in BOOLEAN
      BY <2>2, Zenon
    <3> QED BY <3>1, <3>2
  <2> QED BY <1>2, <2>1, <2>2, Zenon DEF LooksForFlush
<1>3. ASSUME NEW t \in Flushers, ServerFlushes(t) \/ FlushEnds(t) \/ Leaves(t)
      PROVE  clock' <= MaxClock /\ inFlight' \in BOOLEAN
  BY <1>3 DEF ServerFlushes, FlushEnds, Leaves
<1>4. CASE UNCHANGED gateVars
  BY <1>4 DEF gateVars
<1> QED BY <1>1, <1>2, <1>3, <1>4 DEF FlushNext

(* The type invariant of the flush gate (ensure_flushed_after).              *)
THEOREM FlushTypeCorrect == FlushSpec => []FlushTypeOK
<1> DEFINE Typed == GateInv /\ clock <= MaxClock /\ inFlight \in BOOLEAN
<1>1. FlushInit => Typed
  <2>1. FlushInit => inFlight \in BOOLEAN
    BY Zenon DEF FlushInit
  <2>2. FlushInit => clock <= MaxClock
    BY FlushAssumption DEF FlushInit
  <2> QED BY <2>1, <2>2, GateInvStarts
<1>2. Typed /\ [FlushNext]_gateVars => Typed'
  BY GateInvSteps, ClockSteps
<1>3. ASSUME Typed PROVE FlushTypeOK
  <2>1. clock \in 0..MaxClock /\ \A n \in Nat : n <= clock => n \in 0..MaxClock
    BY <1>3, FlushAssumption DEF GateInv, GateTypes
  <2>2. flusher \in [Flushers -> FlushOf]
    BY <1>3 DEF GateInv, GateTypes
  <2>3. \A t \in Flushers : flusher[t].needed \in 0..MaxClock /\ flusher[t].started \in 0..MaxClock
    BY <1>3, <2>1, <2>2 DEF GateInv, FlushMoments, FlushOf
  <2>4. flusher \in [Flushers -> [step : Steps, logs : SUBSET Logs, needed : 0..MaxClock, started : 0..MaxClock]]
    BY <2>2, <2>3 DEF FlushOf
  <2>5. covered \in [Logs -> 0..MaxClock] /\ written \in [Logs -> 0..MaxClock]
    <3>1. covered \in [Logs -> Nat] /\ written \in [Logs -> Nat] /\ clock \in Nat
      BY <1>3 DEF GateInv, GateTypes
    <3>2. \A l \in Logs : covered[l] <= clock /\ written[l] <= clock
      BY <1>3, <3>1 DEF GateInv, FlushMoments
    <3> QED BY <2>1, <3>1, <3>2
  <2> QED BY <1>3, <2>1, <2>4, <2>5 DEF FlushTypeOK, Steps
<1> QED BY <1>1, <1>2, <1>3, PTL DEF FlushSpec

(* The receiver submits no more blocks than it receives, and the thread has  *)
(* no more than were submitted.                                              *)
Submitted ==
  /\ receiver.sent <= MaxReceived
  /\ receiver.step \in {"submits", "asleep"} => receiver.sent < MaxReceived
  /\ Len(output) + Held + Len(blocks) <= receiver.sent
  /\ encoder.block <= MaxReceived

LEMMA SubmittedSteps == EncoderInv /\ Submitted /\ [EncoderNext]_encoderVars => Submitted'
<1> SUFFICES ASSUME EncoderInv, Submitted, [EncoderNext]_encoderVars
             PROVE  Submitted'
  OBVIOUS
<1>0. /\ blocks \in Seq(Nat) /\ output \in Seq(Nat) /\ Len(blocks) \in Nat /\ Len(output) \in Nat
      /\ receiver \in [step : Receives \cup Left, sent : Nat]
      /\ encoder \in [step : {"looks", "asleep", "tells", "encodes", "tells_error", "ended"}, block : Nat]
      /\ MaxReceived \in Nat
  BY EncoderAssumption DEF EncoderInv, EncoderTypes
<1>w. WakesEncoder => Held' = Held /\ encoder'.block = encoder.block
  BY <1>0 DEF WakesEncoder, Held, Holding
<1>r. \A s : receiver' = [receiver EXCEPT !.step = s] => receiver'.step = s /\ receiver'.sent = receiver.sent
  BY <1>0
<1>1. CASE ReceivesBlock
  BY <1>0, <1>1 DEF ReceivesBlock, ReceiverGoes, Submitted, Held, Holding
<1>2. CASE SubmitWaits \/ SubmitThrows \/ StatementIsOver \/ Joins
  BY <1>0, <1>2 DEF SubmitWaits, SubmitThrows, StatementIsOver, Joins, ReceiverGoes, Submitted, Held, Holding
<1>3. CASE Submits
  <2>1. Len(blocks') = Len(blocks) + 1
    BY <1>0, <1>3 DEF Submits
  <2>2. WakesEncoder /\ output' = output /\ receiver' = [step |-> "receives", sent |-> receiver.sent + 1]
    BY <1>3 DEF Submits
  <2>3. receiver'.step = "receives" /\ receiver'.sent = receiver.sent + 1 /\ receiver.sent < MaxReceived
    BY <1>3, <2>2 DEF Submits, Submitted
  <2>4. Held \in {0, 1} /\ receiver.sent \in Nat
    BY <1>0 DEF Held
  <2> QED BY <1>0, <1>w, <2>1, <2>2, <2>3, <2>4 DEF Submitted
<1>4. CASE StopsEncoder
  <2>1. Len(blocks') <= Len(blocks) /\ Len(blocks') \in Nat
    BY <1>0, <1>4 DEF StopsEncoder
  <2>2. WakesEncoder /\ output' = output
    BY <1>4 DEF StopsEncoder
  <2>3. receiver'.step \in {"joins", "joins_error"} /\ receiver'.sent = receiver.sent
    BY <1>4, <1>r DEF StopsEncoder, ReceiverGoes
  <2>4. Held \in {0, 1} /\ receiver.sent \in Nat
    BY <1>0 DEF Held
  <2> QED BY <1>0, <1>w, <2>1, <2>2, <2>3, <2>4 DEF Submitted
<1>5. CASE LooksForBlock
  <2>1. CASE UNCHANGED blocks /\ (EncoderGoes("looks", "asleep") \/ EncoderGoes("looks", "ended"))
    BY <1>0, <1>5, <2>1 DEF LooksForBlock, EncoderGoes, Submitted, Held, Holding
  <2>2. CASE /\ blocks # <<>> /\ encoder.step = "looks"
             /\ encoder' = [step |-> "tells", block |-> Head(blocks)] /\ blocks' = Tail(blocks)
    <3>1. Len(blocks') = Len(blocks) - 1 /\ 1 \in 1..Len(blocks) /\ Head(blocks) = blocks[1]
      BY <1>0, <2>2
    <3>2. Held = 0 /\ Held' = 1
      BY <2>2 DEF Held, Holding
    <3>3. blocks[1] = Len(output) + Held + 1
      BY <3>1 DEF EncoderInv, InOrder
    <3>4. encoder'.block <= MaxReceived
      BY <1>0, <2>2, <3>1, <3>2, <3>3 DEF Submitted
    <3> QED BY <1>0, <1>5, <3>1, <3>2, <3>4 DEF LooksForBlock, Submitted
  <2> QED BY <1>5, <2>1, <2>2 DEF LooksForBlock
<1>6. CASE TellsRoom \/ TellsError
  BY <1>0, <1>6 DEF TellsRoom, TellsError, EncoderGoes, WakesReceiver, Submitted, Held, Holding
<1>7. CASE Encodes
  <2>1. Len(output') = Len(output) + 1
    BY <1>0, <1>7 DEF Encodes
  <2> QED BY <1>0, <1>7, <2>1 DEF Encodes, EncoderGoes, Submitted, Held, Holding
<1>8. CASE EncodeThrows
  BY <1>0, <1>8 DEF EncodeThrows, EncoderGoes, Submitted, Held, Holding
<1>9. CASE Revokes \/ UNCHANGED encoderVars
  BY <1>9 DEF Revokes, encoderVars, Submitted, Held, Holding
<1> QED BY <1>1, <1>2, <1>3, <1>4, <1>5, <1>6, <1>7, <1>8, <1>9 DEF EncoderNext

LEMMA NarrowSeq ==
  ASSUME NEW S, NEW s \in Seq(Nat), \A i \in 1..Len(s) : s[i] \in S
  PROVE  s \in Seq(S)
<1>1. s \in [1..Len(s) -> S] /\ Len(s) \in Nat
  OBVIOUS
<1>2. \E n \in Nat : s \in [1..n -> S]
  BY <1>1
<1>3. s \in UNION {[1..n -> S] : n \in Nat}
  BY <1>2, Zenon
<1> QED BY <1>3, SeqDef, Zenon

(* The type invariant of the encoder: its queue is never longer than         *)
(* kEncodeQueueBlocks (BlockEncoder::submit).                                *)
THEOREM EncoderTypeCorrect == EncoderSpec => []EncoderTypeOK
<1> DEFINE Typed == EncoderInv /\ Submitted
<1>1. EncoderInit => Typed
  <2>1. Len(<<>>) = 0
    OBVIOUS
  <2> QED BY <2>1, EncoderInvStarts, EncoderAssumption DEF EncoderInit, Submitted, Held, Holding
<1>2. Typed /\ [EncoderNext]_encoderVars => Typed'
  BY EncoderInvSteps, SubmittedSteps
<1>3. ASSUME Typed PROVE EncoderTypeOK
  <2>0. /\ blocks \in Seq(Nat) /\ output \in Seq(Nat) /\ Len(blocks) \in Nat /\ Len(output) \in Nat
        /\ receiver \in [step : Receives \cup Left, sent : Nat] /\ Held \in {0, 1}
        /\ encoder \in [step : {"looks", "asleep", "tells", "encodes", "tells_error", "ended"}, block : Nat]
        /\ MaxReceived \in Nat /\ Len(output) + Held + Len(blocks) <= MaxReceived
    BY <1>3, EncoderAssumption DEF EncoderInv, EncoderTypes, Submitted, Held
  <2>1. \A i \in 1..Len(output) : output[i] \in 1..MaxReceived
    BY <1>3, <2>0 DEF EncoderInv, InOrder
  <2>2. \A i \in 1..Len(blocks) : blocks[i] \in 1..MaxReceived
    BY <1>3, <2>0 DEF EncoderInv, InOrder
  <2>3. output \in Seq(1..MaxReceived) /\ blocks \in Seq(1..MaxReceived)
    BY <2>0, <2>1, <2>2, NarrowSeq
  <2>4. receiver.sent \in 0..MaxReceived /\ encoder.block \in 0..MaxReceived
    BY <1>3, <2>0 DEF Submitted
  <2> QED BY <1>3, <2>0, <2>3, <2>4 DEF EncoderTypeOK, EncoderInv, EncoderTypes, Receives, Left
<1> QED BY <1>1, <1>2, <1>3, PTL DEF EncoderSpec
=============================================================================
