----------------------------- MODULE ClientPool -----------------------------
(* The pool of ClickHouse connections (src/src/ch_client_pool.cpp).  A key   *)
(* is a host and the kind of its timeouts: with or without a limit for a     *)
(* receive.  Leases are counted for each host, and all threads that wait for *)
(* one wait on the same condition variable, lease_cv_.                       *)
(*                                                                           *)
(* An idle connection is 0 fresh, 1 due for a validation, 2 too old.  The    *)
(* pool's destructor is left out: every caller and every lease keeps the     *)
(* pool alive, so it runs alone.                                             *)
(* Some definitions follow a form of themselves with a bug that the code     *)
(* could have; no action uses it.                                            *)
EXTENDS Naturals, Sequences, FiniteSets

CONSTANTS
  Hosts,         \* the URIs
  PoolThreads,   \* threads that use connections
  Sockets,       \* names for connections; enough for all that are open
  NoSocket,
  MaxLeased,     \* max_leased_per_uri
  MaxIdle        \* max_idle_per_key

ASSUME PoolAssumption == /\ MaxLeased \in Nat \ {0} /\ MaxIdle \in Nat
                         /\ NoSocket \notin Sockets
                         /\ IsFiniteSet(PoolThreads) /\ IsFiniteSet(Hosts) /\ Hosts # {}

PoolKeys == [host : Hosts, bounded : BOOLEAN]

VARIABLES
  idle,     \* idle_: the connections of each key, the last returned at the end
  leased,   \* leased_ of each host
  client,   \* what each thread does, with its key and its connection
  dirty     \* connections whose last statement ended in an unknown state

poolVars == <<idle, leased, client, dirty>>

ClientSteps == {"out", "waits", "woken", "pings", "opens", "holds"}

PoolTypeOK ==
  /\ idle \in [PoolKeys -> Seq([socket : Sockets, age : 0..2])]
  /\ leased \in [Hosts -> 0..MaxLeased]
  /\ client \in [PoolThreads -> [step : ClientSteps, key : PoolKeys, socket : Sockets \cup {NoSocket}]]
  /\ dirty \subseteq Sockets

Does(t, step)  == client[t].step = step
Elsewhere(t)   == client[t].key.host
IdleSockets(k) == {idle[k][i].socket : i \in DOMAIN idle[k]}
OpenSockets    == ((UNION {IdleSockets(k) : k \in PoolKeys}) \cup {client[t].socket : t \in PoolThreads}) \ {NoSocket}
Leasing(h)     == {t \in PoolThreads : Elsewhere(t) = h /\ client[t].step \in {"pings", "opens", "holds"}}

PoolInit ==
  /\ idle = [k \in PoolKeys |-> <<>>]
  /\ leased = [h \in Hosts |-> 0]
  /\ client \in [PoolThreads -> [step : {"out"}, key : {CHOOSE k \in PoolKeys : TRUE}, socket : {NoSocket}]]
  /\ dirty = {}
-----------------------------------------------------------------------------
(* Under mu_.  A key's connections leave the list when they are too old,     *)
(* whoever takes a lease or ends its sleep first.                            *)
Young(c) == c.age < 2

\* std::remove_if: those that stay keep their order.
Kept(s) == LET kept[i \in 0..Len(s)] == IF i = 0 THEN <<>>
                                        ELSE IF Young(s[i]) THEN Append(kept[i - 1], s[i]) ELSE kept[i - 1]
           IN  kept[Len(s)]
YoungIdle == [k \in PoolKeys |-> Kept(idle[k])]

\* A connection without a limit for a receive is never pinged: a half-open peer could block for ever.
MayLend(k, c) == c.age = 0 \/ k.bounded

\* The last one returned that may be lent; those after it are closed.
Lendable(k) == {i \in DOMAIN YoungIdle[k] : MayLend(k, YoungIdle[k][i])}

\* acquire with the lease counted: an idle connection, or one to open.
Leases(t, k) ==
  /\ leased[k.host] < MaxLeased
  /\ leased' = [leased EXCEPT ![k.host] = @ + 1]
  /\ \/ /\ Lendable(k) = {}
        /\ idle' = [YoungIdle EXCEPT ![k] = <<>>]
        /\ client' = [client EXCEPT ![t] = [step |-> "opens", key |-> k, socket |-> NoSocket]]
     \/ \E i \in Lendable(k) :
          /\ \A j \in Lendable(k) : j <= i
          /\ idle' = [YoungIdle EXCEPT ![k] = SubSeq(@, 1, i - 1)]
          /\ client' = [client EXCEPT ![t] = [step |-> IF YoungIdle[k][i].age = 0 THEN "holds" ELSE "pings", key |-> k,
                                              socket |-> YoungIdle[k][i].socket]]
  /\ UNCHANGED dirty

Acquire(t, k) ==
  /\ Does(t, "out")
  /\ \/ Leases(t, k)
     \/ /\ leased[k.host] >= MaxLeased
        /\ client' = [client EXCEPT ![t].step = "waits", ![t].key = k]
        /\ UNCHANGED <<idle, leased, dirty>>

\* A woken thread looks again, and sleeps again when another was faster.
LooksAgain(t) ==
  /\ Does(t, "woken")
  /\ \/ Leases(t, client[t].key)
     \/ /\ leased[Elsewhere(t)] >= MaxLeased
        /\ client' = [client EXCEPT ![t].step = "waits"]
        /\ UNCHANGED <<idle, leased, dirty>>

\* After lease_wait the thread looks once more, and gives up as "pool_exhausted".
WaitEnds(t) ==
  /\ client[t].step \in {"waits", "woken"}
  /\ \/ Leases(t, client[t].key)
     \/ /\ leased[Elsewhere(t)] >= MaxLeased
        /\ client' = [client EXCEPT ![t].step = "out"]
        /\ UNCHANGED <<idle, leased, dirty>>

\* lease_cv_.notify_one, and what the thread t does after it.
Asleep == {t \in PoolThreads : Does(t, "waits")}

NotifiesNobody(t) == client' = [client EXCEPT ![t].step = "out", ![t].socket = NoSocket]

NotifiesOne(t) ==
  \/ /\ Asleep = {}
     /\ client' = [client EXCEPT ![t].step = "out", ![t].socket = NoSocket]
  \/ \E w \in Asleep : client' = [client EXCEPT ![w].step = "woken", ![t].step = "out", ![t].socket = NoSocket]

KeepsLease(t) == UNCHANGED leased
EndsLease(t)  == leased' = [leased EXCEPT ![Elsewhere(t)] = @ - 1]
-----------------------------------------------------------------------------
(* Without mu_: the network.                                                 *)
Ping(t) ==
  /\ Does(t, "pings")
  /\ \/ client' = [client EXCEPT ![t].step = "holds"]
     \/ client' = [client EXCEPT ![t].step = "opens", ![t].socket = NoSocket]
  /\ UNCHANGED <<idle, leased, dirty>>

OpenClient(t) ==
  /\ Does(t, "opens")
  /\ \E s \in Sockets \ OpenSockets :
       /\ client' = [client EXCEPT ![t].step = "holds", ![t].socket = s]
       /\ dirty' = dirty \ {s}
  /\ UNCHANGED <<idle, leased>>

\* A URI that is not valid, or a connection that is refused: give_back.
OpenFails(t) ==
  /\ Does(t, "opens")
  /\ EndsLease(t)
  /\ NotifiesOne(t)
  /\ UNCHANGED <<idle, dirty>>

\* A statement ends in an unknown state, or its caller calls invalidate.
MarkDirty(t) ==
  /\ Does(t, "holds")
  /\ dirty' = dirty \cup {client[t].socket}
  /\ UNCHANGED <<idle, leased, client>>

\* Only what nobody marked goes back to the list.
ReturnsAny(t)  == Len(idle[client[t].key]) < MaxIdle
Returnable(t)  == client[t].socket \notin dirty /\ Len(idle[client[t].key]) < MaxIdle

Release(t) ==
  /\ Does(t, "holds")
  /\ EndsLease(t)
  /\ NotifiesOne(t)
  /\ idle' = IF Returnable(t)
             THEN [idle EXCEPT ![client[t].key] = Append(@, [socket |-> client[t].socket, age |-> 0])]
             ELSE idle
  /\ UNCHANGED dirty
-----------------------------------------------------------------------------
\* reaper_loop.
ReapIdle == /\ idle' = YoungIdle
            /\ UNCHANGED <<leased, client, dirty>>

\* Time: connections that nobody uses grow old.
IdleTime == /\ idle' = [k \in PoolKeys |-> [i \in DOMAIN idle[k] |->
                          [idle[k][i] EXCEPT !.age = IF @ = 2 THEN 2 ELSE @ + 1]]]
            /\ UNCHANGED <<leased, client, dirty>>

PoolNext ==
  \/ \E t \in PoolThreads :
       \/ \E k \in PoolKeys : Acquire(t, k)
       \/ LooksAgain(t) \/ WaitEnds(t) \/ Ping(t) \/ OpenClient(t) \/ OpenFails(t) \/ MarkDirty(t) \/ Release(t)
  \/ ReapIdle \/ IdleTime

PoolSpec == PoolInit /\ [][PoolNext]_poolVars
-----------------------------------------------------------------------------
\* A lease is counted as long as its thread pings, opens or holds a connection,
\* on every way out, and there are never more than max_leased_per_uri (acquire,
\* its give_back, and release).
LeasesAreCounted == \A h \in Hosts : leased[h] = Cardinality(Leasing(h)) /\ leased[h] <= MaxLeased

\* A connection has one user at a time: it is idle in one place, or one thread
\* has it; one that a statement left in an unknown state is never idle (release).
SocketsHaveOneOwner ==
  /\ \A t \in PoolThreads : client[t].socket # NoSocket =>
       /\ \A u \in PoolThreads \ {t} : client[u].socket # client[t].socket
       /\ \A k \in PoolKeys : client[t].socket \notin IdleSockets(k)
  /\ \A k, l \in PoolKeys : \A i \in DOMAIN idle[k], j \in DOMAIN idle[l] :
       idle[k][i].socket = idle[l][j].socket => k = l /\ i = j
  /\ \A k \in PoolKeys : IdleSockets(k) \cap dirty = {}

\* With one host, nobody sleeps while a lease is free and nobody was woken for
\* it: each lease that ends wakes one (give_back, release).  With more hosts the
\* one woken can be of another host, and then the free lease waits for a timeout.
NoStrandedWaiter ==
  Cardinality(Hosts) = 1 /\ Asleep # {} =>
    \A h \in Hosts : leased[h] + Cardinality({t \in PoolThreads : Does(t, "woken")}) >= MaxLeased
=============================================================================
