----------------------------- MODULE MCTtlCache -----------------------------
(* Small instances of TtlCache for TLC.                                     *)
EXTENDS TtlCache

CONSTANTS r1, r2, r3, k1, k2, w1

OneReader    == {r1}
TwoReaders   == {r1, r2}
ThreeReaders == {r1, r2, r3}
OneKey       == {k1}
TwoKeys      == {k1, k2}
NoWorkers    == {}
OneWorker    == {w1}
Bytes1       == {1}
Bytes13      == {1, 3}
SymReaders   == Permutations(Readers)
SymKeys      == Permutations(Readers) \cup Permutations(Keys)

(* An entry that nothing holds is freed memory: its contents never matter.  *)
(* Without threads of the refresher and without a place in its queue it     *)
(* does not matter either whether it is stopped.                            *)
LiveEntries == [cache EXCEPT !.entry = [s \in Slots |-> IF Held(s) THEN cache.entry[s] ELSE NewEntry]]
ViewWithoutRefresher == <<LiveEntries, readerVars, epoch, calls>>
=============================================================================
