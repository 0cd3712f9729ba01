--------------------------- MODULE MCQuerySession ---------------------------
(* Small instances of QuerySession for TLC.                                 *)
EXTENDS QuerySession

CONSTANTS s1, s2

OneStream == {s1}
TwoStreams == {s1, s2}
AllActors == {"api", "stop", "reaper"}
NoActors  == {}
OnlyStop  == {"stop"}
Reaper    == {"reaper"}
OnlyApi   == {"api"}
StopReaper == {"stop", "reaper"}
AllKinds  == {"select", "command"}
Selects   == {"select"}
Commands  == {"command"}
AllPlans  == {"direct", "retry", "described"}
Direct    == {"direct"}
Rows12    == {1, 2}
Rows1     == {1}
Rows2     == {2}
Symmetry  == Permutations(TwoStreams)
=============================================================================
