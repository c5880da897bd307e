------------------------- MODULE MCMovementRecorder -------------------------
(* MovementRecorder for TLC: one listing comes and goes, gets old, is seen  *)
(* to again and sells; the other only comes and goes.                       *)
EXTENDS MovementRecorder, TLC

CONSTANTS s1, s2, l1, l2

MCSession == {s1, s2}
MCListing == {l1, l2}
Fresh == [old |-> FALSE, stale |-> FALSE, sold |-> 0]
MCShops ==
  {i \in Inventory :
     /\ i[l1] \in {Absent, Fresh, [old |-> TRUE, stale |-> TRUE, sold |-> 0],
                   [old |-> TRUE, stale |-> FALSE, sold |-> 1]}
     /\ i[l2] \in {Absent, Fresh}}

Sessions == Permutations(MCSession)

=============================================================================
