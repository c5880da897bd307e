--------------------------- MODULE MCGuardedApply ---------------------------
(* GuardedApply for TLC. *)
EXTENDS GuardedApply, TLC

SessionSymmetry == Permutations(Session)

=============================================================================
