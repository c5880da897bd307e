---------------------------- MODULE MCReviewQueue ----------------------------
(***************************************************************************)
(* The review queue for TLC: sessions and row ids are alike.               *)
(***************************************************************************)
EXTENDS ReviewQueue, TLC

SessionSymmetry == Permutations(Session)
IdSymmetry == Permutations(Id)
SessionAndIdSymmetry == Permutations(Session) \cup Permutations(Id)

=============================================================================
