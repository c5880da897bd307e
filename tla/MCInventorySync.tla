-------------------------- MODULE MCInventorySync --------------------------
(* InventorySync for TLC. *)
EXTENDS InventorySync, TLC

CONSTANTS k1, k2, k3

MCOffers == (k1 :> {"fixed", "auction"}) @@ (k2 :> {"auction", "draft"}) @@ (k3 :> {"fixed"})

Symmetry == Permutations(Session)

=============================================================================
