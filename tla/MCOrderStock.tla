---------------------------- MODULE MCOrderStock ----------------------------
EXTENDS OrderStock, TLC

CONSTANTS p1, p2

(* One cart with both products and one with a larger quantity of one. *)
MCCarts == {(p1 :> 1 @@ p2 :> 1), (p1 :> 2 @@ p2 :> 0)}
MCSymmetry == Permutations(Approvers) \cup Permutations(Orders)
=============================================================================
