------------------------------ MODULE MCOrders ------------------------------
(***************************************************************************)
(* Orders on a small instance: a few order ids, keys and handlers, each    *)
(* interchangeable with the others of its kind.                            *)
(***************************************************************************)
EXTENDS Orders, TLC

OneUnit == {-1, 1}

WithAndWithout == {FALSE, TRUE}

Symmetry == Permutations(Order) \cup Permutations(Key) \cup Permutations(Handler)
=============================================================================
