------------------------------ MODULE MCStock -------------------------------
(***************************************************************************)
(* Stock on a small instance: one or two SKUs, which are interchangeable.  *)
(***************************************************************************)
EXTENDS Stock, TLC

SmallQuantities == {-1, 1, 2}

ReorderLevels == {0, 1}

Symmetry == Permutations(SKU)
=============================================================================
