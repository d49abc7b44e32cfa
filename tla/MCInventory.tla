---------------------------- MODULE MCInventory ----------------------------
(* inventory-service alone, on a small instance.                           *)
EXTENDS Inventory, TLC

Symmetry == Permutations(OrderIds) \cup Permutations(Products)

SomePrices == {-5, 0, 3}

\* Stock levels a release may overflow: 4-bit integers, 7 is the largest.
SmallLevels == {-1, 0, 2, 7}
===========================================================================
