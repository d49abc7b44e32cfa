----------------------------- MODULE MCOrders -----------------------------
(* orders-service alone, on a small instance.                              *)
EXTENDS Orders, TLC

Symmetry == Permutations(OrderIds) \cup Permutations(Keys)
===========================================================================
