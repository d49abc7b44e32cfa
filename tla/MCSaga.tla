------------------------------ MODULE MCSaga ------------------------------
(* The whole saga on small instances.                                      *)
EXTENDS SagaInvariant, TLC

Symmetry == Permutations(OrderIds)

\* A price the database refuses; and one that the card limit admits for one
\* or two units and not for three.
SomePrices == {-5, 4000}
===========================================================================
