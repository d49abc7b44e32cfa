-------------------------- MODULE MCSpringListener --------------------------
(* The Spring listener on small instances.                                 *)
EXTENDS SpringListener
===========================================================================
