--------------------------- MODULE MCOutboxRelay ---------------------------
(* The Go outbox relay on small instances.                                 *)
EXTENDS OutboxRelay, TLC
===========================================================================
