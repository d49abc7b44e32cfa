-------------------------- MODULE MCKafkaConsumer --------------------------
(* The Go consume loop on a partition of a few messages.                   *)
EXTENDS KafkaConsumer, TLC
===========================================================================
