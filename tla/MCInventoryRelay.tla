-------------------------- MODULE MCInventoryRelay --------------------------
(* The relay of inventory-service on small instances.                      *)
EXTENDS InventoryRelay
===========================================================================
