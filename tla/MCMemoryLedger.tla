-------------------------- MODULE MCMemoryLedger ----------------------------
(***************************************************************************)
(* MemoryLedger on small instances: developers dev and eve, entries x and  *)
(* y, y superseding x.                                                     *)
(***************************************************************************)
EXTENDS MemoryLedger

CONSTANTS x, y, dev, eve

XByY == [id \in Ids |-> y]
=============================================================================
