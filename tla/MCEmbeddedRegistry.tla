------------------------ MODULE MCEmbeddedRegistry --------------------------
(***************************************************************************)
(* EmbeddedRegistry on small instances; the .cfg files say which           *)
(* directories may fail to open and which are deleted.                     *)
(***************************************************************************)
EXTENDS EmbeddedRegistry, TLC

Symmetry == Permutations(Users) \cup Permutations(Insts)
=============================================================================
