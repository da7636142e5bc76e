---------------------------- MODULE MCWriterLock ----------------------------
(***************************************************************************)
(* WriterLock with three processes at most, which differ only by name.     *)
(***************************************************************************)
EXTENDS WriterLock, TLC

CONSTANTS p1, p2, p3

ProcSymmetry == Permutations(Procs)
=============================================================================
