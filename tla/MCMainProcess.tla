----------------------------- MODULE MCMainProcess -----------------------------
(***************************************************************************)
(* Instances of MainProcess for TLC.                                       *)
(***************************************************************************)
EXTENDS MainProcess, TLC

FileSymmetry == Permutations(Files)
=============================================================================
