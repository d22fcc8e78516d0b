----------------------------- MODULE MCSandboxes -----------------------------
(***************************************************************************)
(* Instances of Sandboxes for TLC.                                         *)
(***************************************************************************)
EXTENDS Sandboxes, TLC

AnySymmetry == Permutations(Servers) \cup Permutations(Calls) \cup Permutations(Pids)
                 \cup Permutations(Ids)
=============================================================================
