------------------------------- MODULE MCKernel -------------------------------
(* Kernel on a few sessions and runs. *)
EXTENDS KernelLedger, TLC

Symmetry == Permutations(Runs) \cup Permutations(Sessions)
=============================================================================
