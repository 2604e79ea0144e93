------------------------------ MODULE MCBoard ------------------------------
(* Board on two cards and two flows; the names of cards and flows stay     *)
(* apart in the run with liveness, where symmetry would be unsound.        *)
EXTENDS Board, TLC

Symmetry == Permutations(Cards) \cup Permutations(Callers)
=============================================================================
