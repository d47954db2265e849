----------------------------- MODULE MCCounters -----------------------------
(* Instances of Counters for TLC. *)
EXTENDS Counters, TLC
CONSTANTS k1, k2, k3
Symmetry == Permutations(Ctrls)
=============================================================================
