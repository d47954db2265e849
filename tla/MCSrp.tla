------------------------------- MODULE MCSrp -------------------------------
(* Instance of Srp for TLC. *)
EXTENDS Srp, TLC

Symmetry == Permutations(Sids)
=============================================================================
