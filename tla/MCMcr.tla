------------------------------- MODULE MCMcr -------------------------------
(* Instances of Mcr for TLC: two offsets, calm when equal and wild otherwise. *)
EXTENDS Mcr

MC_Offsets == {0, 2}
MC_OneOffset == {0}
=============================================================================
