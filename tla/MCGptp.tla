------------------------------- MODULE MCGptp -------------------------------
(* Instances of Gptp for TLC: a good offset, one that loses a lock, and huge ones
   on both sides of the master. *)
EXTENDS Gptp

MC_Offsets == {-9, 0, 3, 9}
=============================================================================
