------------------------------ MODULE MCPdelay ------------------------------
(* Instances of Pdelay for TLC: delays on both sides of the range and in it. *)
EXTENDS Pdelay

MC_Delays == {-1, 0, 3, 4}
=============================================================================
