------------------------------ MODULE MCTxPath ------------------------------
(* Instances of TxPath for TLC: gPTP and one other sender. *)
EXTENDS TxPath

MC_Senders == {"gptp", "srp"}
=============================================================================
