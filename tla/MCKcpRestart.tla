---------------------------- MODULE MCKcpRestart ----------------------------
(* Constants of the model-checking run of KcpRestart. *)
EXTENDS KcpRestart

OneMessage == [p \in Peer |-> IF p = A THEN 1 ELSE 0]
NoResize == [p \in Peer |-> {}]
=============================================================================
