----------------------------- MODULE MCKcpWrap ------------------------------
(* The constraint of the model-checking run of KcpWrap. *)
EXTENDS MCKcpArq, KcpWrap

\* Bound: B sends only in a conversation of one message each way.
OneEachWay == MsgsSent(B) > 0 => MsgsSent(A) <= 1
=============================================================================
