----------------------------- MODULE MCKcpLoops -----------------------------
(* Constants and the state constraint of the model-checking run of KcpLoops. *)
EXTENDS MCKcpArq, KcpLoops

\* Bound: no behaviour goes on after an application's second read, or after a
\* read and a fault.
OneReadOrFault == \A p \in Peer : Len(delivered[p]) + faults <= 1
=============================================================================
