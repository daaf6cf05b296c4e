------------------------------ MODULE MCKcpArq ------------------------------
(* Constants of the model-checking runs of KcpArq. *)
EXTENDS KcpArq

OneWay(n) == [p \in Peer |-> IF p = A THEN n ELSE 0]
Msgs2 == OneWay(2)
Msgs3 == OneWay(3)
TwoAndOne == [p \in Peer |-> IF p = A THEN 2 ELSE 1]

NoResize == [p \in Peer |-> {}]
OnlyB(wnds) == [p \in Peer |-> IF p = B THEN wnds ELSE {}]
Keep == OnlyB({0})
Three == OnlyB({3})
TwoOrThree == OnlyB({2, 3})
=============================================================================
