----------------------------- MODULE MsgChannel -----------------------------
(***************************************************************************)
(* What a KCP conversation promises its two applications: in each          *)
(* direction a channel of messages.  Each message sent is read at most     *)
(* once, whole, and in the order of sending.                               *)
(***************************************************************************)
EXTENDS Naturals, Sequences

CONSTANTS
  A, B,           \* the two endpoints
  Sizes,          \* sizes of messages
  Message(_, _)   \* the i-th message of an endpoint, when it has this size

VARIABLES
  sent,   \* the messages each endpoint has sent
  read    \* the messages each endpoint has read

vars == <<sent, read>>

Peer == {A, B}
Remote(p) == IF p = A THEN B ELSE A

Init ==
  /\ sent = [p \in Peer |-> <<>>]
  /\ read = [p \in Peer |-> <<>>]

Send(p) ==
  /\ \E size \in Sizes :
       sent' = [sent EXCEPT ![p] = Append(@, Message(Len(@) + 1, size))]
  /\ UNCHANGED read

Read(p) ==
  LET q == Remote(p)
      i == Len(read[p]) + 1
  IN /\ i <= Len(sent[q])
     /\ read' = [read EXCEPT ![p] = Append(@, sent[q][i])]
     /\ UNCHANGED sent

Next == \E p \in Peer : Send(p) \/ Read(p)

Spec == Init /\ [][Next]_vars
=============================================================================
