------------------------------ MODULE MCFormats -----------------------------
(***************************************************************************)
(* The states are the arguments of the operators of Chunks and of KcpWire: *)
(* first the lengths of a file, byte by byte, at every mss; then datagrams *)
(* as ikcp_flush writes them, segment by segment.                          *)
(***************************************************************************)
EXTENDS KcpWire, Chunks

CONSTANTS
  MaxMss, MaxLen,
  Convs,        \* numbers of conversations
  Frgs, Wnds,
  Numbers,      \* values of ts, sn and una
  Lens,         \* lengths of payloads
  MaxSegs       \* bound: segments in a datagram

\* The fields have the widths of struct IKCPSEG on the wire; ikcp_input takes
\* the length of a payload as a signed number.
ASSUME FormatsAssumption ==
  /\ MaxMss \in Nat /\ MaxLen \in Nat
  /\ Convs \cup Numbers \subseteq 0 .. Range32 - 1
  /\ Frgs \subseteq 0 .. Byte - 1 /\ Wnds \subseteq Nat
  /\ Lens \subseteq 0 .. (Range32 \div 2) - 1

VARIABLES
  mss, len,     \* the arguments of Chunks
  conv,         \* the conversation of the datagram
  segs,         \* history: the segments written
  buffer        \* the bytes

chunkVars == <<mss, len>>
wireVars == <<conv, segs, buffer>>
vars == <<chunkVars, wireVars>>

Init ==
  /\ mss \in 1..MaxMss /\ len = 0
  /\ conv \in Convs /\ segs = <<>> /\ buffer = <<>>

Longer ==
  /\ segs = <<>> /\ len < MaxLen
  /\ len' = len + 1
  /\ UNCHANGED <<mss, wireVars>>

\* A payload whose bytes tell their places.
Payload(n) == [i \in 1..n |-> i % Byte]

\* ikcp_flush writes one more segment; una and wnd are those of the flush.
Write(cmd, frg, wnd, ts, sn, una, n) ==
  LET head == [conv |-> conv, cmd |-> cmd, frg |-> frg, wnd |-> wnd, ts |-> ts,
               sn |-> sn, una |-> una, len |-> n]
  IN /\ mss = MaxMss /\ len = 0
     /\ Len(segs) < MaxSegs
     /\ cmd # CMD_PUSH => n = 0 /\ frg = 0
     /\ segs # <<>> => head.una = Last(segs).head.una /\ head.wnd = Last(segs).head.wnd
     /\ segs' = Append(segs, [head |-> head, data |-> Payload(n)])
     /\ buffer' = buffer \o EncodeSeg(head) \o Payload(n)
     /\ UNCHANGED <<chunkVars, conv>>

Next ==
  \/ Longer
  \/ \E cmd \in Cmds, frg \in Frgs, wnd \in Wnds, ts, sn, una \in Numbers,
        n \in Lens : Write(cmd, frg, wnd, ts, sn, una, n)

Spec == Init /\ [][Next]_vars

\* No packet is refused by ikcp_send, whatever the length of the file: the
\* result that KCPConnect.Send ignores is never an error.
ChunksFitSend == FitsSend(mss, len)

\* Up to the length at which a float stops counting single bytes, no byte is
\* left out and none sent twice: the rounded quotient has the right ceiling.
ChunksCoverFile == len + 1 < 2 ^ Mantissa => CoversPacket(mss, len)

\* What the remote endpoint reads is what was written, whatever the payloads,
\* the commands and the order in the datagram.
DatagramReadsBack == ReadsBack(conv, segs, buffer)

\* A control block of another conversation takes nothing of the datagram.
OthersRefuse ==
  segs # <<>> => \A c \in Convs \ {conv} : Refused(c, buffer)
=============================================================================
