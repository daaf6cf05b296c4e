------------------------------- MODULE KcpWire ------------------------------
(***************************************************************************)
(* Segments as bytes: ikcp_encode_seg writes a header of 24 bytes, the     *)
(* payload follows, the segments of a datagram stand one behind the other, *)
(* and the loop of ikcp_input takes them apart again.                      *)
(*                                                                         *)
(* A byte has Byte values, 256 in the code.  All numbers are written least *)
(* byte first, also where the code leaves that to memcpy.                  *)
(***************************************************************************)
EXTENDS Integers, Sequences, SequencesExt

CONSTANTS
  Byte,                      \* how many values a byte has
  CMD_PUSH, CMD_ACK, CMD_WASK, CMD_WINS

Cmds == {CMD_PUSH, CMD_ACK, CMD_WASK, CMD_WINS}

ASSUME WireAssumption == Byte \in Nat /\ Byte >= 2 /\ Cmds \subseteq 0 .. Byte - 1

OVERHEAD == 24

Range16 == Byte * Byte
Range32 == Range16 * Range16

\* A segment as ikcp_flush has it; wnd is as wide as ikcp_wndsize allows.
Header == [conv : 0 .. Range32 - 1, cmd : Cmds, frg : 0 .. Byte - 1,
           wnd : Nat, ts : 0 .. Range32 - 1, sn : 0 .. Range32 - 1,
           una : 0 .. Range32 - 1, len : 0 .. Range32 - 1]

-----------------------------------------------------------------------------
(* Encoding *)

\* l >> 8
Shift(l) == l \div Byte

Encode32(l) ==
  <<l % Byte, Shift(l) % Byte, Shift(Shift(l)) % Byte, Shift(Shift(Shift(l))) % Byte>>

\* (IUINT16)w, least byte first
Encode16(w) == LET c == w % Range16 IN <<c % Byte, Shift(c)>>

Encode8(c) == <<c % Byte>>

\* ikcp_encode_seg
EncodeSeg(seg) ==
  Encode32(seg.conv) \o Encode8(seg.cmd) \o Encode8(seg.frg) \o Encode16(seg.wnd) \o
  Encode32(seg.ts) \o Encode32(seg.sn) \o Encode32(seg.una) \o Encode32(seg.len)

-----------------------------------------------------------------------------
(* Decoding *)

\* The number whose least byte is p[i].
Decode32(p, i) == p[i] + Byte * (p[i + 1] + Byte * (p[i + 2] + Byte * p[i + 3]))
Decode16(p, i) == p[i] + Byte * p[i + 1]

\* The header that starts behind the first at bytes.
DecodeSeg(p, at) ==
  [conv |-> Decode32(p, at + 1), cmd |-> p[at + 5], frg |-> p[at + 6],
   wnd |-> Decode16(p, at + 7), ts |-> Decode32(p, at + 9),
   sn |-> Decode32(p, at + 13), una |-> Decode32(p, at + 17),
   len |-> Decode32(p, at + 21)]

\* ikcp_getconv
GetConv(p) == Decode32(p, 1)

\* Mutant: the payload is not skipped.
BehindHeader(seg, at) == at + OVERHEAD

\* Where the next header starts.
Behind(seg, at) == at + OVERHEAD + seg.len

\* Whether the payload ends before the datagram does.
Whole(p, seg, at) == seg.len <= Len(p) - at - OVERHEAD /\ seg.len < Range32 \div 2

\* Mutant: the conversation number is not compared.
ErrorButConv(conv, p, seg, at) ==
  IF ~Whole(p, seg, at) THEN -2 ELSE IF seg.cmd \notin Cmds THEN -3 ELSE 0

\* What ikcp_input objects to in a header.
Error(conv, p, seg, at) ==
  IF seg.conv # conv THEN -1
  ELSE IF ~Whole(p, seg, at) THEN -2
  ELSE IF seg.cmd \notin Cmds THEN -3 ELSE 0

\* The loop of ikcp_input in a control block of conversation conv: the
\* segments it takes up, each with its payload, and what it returns.
Taken(conv, p) ==
  LET loop[at \in 0..Len(p)] ==
        LET seg == DecodeSeg(p, at)
            error == Error(conv, p, seg, at)
            rest == loop[Behind(seg, at)]
        IN IF Len(p) - at < OVERHEAD THEN [segs |-> <<>>, ret |-> 0]
           ELSE IF error # 0 THEN [segs |-> <<>>, ret |-> error]
           ELSE [segs |-> <<[head |-> seg, data |-> SubSeq(p, at + OVERHEAD + 1,
                                                          Behind(seg, at))]>>
                            \o rest.segs,
                 ret |-> rest.ret]
  IN IF Len(p) < OVERHEAD THEN [segs |-> <<>>, ret |-> -1] ELSE loop[0]

-----------------------------------------------------------------------------
(* Properties *)

\* A header as the remote endpoint reads it: the window is cut to 16 bits.
OnWire(seg) == [seg EXCEPT !.wnd = @ % Range16]

\* The segments of a datagram are read as they were written, headers and
\* payloads, each at its place, only the window cut to 16 bits; and
\* ikcp_getconv finds the number of the conversation.
ReadsBack(conv, segs, p) ==
  segs # <<>> =>
    /\ GetConv(p) = conv
    /\ Taken(conv, p) =
         [segs |-> [i \in DOMAIN segs |-> [segs[i] EXCEPT !.head = OnWire(@)]],
          ret |-> 0]

\* protocol.txt: a packet "will not be accepted if it has a different
\* conversation id": nothing of it is taken.
Refused(conv, p) == Taken(conv, p) = [segs |-> <<>>, ret |-> -1]
=============================================================================
