------------------------------- MODULE KcpWrap ------------------------------
(***************************************************************************)
(* The conversation of KcpArq with the sequence numbers the code has:      *)
(* 32 bits wide, compared by _itimediff.  KcpArq counts without a limit;   *)
(* here every comparison ikcp_input and ikcp_flush make is made on the     *)
(* numbers cut to their width, and must come out as it does in KcpArq.     *)
(*                                                                         *)
(* The conversation has exchanged Origin segments each way before, and is  *)
(* idle at Init, so that the numbers wrap within a few segments.           *)
(***************************************************************************)
EXTENDS KcpArq, KcpSerial

CONSTANTS
  Origin,   \* segments sent, acknowledged and read before Init
  W         \* the largest window

ASSUME WrapAssumption ==
  /\ Origin \in Nat
  /\ W \in Nat
  /\ WND_SND <= W /\ WND_RCV <= W
  /\ \A p \in Peer : SndWnds[p] \subseteq 0..W /\ RcvWnds[p] \subseteq 0..W
  /\ 2 * W < H

\* The 32-bit field that holds number n.
Field(n) == Cut(Origin + n)

\* The difference the code computes for two numbers, from their fields.
Seen(later, earlier) == Diff(Field(later), Field(earlier))

-----------------------------------------------------------------------------
(* The comparisons *)

\* A datagram no older than H - 2 * W segments: what it acknowledges is not
\* farther behind snd_una, nor what it carries behind rcv_nxt.
Fresh(d) ==
  LET p == d.to IN
    /\ d.una >= snd_una[p] - (H - 2 * W)
    /\ \A s \in d.ack : s >= snd_una[p] - (H - 2 * W)
    /\ \A s \in DOMAIN d.push : s >= rcv_nxt[p] - (H - 2 * W)

SameNumber(a, b) == Field(a) = Field(b)

\* ikcp_parse_una: which segments una covers.
UnaVerdict(p, una) ==
  \A s \in DOMAIN snd_buf[p] : Seen(una, s) > 0 <=> una > s

\* ikcp_parse_ack: whether the ACK is of a segment in flight, and of which.
AckVerdict(p, sn) ==
  /\ Seen(sn, snd_una[p]) < 0 <=> sn < snd_una[p]
  /\ Seen(sn, snd_nxt[p]) >= 0 <=> sn >= snd_nxt[p]
  /\ \A s \in DOMAIN snd_buf[p] :
       /\ SameNumber(sn, s) <=> sn = s
       /\ Seen(sn, s) < 0 <=> sn < s

\* ikcp_input: the greatest of the ACKs in a datagram.
MaxackVerdict(ack) ==
  \A sn, maxack \in ack : Seen(sn, maxack) > 0 <=> sn > maxack

\* ikcp_input and ikcp_parse_data: whether a PUSH is in the window, at the
\* rcv_nxt that its turn in the datagram finds, where in rcv_buf it goes, and
\* which rcv_nxt the move loop takes it at.
PushVerdict(p, push, sn) ==
  LET nxt == RcvNxtAt(p, push, sn) IN
    /\ Seen(sn, nxt + rcv_wnd[p]) < 0 <=> sn < nxt + rcv_wnd[p]
    /\ Seen(sn, nxt) >= 0 <=> sn >= nxt
    /\ sn >= nxt /\ sn < nxt + rcv_wnd[p] =>
         \A s \in DOMAIN rcv_buf[p] :
           /\ SameNumber(sn, s) <=> sn = s
           /\ Seen(sn, s) > 0 <=> sn > s
    /\ sn >= nxt /\ sn < nxt + rcv_wnd[p] =>
         \A move \in nxt .. nxt + W : SameNumber(sn, move) <=> sn = move

\* The move loops of ikcp_parse_data and ikcp_recv: which segment is next.
MoveVerdict(p) ==
  \A s \in DOMAIN rcv_buf[p], nxt \in rcv_nxt[p] .. rcv_nxt[p] + W :
    SameNumber(s, nxt) <=> s = nxt

\* ikcp_input: whether snd_una has moved, wherever it has moved to.
ProgressVerdict(p) ==
  \A una \in snd_una[p] .. snd_nxt[p] : Seen(una, snd_una[p]) > 0 <=> una > snd_una[p]

\* ikcp_flush: whether the window lets one more segment through.
WindowVerdict(p) ==
  \A c \in 0..W : Seen(snd_nxt[p], snd_una[p] + c) < 0
                    <=> snd_nxt[p] < snd_una[p] + c

\* However the numbers wrap, no comparison on 32 bits comes out wrong, for
\* datagrams that are not older than H - 2 * W segments, and windows of less
\* than H / 2: in the code, 2^31 and 2^30.
WrapSafe ==
  /\ \A p \in Peer : WindowVerdict(p) /\ MoveVerdict(p) /\ ProgressVerdict(p)
  /\ \A d \in net : Fresh(d) =>
       /\ UnaVerdict(d.to, d.una)
       /\ MaxackVerdict(d.ack)
       /\ \A sn \in d.ack : AckVerdict(d.to, sn)
       /\ \A sn \in DOMAIN d.push : PushVerdict(d.to, d.push, sn)
=============================================================================
