----------------------------- MODULE KcpRestart -----------------------------
(***************************************************************************)
(* KcpArq when the program of endpoint A is started again on the same      *)
(* port.  Its new control block begins with the conversation number 0 and  *)
(* the sequence number 0 of every control block of the program; the        *)
(* remote endpoint finds its old block under the same IPEndPoint and goes  *)
(* on with it, and datagrams of before are still on their way.             *)
(***************************************************************************)
EXTENDS KcpArq

CONSTANT MaxRestarts   \* bound: how often A is started again

VARIABLES
  restarts,
  taken        \* rcv_nxt of the remote endpoint when A was last started

allVars == <<vars, restarts, taken>>

RestartInit == Init /\ restarts = 0 /\ taken = 0

Anew(f, value) == [f EXCEPT ![A] = value]

\* NetClientUtil.StartClientThreads in a new process: KCPConnect.Create with
\* the CONV of every connection, and empty queues.
Restart ==
  /\ restarts < MaxRestarts
  /\ restarts' = restarts + 1
  /\ taken' = rcv_nxt[B]
  /\ stream' = Anew(stream, <<>>)
  /\ delivered' = Anew(delivered, <<>>)
  /\ snd_queue' = Anew(snd_queue, <<>>)
  /\ snd_buf' = Anew(snd_buf, <<>>)
  /\ snd_una' = Anew(snd_una, 0)
  /\ snd_nxt' = Anew(snd_nxt, 0)
  /\ snd_wnd' = Anew(snd_wnd, WND_SND)
  /\ rmt_wnd' = Anew(rmt_wnd, WND_RCV)
  /\ probing' = Anew(probing, FALSE)
  /\ rcv_nxt' = Anew(rcv_nxt, 0)
  /\ rcv_buf' = Anew(rcv_buf, <<>>)
  /\ rcv_queue' = Anew(rcv_queue, <<>>)
  /\ rcv_wnd' = Anew(rcv_wnd, WND_RCV)
  /\ acklist' = Anew(acklist, {})
  /\ probe' = Anew(probe, FALSE)
  /\ UNCHANGED netVars

RestartNext ==
  \/ Next /\ UNCHANGED <<restarts, taken>>
  \/ Restart

RestartSpec == RestartInit /\ [][RestartNext]_allVars

-----------------------------------------------------------------------------
(* Properties *)

\* What the new program has sent and seen acknowledged is data the remote
\* endpoint took from it: the port alone tells it from the one of before, as
\* KCPConnect.cs says of the conversation number it does not use.
AckedIsTaken == snd_una[A] <= rcv_nxt[B] - taken
=============================================================================
