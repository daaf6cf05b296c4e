------------------------------ MODULE Service -------------------------------
(***************************************************************************)
(* The C# program: several clients and one server.                         *)
(*                                                                         *)
(* A client's console thread puts texts and files on _pcksToSend, files in *)
(* chunks; its service thread takes one packet per tick and gives it to    *)
(* ikcp_send.  The server's receive thread queues datagrams; its service   *)
(* thread hands them to the control block of their endpoint, creating it   *)
(* with the first one, then takes one packet per tick from the first block *)
(* that has one, and reassembles chunks in one static list.  Either thread *)
(* of the server ends for good when an exception reaches ThreadUtil.       *)
(*                                                                         *)
(* Between ikcp_send and ikcp_recv is what KcpArq promises (MsgChannel):   *)
(* packets arrive whole, in order, each once, sooner or later.             *)
(***************************************************************************)
EXTENDS Integers, Sequences, FiniteSets, SequencesExt

CONSTANTS
  Clients,
  Inputs,      \* client -> what the user types: for each text or file, the
               \* number of packets it is sent in (1: not chunked)
  Endless,     \* clients whose user, when all that is handled, begins again
  Faults       \* which threads of the server may meet an exception

ASSUME ServiceAssumption ==
  /\ \A c \in Clients : Inputs[c] \in Seq(Nat \ {0})
  /\ Endless \subseteq Clients
  /\ Faults \subseteq {"receive", "service"}

VARIABLES
  typed,        \* how many inputs the console thread has handled
  pcksToSend,   \* _pcksToSend of each client
  channel,      \* packets between ikcp_send and the server's control block
  datagrams,    \* packets of datagrams on the server's _pcksReceived
  connects,     \* the keys of _KCPConnects in the order they were added
  rcv_queue,    \* packets the server can read, for each client
  cache,        \* _kcpPckReceiveCache
  handled,      \* history: the contents handled under the key of each client,
                \* since its user last began
  alive         \* the threads of the server that run

clientVars == <<typed, pcksToSend>>
serverVars == <<connects, rcv_queue, cache, handled>>
vars == <<clientVars, channel, datagrams, serverVars, alive>>

\* A stretch of the user's input number m: chunk i of n.
Piece(c, m, i) == [of |-> c, input |-> m, chunk |-> i]

Init ==
  /\ typed = [c \in Clients |-> 0]
  /\ pcksToSend = [c \in Clients |-> <<>>]
  /\ channel = [c \in Clients |-> <<>>]
  /\ datagrams = <<>>
  /\ connects = <<>>
  /\ rcv_queue = [c \in Clients |-> <<>>]
  /\ cache = <<>>
  /\ handled = [c \in Clients |-> <<>>]
  /\ alive = {"receive", "service"}

-----------------------------------------------------------------------------
(* A client *)

\* What _sendBytes puts on the queue for an input that makes n packets.
ChunksOf(c, m, n) ==
  [i \in 1..n |-> [type |-> IF n = 1 THEN "WHOLE" ELSE IF i < n THEN "MULS" ELSE "MULE",
                   piece |-> Piece(c, m, i)]]

\* The console thread: SendText or SendFile
Type(c) ==
  /\ typed[c] < Len(Inputs[c])
  /\ typed' = [typed EXCEPT ![c] = @ + 1]
  /\ pcksToSend' = [pcksToSend EXCEPT
                      ![c] = @ \o ChunksOf(c, typed'[c], Inputs[c][typed'[c]])]
  /\ UNCHANGED <<channel, datagrams, serverVars, alive>>

\* A user who never stops begins again: typed and handled start over.
Again(c) ==
  /\ c \in Endless
  /\ typed[c] = Len(Inputs[c]) /\ Len(handled[c]) = Len(Inputs[c])
  /\ typed' = [typed EXCEPT ![c] = 0]
  /\ handled' = [handled EXCEPT ![c] = <<>>]
  /\ UNCHANGED <<pcksToSend, channel, datagrams, connects, rcv_queue, cache, alive>>

\* The client's service thread: one packet per tick, sent by the flush of a
\* later ikcp_update.
ClientTick(c) ==
  /\ pcksToSend[c] # <<>>
  /\ channel' = [channel EXCEPT ![c] = Append(@, Head(pcksToSend[c]))]
  /\ pcksToSend' = [pcksToSend EXCEPT ![c] = Tail(@)]
  /\ UNCHANGED <<typed, datagrams, serverVars, alive>>

-----------------------------------------------------------------------------
(* The server *)

\* The receive thread: TickReceiveMsg
Receive(c) ==
  /\ "receive" \in alive
  /\ channel[c] # <<>>
  /\ datagrams' = Append(datagrams, [from |-> c, pck |-> Head(channel[c])])
  /\ channel' = [channel EXCEPT ![c] = Tail(@)]
  /\ UNCHANGED <<clientVars, serverVars, alive>>

\* Mutant: the table is looked up once for all that was received.
InputAgain(server, d) ==
  [server EXCEPT !.keys = IF Contains(connects, d.from) THEN @ ELSE Append(@, d.from),
                 !.queue[d.from] = Append(@, d.pck)]

\* KCPUtil.Input connects an endpoint the first time it is heard of, and gives
\* the datagram to its control block.
Input(server, d) ==
  [server EXCEPT !.keys = IF Contains(@, d.from) THEN @ ELSE Append(@, d.from),
                 !.queue[d.from] = Append(@, d.pck)]

\* HandleReceiveMsg empties _pcksReceived, one datagram after the other.
HandleReceiveMsg ==
  LET after[n \in 0..Len(datagrams)] ==
        IF n = 0 THEN [keys |-> connects, queue |-> rcv_queue]
        ELSE Input(after[n - 1], datagrams[n])
  IN after[Len(datagrams)]

\* The handler of a whole packet
PacketHandler(c, content) == handled' = [handled EXCEPT ![c] = Append(@, content)]

\* Mutant: the cache is not cleared after the last chunk.
OnPckBytesKeeps(c, pck) ==
  /\ IF pck.type = "WHOLE" THEN UNCHANGED cache ELSE cache' = Append(cache, pck.piece)
  /\ CASE pck.type = "MULS" -> UNCHANGED handled
       [] pck.type = "MULE" -> PacketHandler(c, cache')
       [] pck.type = "WHOLE" -> PacketHandler(c, <<pck.piece>>)
  /\ UNCHANGED alive

\* The types that chunks put together may have.  The first chunk of an input
\* begins with the input's type; a later one begins with any byte of the user's:
\* the type of a whole packet, of a chunk, or no type.  A byte that says MULE is
\* dropped and the next one looked at, so there may be none left.
TypesOf(content) ==
  IF Head(content).chunk = 1 THEN {"WHOLE"} ELSE {"WHOLE", "MULS", "unknown", "none"}

\* OnPckBytes, which calls itself with the chunks when the last one is there.
\* Without a byte to look at it throws, and the service thread ends.
OnPckBytes(c, pck) ==
  \/ /\ pck.type = "MULS"
     /\ cache' = Append(cache, pck.piece)
     /\ UNCHANGED <<handled, alive>>
  \/ /\ pck.type = "MULE"
     /\ LET content == Append(cache, pck.piece)
        IN \E type \in TypesOf(content) :
             /\ cache' = IF type = "MULS" THEN content ELSE <<>>
             /\ IF type = "WHOLE" THEN PacketHandler(c, content) ELSE UNCHANGED handled
             /\ alive' = IF type = "none" THEN alive \ {"service"} ELSE alive
  \/ /\ pck.type = "WHOLE"
     /\ PacketHandler(c, <<pck.piece>>)
     /\ UNCHANGED <<cache, alive>>

\* Mutant: only the connection added last is asked for a packet.
FirstReadableLast(keys, queue) ==
  SelectInSeq(keys, LAMBDA c : c = Last(keys) /\ queue[c] # <<>>)

\* TryReceive: the first connection that has a packet
FirstReadable(keys, queue) == SelectInSeq(keys, LAMBDA c : queue[c] # <<>>)

\* One tick of the service thread: HandleReceiveMsg, then TryReceive and the
\* handler of one packet.
ServerTick ==
  /\ "service" \in alive
  /\ datagrams' = <<>>
  /\ LET server == HandleReceiveMsg
         i == FirstReadable(server.keys, server.queue)
         c == server.keys[i]
     IN /\ connects' = server.keys
        /\ \/ /\ i = 0
              /\ rcv_queue' = server.queue
              /\ UNCHANGED <<cache, handled, alive>>
           \/ /\ i > 0
              /\ rcv_queue' = [server.queue EXCEPT ![c] = Tail(@)]
              /\ OnPckBytes(c, Head(server.queue[c]))
  /\ UNCHANGED <<clientVars, channel>>

\* An exception in a tick: an error of the socket in Receive or Send, or of
\* the file in a handler.
ThreadEnds(t) ==
  /\ t \in Faults /\ t \in alive
  /\ alive' = alive \ {t}
  /\ UNCHANGED <<clientVars, channel, datagrams, serverVars>>

Next ==
  \/ \E c \in Clients : Type(c) \/ Again(c) \/ ClientTick(c) \/ Receive(c)
  \/ ServerTick
  \/ \E t \in {"receive", "service"} : ThreadEnds(t)

Spec == Init /\ [][Next]_vars

\* The threads that have not ended keep running, and ARQ delivers.
FairSpec ==
  /\ Spec
  /\ \A c \in Clients : WF_vars(ClientTick(c)) /\ WF_vars(Receive(c))
  /\ WF_vars(ServerTick)

-----------------------------------------------------------------------------
(* Properties *)

Pieces == [of : Clients, input : Nat \ {0}, chunk : Nat \ {0}]
Packet == [type : {"WHOLE", "MULS", "MULE"}, piece : Pieces]

\* The types of the variables; a client is in the table at most once.
TypeOK ==
  /\ typed \in [Clients -> Nat] /\ \A c \in Clients : typed[c] <= Len(Inputs[c])
  /\ {pcksToSend, channel, rcv_queue} \subseteq [Clients -> Seq(Packet)]
  /\ datagrams \in Seq([from : Clients, pck : Packet])
  /\ connects \in Seq(Clients) /\ IsInjective(connects)
  /\ cache \in Seq(Pieces)
  /\ handled \in [Clients -> Seq(Seq(Pieces))]
  /\ alive \subseteq {"receive", "service"}

InputPieces(c, m) == [i \in 1..Inputs[c][m] |-> Piece(c, m, i)]

\* The handler sees what each client's user typed, input by input, whole and
\* under the key of that client: NetUtil.cs logs "receive file from:" the key.
HandledAsTyped ==
  \A c \in Clients :
    /\ Len(handled[c]) <= typed[c]
    /\ \A m \in DOMAIN handled[c] : handled[c][m] = InputPieces(c, m)

\* A user who never stops is asked for a packet before c: TryReceive always
\* begins with the connection that was added first, so it may never come to c's.
Crowded(c) ==
  \E i \in DOMAIN connects, j \in DOMAIN connects :
    i < j /\ connects[i] \in Endless /\ connects[j] = c

\* The receive thread has had all of c's first m inputs.
Arrived(c, m) ==
  \A pck \in Range(pcksToSend[c]) \cup Range(channel[c]) : pck.piece.input > m

\* Everything typed is handled in the end while the service thread runs, unless
\* a user who never stops has connected earlier: no other client delays it for
\* good, neither one that has connected later nor one that comes to an end.
\* What has been received is handled also after the receive thread has ended.
EventuallyHandled ==
  \A c \in Clients : \A m \in DOMAIN Inputs[c] :
    typed[c] >= m ~> \/ Len(handled[c]) >= m
                     \/ Crowded(c)
                     \/ "service" \notin alive
                     \/ "receive" \notin alive /\ ~Arrived(c, m)
=============================================================================
