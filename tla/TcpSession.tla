------------------------------ MODULE TcpSession ------------------------------
(***************************************************************************)
(* A TCP connection from connect and accept to the end of the transfer:    *)
(* clients (Network_Send) that connect and send, a server (Network_Receive)*)
(* whose listener thread and whose main thread take segments from one ring.*)
(* The listener looks at the first segment, takes it when it is a SYN and  *)
(* gives the count back when it is not; accept and recv take whatever comes*)
(* first.                                                                  *)
(*                                                                         *)
(* Here a semaphore does what its name says: a section is one step (PVRing *)
(* says what else may happen).  Data is counted in segments, a window is   *)
(* sent in one step since send reads nothing between its segments, and     *)
(* numbers do not wrap; TcpTransfer has bytes, single segments and wrap.   *)
(***************************************************************************)
EXTENDS Integers, Sequences, FiniteSets

CONSTANTS
  Clients,
  BufLen,      \* buflen, in segments
  Window,      \* CLIENT_WIN_SIZE, SERVER_WIN_SIZE: 5 segments
  Calls,       \* calls of send and of recv on the connection; 1 in Main.cpp
  Seqs,        \* what rand() % 65536 may give
  RingSize,    \* MAX_QUE: 1000
  MaxRequests, \* MAX_REQUEST_QUE: 5
  MaxFaults    \* bound: segments lost, and segments without flags that reach
               \* a client, together

Nobody == "nobody"

ASSUME SessionAssumption ==
  /\ {BufLen, Window, Calls, RingSize, MaxRequests} \subseteq Nat \ {0}
  /\ Seqs \subseteq Nat /\ Seqs # {}
  /\ MaxFaults \in Nat
  /\ Nobody \notin Clients

VARIABLES
  client,      \* for each client: where it is, seq, client_gp, send's window
  toServer,    \* for each client, segments on their way
  toClient,    \* on their way, or in the client's ring
  ring,        \* tcp_recv_pool of the server
  listener,    \* what start_listen is at, and the SYN in its hands
  requests,    \* tcp_request_que
  server,      \* where main is, server_gp, recv's window
  bits,        \* recv_data_bit
  stored,      \* recv_data_buffer
  lost,
  strays

vars == <<client, toServer, toClient, ring, listener, requests, server, bits,
          stored, lost, strays>>

NoData == [call |-> 0, at |-> 0]

Segment(c, flags, seq, number, data) ==
  [from |-> c, flags |-> flags, seq |-> seq, number |-> number, data |-> data]

\* What main sets up before it calls connect, and before accept.
Init ==
  /\ client = [c \in Clients |-> [at |-> "start", init |-> 0, seq |-> 0, serverInit |-> 0,
                                  call |-> 0, start |-> 0, front |-> 0]]
  /\ toServer = [c \in Clients |-> <<>>]
  /\ toClient = [c \in Clients |-> <<>>]
  /\ ring = <<>>
  /\ listener = [at |-> "look", syn |-> <<>>]
  /\ requests = <<>>
  /\ server = [at |-> "accept", peer |-> Nobody, init |-> 0, clientInit |-> 0,
               call |-> 0, start |-> 0]
  /\ bits = {}
  /\ stored = [j \in 0 .. BufLen - 1 |-> NoData]
  /\ lost = 0 /\ strays = 0

WinEnd(start) == IF start + Window > BufLen THEN BufLen ELSE start + Window

(***************************************************************************)
(* The client.                                                             *)
(***************************************************************************)
Connect(c) ==
  /\ client[c].at = "start"
  /\ \E n \in Seqs :
       /\ client' = [client EXCEPT ![c].at = "connect", ![c].init = n, ![c].seq = n + 1]
       /\ toServer' = [toServer EXCEPT ![c] = Append(@, Segment(c, {"SYN"}, n, 0, NoData))]
  /\ UNCHANGED <<toClient, ring, listener, requests, server, bits, stored, lost, strays>>

\* connect takes segments until one has both flags; it answers that one even
\* when the number it acknowledges is another.
ConnectTake(c) ==
  /\ client[c].at = "connect"
  /\ toClient[c] # <<>>
  /\ toClient' = [toClient EXCEPT ![c] = Tail(@)]
  /\ LET seg == Head(toClient[c])
     IN  IF {"SYN", "ACK"} \subseteq seg.flags
           THEN /\ toServer' = [toServer EXCEPT ![c] = Append(@,
                     Segment(c, {"ACK"}, client[c].seq, seg.seq + 1, NoData))]
                /\ client' = [client EXCEPT ![c].at = "send", ![c].serverInit = seg.seq,
                                            ![c].call = 1]
           ELSE UNCHANGED <<toServer, client>>
  /\ UNCHANGED <<ring, listener, requests, server, bits, stored, lost, strays>>

\* A window: its first segment is taken from win_cfront, the others from
\* their places in the window.
SendWindow(c) ==
  /\ client[c].at = "send"
  /\ LET me == client[c]
         offset(i) == IF i = 1 THEN me.front ELSE me.start + i - 1
         window == [i \in 1 .. WinEnd(me.start) - me.start |->
                      Segment(c, {}, me.seq + offset(i), 0,
                              [call |-> me.call, at |-> offset(i)])]
     IN  toServer' = [toServer EXCEPT ![c] = @ \o window]
  /\ client' = [client EXCEPT ![c].at = "wait", ![c].front = WinEnd(client[c].start)]
  /\ UNCHANGED <<toClient, ring, listener, requests, server, bits, stored, lost, strays>>

\* The wait for an acknowledgement, which ends the call or starts the next
\* window; a segment without ACK starts the same one again.
SendTake(c) ==
  /\ client[c].at = "wait"
  /\ toClient[c] # <<>>
  /\ toClient' = [toClient EXCEPT ![c] = Tail(@)]
  /\ LET me    == client[c]
         seg   == Head(toClient[c])
         start == seg.number - me.seq
     IN  client' = [client EXCEPT ![c] =
           CASE "ACK" \notin seg.flags -> [me EXCEPT !.at = "send"]
             [] "ACK" \in seg.flags /\ start < BufLen ->
                  [me EXCEPT !.at = "send", !.start = start, !.front = start]
             [] OTHER ->
                  [me EXCEPT !.at = IF me.call < Calls THEN "send" ELSE "done",
                             !.call = IF me.call < Calls THEN me.call + 1 ELSE me.call,
                             !.seq = me.seq + BufLen, !.start = 0, !.front = 0]]
  /\ UNCHANGED <<toServer, ring, listener, requests, server, bits, stored, lost, strays>>

(***************************************************************************)
(* The server's listener thread.                                           *)
(***************************************************************************)
\* tcp_recv_full: the listener has taken one from it while it looks.
Full == Len(ring) - (IF listener.at = "return" THEN 1 ELSE 0)

\* Mutant: the head is not moved past a SYN.
BugLookOnly ==
  /\ listener.at = "look"
  /\ Full > 0
  /\ IF "SYN" \in Head(ring).flags
       THEN listener' = [at |-> "queue", syn |-> <<Head(ring)>>]
       ELSE listener' = [listener EXCEPT !.at = "return"]
  /\ UNCHANGED <<ring, client, toServer, toClient, requests, server, bits, stored, lost, strays>>

\* Mutant: the listener takes what it should only look at.
BugTakesAny ==
  /\ listener.at = "look"
  /\ Full > 0
  /\ ring' = Tail(ring)
  /\ listener' = IF "SYN" \in Head(ring).flags
                   THEN [at |-> "queue", syn |-> <<Head(ring)>>]
                   ELSE listener
  /\ UNCHANGED <<client, toServer, toClient, requests, server, bits, stored, lost, strays>>

Look ==
  /\ listener.at = "look"
  /\ Full > 0
  /\ IF "SYN" \in Head(ring).flags
       THEN /\ ring' = Tail(ring)
            /\ listener' = [at |-> "queue", syn |-> <<Head(ring)>>]
       ELSE /\ listener' = [listener EXCEPT !.at = "return"]
            /\ UNCHANGED ring
  /\ UNCHANGED <<client, toServer, toClient, requests, server, bits, stored, lost, strays>>

\* V(&tcp_recv_full) for a segment that is not a SYN.
ReturnCount ==
  /\ listener.at = "return"
  /\ listener' = [listener EXCEPT !.at = "look"]
  /\ UNCHANGED <<client, toServer, toClient, ring, requests, server, bits, stored, lost, strays>>

\* Mutant: the listener does not wait for room in the request queue.
BugNoRoom ==
  /\ listener.at = "queue"
  /\ requests' = requests \o listener.syn
  /\ listener' = [at |-> "look", syn |-> <<>>]
  /\ UNCHANGED <<client, toServer, toClient, ring, server, bits, stored, lost, strays>>

\* tcp_request_que takes the SYN when it has room.
QueueRequest ==
  /\ listener.at = "queue"
  /\ Len(requests) < MaxRequests
  /\ requests' = requests \o listener.syn
  /\ listener' = [at |-> "look", syn |-> <<>>]
  /\ UNCHANGED <<client, toServer, toClient, ring, server, bits, stored, lost, strays>>

(***************************************************************************)
(* The server's main thread.                                               *)
(***************************************************************************)
\* accept answers the first request.
AcceptRequest ==
  /\ server.at = "accept"
  /\ requests # <<>>
  /\ requests' = Tail(requests)
  /\ LET syn == Head(requests)
     IN  \E n \in Seqs :
           /\ server' = [server EXCEPT !.at = "accepting", !.peer = syn.from, !.init = n,
                                       !.clientInit = syn.seq]
           /\ toClient' = [toClient EXCEPT ![syn.from] = Append(@,
                Segment(syn.from, {"SYN", "ACK"}, n, syn.seq + 1, NoData))]
  /\ UNCHANGED <<client, toServer, ring, listener, bits, stored, lost, strays>>

\* Mutant: any segment ends the wait for the third handshake.
BugAcceptAny ==
  /\ server.at = "accepting"
  /\ Full > 0
  /\ ring' = Tail(ring)
  /\ server' = [server EXCEPT !.at = "recv", !.call = 1]
  /\ UNCHANGED <<client, toServer, toClient, listener, requests, bits, stored, lost, strays>>

\* The third handshake is the first segment with ACK; the segments before it
\* are gone.
AcceptTake ==
  /\ server.at = "accepting"
  /\ Full > 0
  /\ ring' = Tail(ring)
  /\ server' = IF "ACK" \in Head(ring).flags
                 THEN [server EXCEPT !.at = "recv", !.call = 1]
                 ELSE server
  /\ UNCHANGED <<client, toServer, toClient, listener, requests, bits, stored, lost, strays>>

\* Mutant: the upper end of the window is not tested.
BugNoWindowEnd ==
  /\ server.at = "recv"
  /\ Full > 0
  /\ ring' = Tail(ring)
  /\ LET seg == Head(ring)
         at  == seg.seq - (server.clientInit + 1)
     IN  IF at >= server.start
           THEN /\ bits' = bits \cup {at % BufLen}
                /\ stored' = [stored EXCEPT ![at % BufLen] =
                                IF seg.data = NoData THEN @ ELSE seg.data]
           ELSE UNCHANGED <<bits, stored>>
  /\ server' = [server EXCEPT !.at = IF Len(ring) = 1 THEN "acknowledge" ELSE "recv"]
  /\ UNCHANGED <<client, toServer, toClient, listener, requests, lost, strays>>

\* recv takes any segment whose number falls in its window, from whomever and
\* of whatever kind: one without data copies nothing and sets its bit.
RecvTake ==
  /\ server.at = "recv"
  /\ Full > 0
  /\ ring' = Tail(ring)
  /\ LET seg == Head(ring)
         at  == seg.seq - (server.clientInit + 1)
     IN  IF at >= server.start /\ at < WinEnd(server.start)
           THEN /\ bits' = bits \cup {at}
                /\ stored' = [stored EXCEPT ![at] = IF seg.data = NoData THEN @ ELSE seg.data]
           ELSE UNCHANGED <<bits, stored>>
  /\ server' = [server EXCEPT !.at = IF Len(ring) = 1 THEN "acknowledge" ELSE "recv"]
  /\ UNCHANGED <<client, toServer, toClient, listener, requests, lost, strays>>

\* The acknowledgement names the first bit that is not set; the next call
\* clears the buffer and not the bits.
Acknowledge ==
  /\ server.at = "acknowledge"
  /\ \E next \in 0 .. BufLen :
       LET over == next >= BufLen
           last == server.call = Calls
       IN  /\ next \notin bits /\ \A j \in 0 .. next - 1 : j \in bits
           /\ toClient' = [toClient EXCEPT ![server.peer] = Append(@,
                Segment(server.peer, {"ACK"}, server.init + 1,
                        server.clientInit + 1 + next, NoData))]
           /\ server' = [server EXCEPT
                !.at = IF over /\ last THEN "done" ELSE "recv",
                !.call = IF over /\ ~ last THEN @ + 1 ELSE @,
                !.start = IF over THEN 0 ELSE next]
           /\ stored' = IF over /\ ~ last THEN [j \in 0 .. BufLen - 1 |-> NoData] ELSE stored
  /\ UNCHANGED <<client, toServer, ring, listener, requests, bits, lost, strays>>

(***************************************************************************)
(* The surroundings.                                                       *)
(***************************************************************************)
\* transport_tcp_recv of the server; segments of two clients mix in any way.
Deliver(c) ==
  /\ toServer[c] # <<>>
  /\ Len(ring) < RingSize
  /\ ring' = Append(ring, Head(toServer[c]))
  /\ toServer' = [toServer EXCEPT ![c] = Tail(@)]
  /\ UNCHANGED <<client, toClient, listener, requests, server, bits, stored, lost, strays>>

LoseToServer(c) ==
  /\ lost + strays < MaxFaults
  /\ toServer[c] # <<>>
  /\ toServer' = [toServer EXCEPT ![c] = Tail(@)]
  /\ lost' = lost + 1
  /\ UNCHANGED <<client, toClient, ring, listener, requests, server, bits, stored, strays>>

LoseToClient(c) ==
  /\ lost + strays < MaxFaults
  /\ toClient[c] # <<>>
  /\ toClient' = [toClient EXCEPT ![c] = Tail(@)]
  /\ lost' = lost + 1
  /\ UNCHANGED <<client, toServer, ring, listener, requests, server, bits, stored, strays>>

\* A client's ring takes any segment with a right checksum and port.
Stray(c) ==
  /\ lost + strays < MaxFaults
  /\ client[c].at \in {"connect", "wait"}
  /\ toClient' = [toClient EXCEPT ![c] = Append(@, Segment(c, {}, 0, 0, NoData))]
  /\ strays' = strays + 1
  /\ UNCHANGED <<client, toServer, ring, listener, requests, server, bits, stored, lost>>

ClientStep(c) == ConnectTake(c) \/ SendWindow(c) \/ SendTake(c)
Listener == Look \/ ReturnCount \/ QueueRequest
ServerTake == AcceptTake \/ RecvTake
ServerMain == AcceptRequest \/ ServerTake \/ Acknowledge

Next ==
  \/ \E c \in Clients : \/ Connect(c) \/ ClientStep(c) \/ Deliver(c)
                        \/ LoseToServer(c) \/ LoseToClient(c) \/ Stray(c)
  \/ Listener
  \/ ServerMain

Spec == Init /\ [][Next]_vars

(***************************************************************************)
(* The threads keep running.  While the listener looks, the last count is  *)
(* gone from tcp_recv_full, and the main thread's poll may fail; but the   *)
(* listener sleeps 1.1 s after each look and holds the count for           *)
(* microseconds, so the poll meets it in the end: strong fairness of the   *)
(* main thread's takes.                                                    *)
(***************************************************************************)
Fairness ==
  /\ \A c \in Clients : WF_vars(ClientStep(c)) /\ WF_vars(Deliver(c))
  /\ WF_vars(Listener)
  /\ WF_vars(AcceptRequest) /\ WF_vars(Acknowledge)
  /\ SF_vars(ServerTake)

FairSpec == Spec /\ Fairness

------------------------------------------------------------------------------
(***************************************************************************)
(* Properties.                                                             *)
(***************************************************************************)
Segments ==
  [from : Clients, flags : SUBSET {"SYN", "ACK"}, seq : Nat, number : Nat,
   data : [call : 0 .. Calls, at : 0 .. BufLen]]

TypeOK ==
  /\ \A c \in Clients :
       /\ client[c].at \in {"start", "connect", "send", "wait", "done"}
       /\ client[c].start \in 0 .. BufLen /\ client[c].front \in 0 .. BufLen
       /\ toServer[c] \in Seq(Segments) /\ toClient[c] \in Seq(Segments)
  /\ ring \in Seq(Segments) /\ Len(ring) <= RingSize
  /\ Full >= 0
  /\ listener.at \in {"look", "return", "queue"} /\ listener.syn \in Seq(Segments)
  /\ requests \in Seq(Segments) /\ Len(requests) <= MaxRequests
  /\ server.at \in {"accept", "accepting", "recv", "acknowledge", "done"}
  /\ server.peer \in Clients \cup {Nobody}
  /\ server.start \in 0 .. BufLen - 1
  /\ bits \subseteq 0 .. BufLen - 1

\* A connection request is somewhere once: on its way, in the ring, with the
\* listener, in the request queue, or accepted.
Requests(c) ==
  LET syns(s) == Cardinality({i \in DOMAIN s : s[i].from = c /\ "SYN" \in s[i].flags})
  IN  syns(toServer[c]) + syns(ring) + syns(listener.syn) + syns(requests)
        + (IF server.peer = c THEN 1 ELSE 0)

RequestedOnce == \A c \in Clients : Requests(c) <= 1

\* accept returns only after the client it answered has returned from connect,
\* and then both sides have each other's initial number, whatever other clients
\* send and whatever accept throws away meanwhile.
BothConnected ==
  server.at \in {"recv", "acknowledge", "done"} =>
    LET peer == client[server.peer]
    IN  /\ peer.at \in {"send", "wait", "done"}
        /\ peer.init = server.clientInit /\ peer.serverInit = server.init

\* In the first call of recv a bit that is set has its data in the buffer,
\* unless a connection request of another client carries the number of that
\* place: recv takes it for data.
BitExplained ==
  (server.at \in {"recv", "acknowledge"} /\ server.call = 1) =>
    \A j \in bits :
      \/ stored[j] = [call |-> 1, at |-> j]
      \/ \E c \in Clients \ {server.peer} : client[c].init = server.clientInit + 1 + j

\* recv acknowledges when it finds one segment in the ring: if that one is
\* another client's request, and the listener takes it first, recv waits with
\* everything it needs in its buffer.
Overtaken ==
  /\ server.at = "recv" /\ ring = <<>> /\ toServer[server.peer] = <<>>
  /\ bits = 0 .. BufLen - 1
  /\ \E syn \in {requests[i] : i \in DOMAIN requests}
                  \cup {listener.syn[i] : i \in DOMAIN listener.syn} : syn.from # server.peer

\* If nothing is lost, a request that is accepted leads to the end of the
\* transfer on both sides: neither the listener nor other clients' requests
\* take a segment that the connection needs, unless the end of the window is
\* overtaken in that one way.
SessionCompletes ==
  \A c \in Clients :
    (server.peer = c) ~>
      ((server.at = "done" /\ client[c].at = "done") \/ Overtaken \/ lost > 0)
==============================================================================
