--------------------------------- MODULE Host ---------------------------------
(***************************************************************************)
(* One host: the five threads between the network card and an application  *)
(* that sends UDP datagrams, pings and receives.  A frame climbs           *)
(* thread_receive, thread_handout and thread_ip_handout; a datagram goes   *)
(* down network_ipv4_send, thread_ip_send and thread_send.  The datagrams  *)
(* of main and the echo replies of thread_ip_handout are put together in   *)
(* one ip_buffer and one ICMP_send_buffer, the frames of thread_ip_send    *)
(* and the ARP replies of thread_handout in one ethernet_send_buffer, and  *)
(* no semaphore guards these three.                                        *)
(*                                                                         *)
(* The rings between the threads are FIFO queues here (PVRing).  Every     *)
(* datagram is one fragment (IPv4), every MAC is in the table (ArpResolve).*)
(* A header with its checksum, and the data after it, is one step each:    *)
(* two calls that overlap in a buffer may mix in more ways, and the        *)
(* properties claim nothing of such calls.                                 *)
(***************************************************************************)
EXTENDS Integers, Sequences, FiniteSets

CONSTANTS
  Peers,                   \* hosts from which frames arrive
  Targets,                 \* hosts to which the application sends
  EthQue, IpQue, UdpQue,   \* sizes of the rings
  MaxRequests,             \* bound: ARP and echo requests, each
  MaxDatagrams, MaxStrays, \* bounds: UDP datagrams, and others
  MaxCalls,                \* bound: calls of the application
  MaxEvents                \* bound: all of these together, a call counting twice

ASSUME HostAssumption ==
  /\ {EthQue, IpQue, UdpQue} \subseteq Nat \ {0}
  /\ {MaxRequests, MaxDatagrams, MaxStrays, MaxCalls, MaxEvents} \subseteq Nat
  /\ MaxRequests + MaxCalls < 65536   \* ip_packet_id does not wrap

VARIABLES
  arrived,          \* frames of each kind that have arrived
  peer_id,          \* each peer's ip_packet_id
  ethernet_recv, ip_recv, udp_recv,      \* rings, upwards
  ip_id,            \* the id network_ipv4_recv expects, of whatever sender
  caller,           \* the threads that call network_ipv4_send
  framer,           \* the threads that call ethernet_send_packet
  ICMP_send_buffer, ip_buffer, ethernet_send_buffer,
  ip_packet_id,
  ip_send,          \* ring, downwards
  out,              \* frames for thread_send, which hands them to pcap_sendpacket
  calls,            \* calls of the application
  mixed             \* calls that shared a buffer with another

up == <<arrived, peer_id, ethernet_recv, ip_recv, udp_recv, ip_id>>
staging == <<ICMP_send_buffer, ip_buffer, ethernet_send_buffer, ip_packet_id>>
down == <<ip_send, out>>
vars == <<up, caller, framer, staging, down, calls, mixed>>

Callers == {"main", "ip_handout"}
Framers == {"ip_send", "handout"}

\* "stray": a datagram for another port, with a bad UDP or ICMP checksum, or
\* an echo reply: the transports only look at it.
Kinds == {"arp", "echo", "udp", "stray"}
Events == 2 * calls + arrived["arp"] + arrived["echo"] + arrived["udp"] + arrived["stray"]
Bound(kind) ==
  [arp |-> MaxRequests, echo |-> MaxRequests, udp |-> MaxDatagrams, stray |-> MaxStrays][kind]

\* What a thread was asked to send: a datagram of the application, a request
\* of ping, or the answer to the n-th frame.
Call(op, to, n) == [op |-> op, to |-> to, n |-> n]
NoCall == Call("none", "none", 0)
Proto(call) == IF call.op = "udp" THEN "udp" ELSE "icmp"
Icmp(call) == call.op \in {"ping", "reply"}

\* Headers and payloads count one each in the sizes of packets and frames.
Header == 1
Payload == 1

IdleCaller == [at |-> "idle", call |-> NoCall, mac |-> "none"]
IdleFramer == [at |-> "idle", call |-> NoCall, packet |-> [none |-> 0], type |-> "none", mac |-> "none"]

Init ==
  /\ arrived = [k \in Kinds |-> 0] /\ peer_id = [p \in Peers |-> 0]
  /\ ethernet_recv = <<>> /\ ip_recv = <<>> /\ udp_recv = <<>>
  /\ ip_id = 0
  /\ caller = [t \in Callers |-> IdleCaller]
  /\ framer = [t \in Framers |-> IdleFramer]
  /\ ICMP_send_buffer = NoCall
  /\ ip_buffer = [to |-> "none", proto |-> "none", id |-> 0, data |-> NoCall, size |-> 0]
  /\ ethernet_send_buffer = [mac |-> "none", type |-> "none", data |-> [none |-> 0], size |-> 0]
  /\ ip_packet_id = 0
  /\ ip_send = <<>> /\ out = {}
  /\ calls = 0 /\ mixed = {}

(***************************************************************************)
(* Upwards                                                                 *)
(***************************************************************************)
\* Not accepted: its data has changed, and its id is missing from then on.
Arrive(kind, p, accepted) ==
  /\ arrived[kind] < Bound(kind) /\ Events < MaxEvents
  /\ IF accepted THEN Len(ethernet_recv) < EthQue ELSE kind = "stray"
  /\ arrived' = [arrived EXCEPT ![kind] = @ + 1]
  /\ peer_id' = IF kind = "arp" THEN peer_id ELSE [peer_id EXCEPT ![p] = @ + 1]
  /\ ethernet_recv' =
       IF accepted
         THEN Append(ethernet_recv, [kind |-> kind, from |-> p, id |-> peer_id[p], n |-> arrived'[kind]])
         ELSE ethernet_recv
  /\ UNCHANGED <<ip_recv, udp_recv, ip_id, caller, framer, staging, down, calls, mixed>>

Handout ==
  /\ framer["handout"].at = "idle"
  /\ ethernet_recv # <<>>
  /\ ethernet_recv' = Tail(ethernet_recv)
  /\ LET f == Head(ethernet_recv)
         reply == [at |-> "header", call |-> Call("arp", f.from, f.n), packet |-> [arp |-> f.from],
                   type |-> "arp", mac |-> f.from]
     IN  framer' = [framer EXCEPT !["handout"] =
                      IF f.kind = "arp" THEN reply ELSE [@ EXCEPT !.at = "ipv4", !.packet = f]]
  /\ UNCHANGED <<arrived, peer_id, ip_recv, udp_recv, ip_id, caller, staging, down, calls, mixed>>

\* Mutant: waits for the id it expects.
BugAwaitId ==
  /\ framer["handout"].at = "ipv4"
  /\ LET f == framer["handout"].packet
     IN  f.id = ip_id /\ Len(ip_recv) < IpQue /\ ip_recv' = Append(ip_recv, f)
  /\ ip_id' = ip_id + 1
  /\ framer' = [framer EXCEPT !["handout"] = IdleFramer]
  /\ UNCHANGED <<arrived, peer_id, ethernet_recv, udp_recv, caller, staging, down, calls, mixed>>

\* A datagram that does not carry the expected id is thrown away.
network_ipv4_recv ==
  /\ framer["handout"].at = "ipv4"
  /\ LET f == framer["handout"].packet
     IN  IF f.id = ip_id
           THEN Len(ip_recv) < IpQue /\ ip_recv' = Append(ip_recv, f)
           ELSE UNCHANGED ip_recv
  /\ ip_id' = ip_id + 1
  /\ framer' = [framer EXCEPT !["handout"] = IdleFramer]
  /\ UNCHANGED <<arrived, peer_id, ethernet_recv, udp_recv, caller, staging, down, calls, mixed>>

\* Mutant: an echo request has to carry this process's number, like a reply.
BugOwnEchoOnly ==
  /\ caller["ip_handout"].at = "idle"
  /\ ip_recv # <<>>
  /\ ip_recv' = Tail(ip_recv)
  /\ caller' = [caller EXCEPT !["ip_handout"].at =
                  IF Head(ip_recv).kind = "udp" THEN "udp" ELSE "idle",
                              !["ip_handout"].call = Call("recv", Head(ip_recv).from, Head(ip_recv).n)]
  /\ UNCHANGED <<arrived, peer_id, ethernet_recv, udp_recv, ip_id, framer, staging, down, calls, mixed>>

IpHandout ==
  /\ caller["ip_handout"].at = "idle"
  /\ ip_recv # <<>>
  /\ ip_recv' = Tail(ip_recv)
  /\ LET f == Head(ip_recv)
         next == [echo  |-> [IdleCaller EXCEPT !.at = "fill", !.call = Call("reply", f.from, f.n)],
                  udp   |-> [IdleCaller EXCEPT !.at = "udp", !.call = Call("recv", f.from, f.n)],
                  stray |-> IdleCaller]
     IN  caller' = [caller EXCEPT !["ip_handout"] = next[f.kind]]
  /\ UNCHANGED <<arrived, peer_id, ethernet_recv, udp_recv, ip_id, framer, staging, down, calls, mixed>>

transport_udp_recv ==
  /\ caller["ip_handout"].at = "udp"
  /\ Len(udp_recv) < UdpQue
  /\ udp_recv' = Append(udp_recv, caller["ip_handout"].call)
  /\ caller' = [caller EXCEPT !["ip_handout"] = IdleCaller]
  /\ UNCHANGED <<arrived, peer_id, ethernet_recv, ip_recv, ip_id, framer, staging, down, calls, mixed>>

(***************************************************************************)
(* The application                                                         *)
(***************************************************************************)
Application(at, call) ==
  /\ caller["main"].at = "idle"
  /\ calls < MaxCalls /\ Events + 2 <= MaxEvents
  /\ calls' = calls + 1
  /\ caller' = [caller EXCEPT !["main"].at = at, !["main"].call = call]
  /\ UNCHANGED <<up, framer, staging, down, mixed>>

sendto(p) == Application("header", Call("udp", p, calls + 1))
send_ICMP_echo_request(p) == Application("fill", Call("ping", p, calls + 1))
recvfrom == Application("recvfrom", NoCall)

RecvfromTake ==
  /\ caller["main"].at = "recvfrom"
  /\ udp_recv # <<>>
  /\ udp_recv' = Tail(udp_recv)
  /\ caller' = [caller EXCEPT !["main"] = IdleCaller]
  /\ UNCHANGED <<arrived, peer_id, ethernet_recv, ip_recv, ip_id, framer, staging, down, calls, mixed>>

(***************************************************************************)
(* Downwards: ICMP and IP.                                                 *)
(***************************************************************************)
\* t enters a buffer in which other threads are: their calls mix.
Sharing(t, state, places) ==
  LET others == {u \in DOMAIN state \ {t} : state[u].at \in places}
  IN  mixed' = mixed \cup {state[u].call : u \in others}
                     \cup {c \in {state[t].call} : others # {}}

Goto(t, at) == caller' = [caller EXCEPT ![t].at = at]

FillEcho(t) ==
  /\ caller[t].at = "fill"
  /\ ICMP_send_buffer' = caller[t].call
  /\ Sharing(t, [u \in {v \in Callers : Icmp(caller[v].call)} |-> caller[u]], {"header", "data"})
  /\ Goto(t, "header")
  /\ UNCHANGED <<up, framer, ip_buffer, ethernet_send_buffer, ip_packet_id, down, calls>>

\* Mutant: ip_size_of_packet is not set back.
BugKeepSize(t) ==
  /\ caller[t].at = "header"
  /\ ip_buffer' = [ip_buffer EXCEPT !.to = caller[t].call.to, !.proto = Proto(caller[t].call),
                                    !.id = ip_packet_id, !.size = @ + Header]
  /\ Sharing(t, caller, {"data", "put"})
  /\ Goto(t, "data")
  /\ UNCHANGED <<up, framer, ICMP_send_buffer, ethernet_send_buffer, ip_packet_id, down, calls>>

load_ip_header(t) ==
  /\ caller[t].at = "header"
  /\ ip_buffer' = [ip_buffer EXCEPT !.to = caller[t].call.to, !.proto = Proto(caller[t].call),
                                    !.id = ip_packet_id, !.size = Header]
  /\ Sharing(t, caller, {"data", "put"})
  /\ Goto(t, "data")
  /\ UNCHANGED <<up, framer, ICMP_send_buffer, ethernet_send_buffer, ip_packet_id, down, calls>>

\* The MAC is that of the address in the buffer.
load_ip_data(t) ==
  /\ caller[t].at = "data"
  /\ ip_buffer' = [ip_buffer EXCEPT !.size = @ + Payload,
                     !.data = IF Icmp(caller[t].call) THEN ICMP_send_buffer ELSE caller[t].call]
  /\ caller' = [caller EXCEPT ![t].at = "put", ![t].mac = ip_buffer.to]
  /\ UNCHANGED <<up, framer, ICMP_send_buffer, ethernet_send_buffer, ip_packet_id, down, calls, mixed>>

\* ... and ip_packet_id++.
PutDatagram(t) ==
  /\ caller[t].at = "put"
  /\ Len(ip_send) < IpQue
  /\ ip_send' = Append(ip_send, [packet |-> ip_buffer, mac |-> caller[t].mac, call |-> caller[t].call])
  /\ ip_packet_id' = ip_packet_id + 1
  /\ caller' = [caller EXCEPT ![t] = IdleCaller]
  /\ UNCHANGED <<up, framer, ICMP_send_buffer, ip_buffer, ethernet_send_buffer, out, calls, mixed>>

(***************************************************************************)
(* Downwards: Ethernet.                                                    *)
(***************************************************************************)
TakeDatagram ==
  /\ framer["ip_send"].at = "idle"
  /\ ip_send # <<>>
  /\ ip_send' = Tail(ip_send)
  /\ LET d == Head(ip_send)
     IN  framer' = [framer EXCEPT !["ip_send"] =
                      [at |-> "header", call |-> d.call, packet |-> d.packet, type |-> "ip", mac |-> d.mac]]
  /\ UNCHANGED <<up, caller, staging, out, calls, mixed>>

load_ethernet_header(t) ==
  /\ framer[t].at = "header"
  /\ ethernet_send_buffer' = [ethernet_send_buffer EXCEPT !.mac = framer[t].mac, !.type = framer[t].type,
                                                          !.size = Header]
  /\ Sharing(t, framer, {"data"})
  /\ framer' = [framer EXCEPT ![t].at = "data"]
  /\ UNCHANGED <<up, caller, ICMP_send_buffer, ip_buffer, ip_packet_id, down, calls>>

\* load_ethernet_data and the copy into the ring.
ethernet_send_packet(t) ==
  /\ framer[t].at = "data"
  /\ LET frame == [ethernet_send_buffer EXCEPT !.data = framer[t].packet, !.size = @ + Payload]
     IN  /\ ethernet_send_buffer' = frame
         /\ out' = out \cup {[frame |-> frame, call |-> framer[t].call]}
  /\ framer' = [framer EXCEPT ![t] = IdleFramer]
  /\ UNCHANGED <<up, caller, ICMP_send_buffer, ip_buffer, ip_packet_id, ip_send, calls, mixed>>

network_ipv4_send(t) == load_ip_header(t) \/ load_ip_data(t) \/ PutDatagram(t)

Build(t) == load_ethernet_header(t) \/ ethernet_send_packet(t)

thread_handout == Handout \/ network_ipv4_recv \/ Build("handout")
thread_ip_handout ==
  \/ IpHandout \/ transport_udp_recv
  \/ FillEcho("ip_handout") \/ network_ipv4_send("ip_handout")
thread_ip_send == TakeDatagram \/ Build("ip_send")
\* main inside a call.
MainGoesOn == RecvfromTake \/ FillEcho("main") \/ network_ipv4_send("main")

Next ==
  \/ \E kind \in Kinds, p \in Peers, accepted \in BOOLEAN : Arrive(kind, p, accepted)
  \/ \E p \in Targets : sendto(p) \/ send_ICMP_echo_request(p)
  \/ recvfrom
  \/ MainGoesOn \/ thread_handout \/ thread_ip_handout \/ thread_ip_send

\* Every thread runs; the application calls what and when it likes.
Spec ==
  /\ Init /\ [][Next]_vars
  /\ WF_vars(MainGoesOn)
  /\ WF_vars(thread_handout) /\ WF_vars(thread_ip_handout)
  /\ WF_vars(thread_ip_send)

(***************************************************************************)
(* Properties                                                              *)
(***************************************************************************)
\* The rings keep within their sizes, and no thread is inside two layers.
TypeOK ==
  /\ arrived \in [Kinds -> Nat] /\ \A kind \in Kinds : arrived[kind] <= Bound(kind)
  /\ calls \in 0 .. MaxCalls /\ Events <= MaxEvents
  /\ peer_id \in [Peers -> Nat]
  /\ ip_id \in 0 .. MaxRequests + MaxDatagrams + MaxStrays
  /\ Len(ethernet_recv) <= EthQue
  /\ Len(ip_recv) <= IpQue /\ Len(ip_send) <= IpQue
  /\ Len(udp_recv) <= UdpQue
  /\ \A t \in Callers :
       caller[t].at \in {"idle", "udp", "recvfrom", "fill", "header", "data", "put"}
  /\ \A t \in Framers : framer[t].at \in {"idle", "ipv4", "header", "data"}
  /\ ip_buffer.size \in 0 .. 3 /\ ethernet_send_buffer.size \in 0 .. 3
  /\ ip_packet_id \in 0 .. MaxRequests + MaxCalls

\* The frame a call asks for; the id is what the sender's counter says.
Wanted(call, id) ==
  LET datagram == [to |-> call.to, proto |-> Proto(call), id |-> id, data |-> call, size |-> Header + Payload]
      arp == call.op = "arp"
  IN  [mac |-> call.to, type |-> IF arp THEN "arp" ELSE "ip",
       data |-> IF arp THEN [arp |-> call.to] ELSE datagram, size |-> Header + Payload]

\* A datagram or an answer that shared no buffer with another one while it was
\* put together leaves as it was asked for, to the host it was meant for, and
\* with an id no other such datagram has: the mixing of
\* two calls never reaches a third.
UnmixedIsIntact ==
  LET clean == {f \in out : f.call \notin mixed}
  IN  /\ \A f \in clean :
           f.frame = Wanted(f.call, IF f.call.op = "arp" THEN 0 ELSE f.frame.data.id)
      /\ \A f, g \in clean :
           (f # g /\ "arp" \notin {f.call.op, g.call.op}) => f.frame.data.id # g.frame.data.id

Answered(op, n) ==
  \/ \E f \in out : f.call.op = op /\ f.call.n = n
  \/ \E c \in mixed : c.op = op /\ c.n = n

\* thread_ip_handout waits for room among datagrams nobody receives.
UdpBlocked == caller["ip_handout"].at = "udp" /\ Len(udp_recv) = UdpQue

\* An echo request that network_ipv4_recv takes is answered, unless the UDP
\* ring stays full: thread_ip_handout then serves no transport any more.
EchoAnswered ==
  \A n \in 1 .. MaxRequests :
    \/ (\E i \in DOMAIN ip_recv : ip_recv[i].kind = "echo" /\ ip_recv[i].n = n) ~> Answered("reply", n)
    \/ <>[]UdpBlocked

\* An ARP request is answered whatever else arrives, unless the wait for the
\* application has reached thread_handout too: the UDP and the IP ring are
\* full and it holds one more datagram.
ArpAnswered ==
  \A n \in 1 .. MaxRequests :
    \/ (\E i \in DOMAIN ethernet_recv : ethernet_recv[i].kind = "arp" /\ ethernet_recv[i].n = n)
         ~> Answered("arp", n)
    \/ <>[](UdpBlocked /\ Len(ip_recv) = IpQue /\ framer["handout"].at = "ipv4")
==============================================================================
