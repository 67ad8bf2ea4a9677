----------------------------- MODULE Host_proofs ------------------------------
(***************************************************************************)
(* Theorems about the threads of a host, for any peers, targets, sizes of  *)
(* the rings and numbers of frames and calls: what the buffers without a   *)
(* semaphore do to a packet, and that ids, sizes and rings keep in bounds. *)
(***************************************************************************)
EXTENDS Host, SequenceContents

(***************************************************************************)
(* Types                                                                   *)
(***************************************************************************)
Hosts == Peers \cup Targets \cup {"none"}
Calls == [op : {"udp", "ping", "reply", "recv", "none"}, to : Hosts, n : Nat]
ArpCalls == [op : {"arp"}, to : Peers, n : Nat]
Frames == [kind : Kinds, from : Peers, id : Nat, n : Nat]
IpFrames == {f \in Frames : f.kind # "arp"}
Datagrams ==
  [to : Hosts, proto : {"none", "udp", "icmp"}, id : Nat, data : Calls, size : Int]
Queued == [packet : Datagrams, mac : Hosts, call : Calls]

CallerRecords ==
  [at : {"idle", "udp", "recvfrom", "fill", "header", "data", "put"},
   call : Calls, mac : Hosts]

\* thread_ip_send frames datagrams, thread_handout the answers to ARP requests.
SenderRecords ==
  [at : {"header", "data"}, call : Calls, packet : Datagrams, type : {"ip"}, mac : Hosts]
ReplierRecords ==
  {r \in [at : {"header", "data"}, call : ArpCalls, packet : [arp : Peers], type : {"arp"},
          mac : Peers] :
     r.packet.arp = r.call.to /\ r.mac = r.call.to}
HandoutRecords ==
  [at : {"ipv4"}, call : {NoCall}, packet : IpFrames, type : {"none"}, mac : {"none"}]

Contents == Datagrams \cup [arp : Peers] \cup {[none |-> 0]}

Types ==
  /\ arrived \in [Kinds -> Nat] /\ peer_id \in [Peers -> Nat]
  /\ ethernet_recv \in Seq(Frames) /\ ip_recv \in Seq(IpFrames)
  /\ caller \in [Callers -> CallerRecords]
  /\ DOMAIN framer = Framers
  /\ framer["ip_send"] \in SenderRecords \cup {IdleFramer}
  /\ framer["handout"] \in ReplierRecords \cup HandoutRecords \cup {IdleFramer}
  /\ ICMP_send_buffer \in Calls
  /\ ip_buffer \in Datagrams
  /\ ethernet_send_buffer \in
       [mac : Hosts, type : {"none", "arp", "ip"}, data : Contents, size : Int]
  /\ ip_packet_id \in Nat
  /\ ip_send \in Seq(Queued)
  /\ calls \in Nat

(***************************************************************************)
(* What is known of a call that has not been mixed, from buffer to buffer. *)
(***************************************************************************)
Clean(call) == call \notin mixed

\* It has the buffer of ICMP to itself, and its request is in there.
EchoBuffer ==
  \A t \in Callers :
    (caller[t].at \in {"header", "data"} /\ Icmp(caller[t].call) /\ Clean(caller[t].call)) =>
      /\ ICMP_send_buffer = caller[t].call
      /\ \A u \in Callers \ {t} :
           ~ (Icmp(caller[u].call) /\ caller[u].at \in {"header", "data"})

\* It has ip_buffer to itself, and the id in it is the one PutDatagram counts.
IpBuffer ==
  \A t \in Callers :
    (caller[t].at \in {"data", "put"} /\ Clean(caller[t].call)) =>
      /\ \A u \in Callers \ {t} : caller[u].at \notin {"data", "put"}
      /\ ip_buffer.to = caller[t].call.to /\ ip_buffer.proto = Proto(caller[t].call)
      /\ ip_buffer.id = ip_packet_id
      /\ caller[t].at = "data" => ip_buffer.size = Header
      /\ caller[t].at = "put" =>
           /\ ip_buffer.size = Header + Payload /\ ip_buffer.data = caller[t].call
           /\ caller[t].mac = caller[t].call.to

\* A datagram that is put together right: it is what its call asks for.
Right(d) ==
  /\ d.mac = d.call.to
  /\ d.packet = [to |-> d.call.to, proto |-> Proto(d.call), id |-> d.packet.id,
                 data |-> d.call, size |-> Header + Payload]

\* What thread_ip_send holds, as an entry of the ring.
InHand ==
  IF framer["ip_send"].at = "idle" THEN {}
  ELSE {[packet |-> framer["ip_send"].packet, mac |-> framer["ip_send"].mac,
         call |-> framer["ip_send"].call]}

\* On its way it stays right, and its id has been counted.
OnTheWay ==
  \A d \in In(ip_send) \cup InHand :
    Clean(d.call) => Right(d) /\ d.packet.id < ip_packet_id

\* The ids grow along the way.
Later == {p \in Queued \X Queued :
            Clean(p[1].call) /\ Clean(p[2].call) => p[1].packet.id < p[2].packet.id}
Numbered ==
  /\ Ordered(Later, ip_send)
  /\ \A d \in InHand, e \in In(ip_send) : <<d, e>> \in Later

\* It has ethernet_send_buffer to itself, and the header in there is its own.
FrameBuffer ==
  \A t \in Framers :
    (framer[t].at = "data" /\ Clean(framer[t].call)) =>
      /\ \A u \in Framers \ {t} : framer[u].at # "data"
      /\ ethernet_send_buffer.mac = framer[t].mac /\ ethernet_send_buffer.type = framer[t].type
      /\ ethernet_send_buffer.size = Header

\* It has left as it should, with an id that nothing clean behind it has.
Sent ==
  \A f \in out : Clean(f.call) =>
    /\ f.call \in Calls \cup ArpCalls
    /\ f.frame = Wanted(f.call, IF f.call.op = "arp" THEN 0 ELSE f.frame.data.id)
    /\ f.call.op # "arp" =>
         /\ f.frame.data.id \in Nat /\ f.frame.data.id < ip_packet_id
         /\ \A d \in In(ip_send) \cup InHand :
              Clean(d.call) => f.frame.data.id < d.packet.id
Distinct ==
  \A f, g \in out :
    (Clean(f.call) /\ Clean(g.call) /\ f # g /\ "arp" \notin {f.call.op, g.call.op}) =>
      f.frame.data.id # g.frame.data.id

MInv ==
  /\ Types
  /\ EchoBuffer /\ IpBuffer /\ OnTheWay /\ Numbered /\ FrameBuffer /\ Sent /\ Distinct

(***************************************************************************)
(* Types                                                                   *)
(***************************************************************************)
LEMMA InQueued ==
  ASSUME Types, NEW d \in In(ip_send)
  PROVE  d \in Queued
  BY ElementOfSeq, LenProperties DEF In, Types

LEMMA NoCallType == NoCall \in Calls
  BY DEF NoCall, Call, Calls, Hosts

LEMMA CallerUpdate ==
  ASSUME Types, NEW t \in Callers, NEW r \in CallerRecords
  PROVE  [caller EXCEPT ![t] = r] \in [Callers -> CallerRecords]
  BY DEF Types

LEMMA CallerAt ==
  ASSUME Types, NEW t \in Callers
  PROVE  /\ caller[t] \in CallerRecords
         /\ caller[t].call \in Calls /\ caller[t].mac \in Hosts
  BY DEF Types, CallerRecords

\* A thread goes on to another place.
LEMMA GotoType ==
  ASSUME Types, NEW t \in Callers, NEW at \in {"header", "data"}, Goto(t, at)
  PROVE  /\ caller' \in [Callers -> CallerRecords]
         /\ caller'[t].at = at /\ caller'[t].call = caller[t].call
         /\ \A u \in Callers \ {t} : caller'[u] = caller[u]
  <1>1. caller' = [caller EXCEPT ![t] = [caller[t] EXCEPT !.at = at]]
    BY DEF Goto, Types
  <1> DEFINE r == [caller[t] EXCEPT !.at = at]
  <1>2. r \in CallerRecords /\ r.at = at /\ r.call = caller[t].call
    BY CallerAt DEF CallerRecords
  <1> HIDE DEF r
  <1> QED
    BY <1>1, <1>2, CallerUpdate DEF Types, r

LEMMA IdleCallerType == IdleCaller \in CallerRecords
  BY NoCallType DEF IdleCaller, CallerRecords, Hosts

(***************************************************************************)
(* Whatever keeps what is on its way keeps what is known of it: more calls *)
(* may get mixed.                                                          *)
(***************************************************************************)
LEMMA WayKept ==
  ASSUME MInv, mixed \subseteq mixed', InHand' = InHand,
         UNCHANGED <<ip_send, out, ip_packet_id>>
  PROVE  OnTheWay' /\ Numbered' /\ Sent' /\ Distinct'
  <1>1. \A c : Clean(c)' => Clean(c)
    BY DEF Clean
  <1>2. OnTheWay'
    BY <1>1 DEF MInv, OnTheWay
  <1>3. Later \subseteq Later'
    BY <1>1 DEF Later
  <1>4. Numbered'
    BY <1>3 DEF MInv, Numbered, Ordered
  <1>5. Sent'
    BY <1>1 DEF MInv, Sent
  <1>6. Distinct'
    BY <1>1 DEF MInv, Distinct
  <1> QED
    BY <1>2, <1>4, <1>5, <1>6

(***************************************************************************)
(* Upwards                                                                 *)
(***************************************************************************)
LEMMA ArriveStep ==
  ASSUME MInv, NEW kind \in Kinds, NEW p \in Peers, NEW accepted \in BOOLEAN,
         Arrive(kind, p, accepted)
  PROVE  MInv'
  <1>1. /\ UNCHANGED <<ip_recv, caller, framer, staging, down, calls, mixed>>
        /\ \E x \in Nat : arrived' = [arrived EXCEPT ![kind] = x]
        /\ \E x \in Nat : peer_id' = peer_id \/ peer_id' = [peer_id EXCEPT ![p] = x]
        /\ \/ ethernet_recv' = ethernet_recv
           \/ ethernet_recv' = Append(ethernet_recv,
                [kind |-> kind, from |-> p, id |-> peer_id[p], n |-> arrived'[kind]])
    <2>1. arrived[kind] + 1 \in Nat /\ peer_id[p] + 1 \in Nat
      BY DEF MInv, Types
    <2> QED
      BY <2>1 DEF Arrive
  <1>2. arrived' \in [Kinds -> Nat] /\ peer_id' \in [Peers -> Nat]
    BY <1>1 DEF MInv, Types
  <1> DEFINE id == peer_id[p]
             n == arrived'[kind]
             frame == [kind |-> kind, from |-> p, id |-> id, n |-> n]
  <1>3. frame \in Frames
    <2>1. id \in Nat /\ n \in Nat
      BY <1>2 DEF MInv, Types
    <2> HIDE DEF id, n
    <2> QED
      BY <2>1 DEF Frames
  <1>4. ethernet_recv' \in Seq(Frames)
    <2> HIDE DEF frame
    <2>1. ethernet_recv' = ethernet_recv \/ ethernet_recv' = Append(ethernet_recv, frame)
      BY <1>1 DEF frame, id, n
    <2>2. ethernet_recv \in Seq(Frames)
      BY DEF MInv, Types
    <2>3. Append(ethernet_recv, frame) \in Seq(Frames)
      BY <1>3, <2>2, InAppend
    <2> QED
      BY <2>1, <2>2, <2>3
  <1>5. Types'
    BY <1>1, <1>2, <1>4 DEF MInv, Types, staging, down
  <1>6. InHand' = InHand
    BY <1>1 DEF InHand
  <1>7. OnTheWay' /\ Numbered' /\ Sent' /\ Distinct'
    BY <1>1, <1>6, WayKept DEF staging, down
  <1>8. EchoBuffer' /\ IpBuffer' /\ FrameBuffer'
    BY <1>1 DEF MInv, EchoBuffer, IpBuffer, FrameBuffer, Clean, staging
  <1> QED
    BY <1>5, <1>7, <1>8 DEF MInv

\* thread_handout takes up or puts down something, outside the buffer.
LEMMA HandoutStep ==
  ASSUME MInv, NEW r \in ReplierRecords \cup HandoutRecords \cup {IdleFramer},
         r.at # "data",
         framer' = [framer EXCEPT !["handout"] = r],
         ethernet_recv' \in Seq(Frames), ip_recv' \in Seq(IpFrames),
         UNCHANGED <<arrived, peer_id, caller, staging, down, calls, mixed>>
  PROVE  MInv'
  <1>1. /\ DOMAIN framer' = Framers /\ framer'["ip_send"] = framer["ip_send"]
        /\ framer'["handout"] = r
    BY DEF MInv, Types, Framers
  <1>2. Types'
    BY <1>1 DEF MInv, Types, staging, down
  <1>3. InHand' = InHand
    BY <1>1 DEF InHand
  <1>4. OnTheWay' /\ Numbered' /\ Sent' /\ Distinct'
    BY <1>3, WayKept DEF staging, down
  <1>5. EchoBuffer' /\ IpBuffer'
    BY DEF MInv, EchoBuffer, IpBuffer, Clean, staging
  <1>6. FrameBuffer'
    BY <1>1 DEF MInv, FrameBuffer, Clean, staging, Framers
  <1> QED
    BY <1>2, <1>4, <1>5, <1>6 DEF MInv

LEMMA TakesUp ==
  ASSUME MInv, Handout
  PROVE  MInv'
  <1> DEFINE f == Head(ethernet_recv)
             reply == [at |-> "header", call |-> Call("arp", f.from, f.n),
                       packet |-> [arp |-> f.from], type |-> "arp", mac |-> f.from]
             r == IF f.kind = "arp" THEN reply
                  ELSE [framer["handout"] EXCEPT !.at = "ipv4", !.packet = f]
  <1>1. /\ framer["handout"].at = "idle" /\ ethernet_recv # <<>>
        /\ ethernet_recv' = Tail(ethernet_recv)
        /\ framer' = [framer EXCEPT !["handout"] = r]
        /\ UNCHANGED <<arrived, peer_id, ip_recv, caller, staging, down, calls, mixed>>
    BY DEF Handout, MInv, Types, Framers
  <1>2. f \in Frames /\ ethernet_recv' \in Seq(Frames)
    BY <1>1, InTail DEF MInv, Types
  <1>3. framer["handout"] = IdleFramer
    BY <1>1 DEF MInv, Types, ReplierRecords, HandoutRecords
  <1>4. r \in ReplierRecords \cup HandoutRecords /\ r.at # "data"
    <2>1. CASE f.kind = "arp"
      <3>1. reply \in ReplierRecords /\ reply.at # "data"
        BY <1>2 DEF ReplierRecords, Frames, ArpCalls, Call
      <3> QED
        BY <2>1, <3>1
    <2>2. CASE f.kind # "arp"
      <3>1. f \in IpFrames
        BY <1>2, <2>2 DEF IpFrames
      <3>2. r = [at |-> "ipv4", call |-> NoCall, packet |-> f, type |-> "none", mac |-> "none"]
        <4>1. r = [IdleFramer EXCEPT !.at = "ipv4", !.packet = f]
          BY <1>3, <2>2
        <4> HIDE DEF r, f
        <4> QED
          BY <4>1 DEF IdleFramer
      <3> HIDE DEF f, r
      <3>3. r \in HandoutRecords /\ r.at = "ipv4"
        BY <3>1, <3>2 DEF HandoutRecords
      <3> QED
        BY <3>3
    <2> QED
      BY <2>1, <2>2
  <1> HIDE DEF r
  <1> QED
    BY <1>1, <1>2, <1>4, HandoutStep DEF MInv, Types

LEMMA PutsDown ==
  ASSUME MInv, network_ipv4_recv
  PROVE  MInv'
  <1> DEFINE f == framer["handout"].packet
  <1>1. /\ framer["handout"].at = "ipv4"
        /\ ip_recv' = ip_recv \/ ip_recv' = Append(ip_recv, f)
        /\ framer' = [framer EXCEPT !["handout"] = IdleFramer]
        /\ UNCHANGED <<arrived, peer_id, ethernet_recv, caller, staging, down, calls, mixed>>
    BY DEF network_ipv4_recv
  <1>2. f \in IpFrames
    <2>1. framer["handout"] \notin ReplierRecords /\ framer["handout"] # IdleFramer
      BY <1>1 DEF ReplierRecords, IdleFramer
    <2>2. framer["handout"] \in HandoutRecords
      BY <2>1 DEF MInv, Types
    <2> QED
      BY <2>2 DEF HandoutRecords
  <1> HIDE DEF f
  <1>3. ip_recv' \in Seq(IpFrames)
    <2>1. ip_recv \in Seq(IpFrames)
      BY DEF MInv, Types
    <2>2. ip_recv' = ip_recv \/ ip_recv' = Append(ip_recv, f)
      BY <1>1
    <2>3. Append(ip_recv, f) \in Seq(IpFrames)
      BY <1>2, <2>1, InAppend
    <2> QED
      BY <2>1, <2>2, <2>3
  <1>4. IdleFramer.at # "data"
    BY DEF IdleFramer
  <1> QED
    BY <1>1, <1>3, <1>4, HandoutStep DEF MInv, Types

\* A caller goes where it is in none of the buffers.
LEMMA OutsideStep ==
  ASSUME MInv, NEW t \in Callers, NEW r \in CallerRecords,
         r.at \notin {"data", "put"}, ~ (Icmp(r.call) /\ r.at = "header"),
         caller' = [caller EXCEPT ![t] = r],
         ip_recv' \in Seq(IpFrames), calls' \in Nat,
         UNCHANGED <<arrived, peer_id, ethernet_recv, framer, staging, down, mixed>>
  PROVE  MInv'
  <1>1. /\ caller' \in [Callers -> CallerRecords] /\ caller'[t] = r
        /\ \A u \in Callers \ {t} : caller'[u] = caller[u]
    BY CallerUpdate DEF MInv, Types
  <1>2. Types'
    BY <1>1 DEF MInv, Types, staging, down
  <1>3. InHand' = InHand
    BY DEF InHand
  <1>4. OnTheWay' /\ Numbered' /\ Sent' /\ Distinct'
    BY <1>3, WayKept DEF staging, down
  <1>5. EchoBuffer'
    BY <1>1 DEF MInv, EchoBuffer, Clean, staging
  <1>6. IpBuffer'
    BY <1>1 DEF MInv, IpBuffer, Clean, staging
  <1>7. FrameBuffer'
    BY DEF MInv, FrameBuffer, Clean, staging
  <1> QED
    BY <1>2, <1>4, <1>5, <1>6, <1>7 DEF MInv

LEMMA CallTypes ==
  ASSUME NEW op \in {"udp", "ping", "reply", "recv", "none"}, NEW to \in Hosts, NEW n \in Nat
  PROVE  /\ Call(op, to, n) \in Calls /\ Call(op, to, n).op = op
         /\ Icmp(Call(op, to, n)) <=> op \in {"ping", "reply"}
  BY DEF Call, Calls, Icmp

LEMMA IpHandoutStep ==
  ASSUME MInv, IpHandout
  PROVE  MInv'
  <1> DEFINE f == Head(ip_recv)
             fill == [IdleCaller EXCEPT !.at = "fill", !.call = Call("reply", f.from, f.n)]
             udp == [IdleCaller EXCEPT !.at = "udp", !.call = Call("recv", f.from, f.n)]
             next == [echo |-> fill, udp |-> udp, stray |-> IdleCaller]
             r == next[f.kind]
  <1>1. /\ ip_recv # <<>> /\ ip_recv' = Tail(ip_recv)
        /\ caller' = [caller EXCEPT !["ip_handout"] = r]
        /\ UNCHANGED <<arrived, peer_id, ethernet_recv, framer, staging, down, calls, mixed>>
    BY DEF IpHandout
  <1>2. f \in IpFrames /\ ip_recv' \in Seq(IpFrames)
    BY <1>1, InTail DEF MInv, Types
  <1>3. /\ Call("reply", f.from, f.n) \in Calls /\ Call("recv", f.from, f.n) \in Calls
        /\ f.kind \in {"echo", "udp", "stray"}
    BY <1>2, CallTypes DEF IpFrames, Frames, Kinds, Hosts
  <1>4. r \in CallerRecords /\ r.at \in {"fill", "udp", "idle"}
    <2>1. fill \in CallerRecords /\ fill.at = "fill"
      BY <1>3, IdleCallerType DEF CallerRecords
    <2>2. udp \in CallerRecords /\ udp.at = "udp"
      BY <1>3, IdleCallerType DEF CallerRecords
    <2>3. IdleCaller \in CallerRecords /\ IdleCaller.at = "idle"
      BY IdleCallerType DEF IdleCaller
    <2> HIDE DEF fill, udp
    <2>4. r \in {fill, udp, IdleCaller}
      BY <1>3
    <2> QED
      BY <2>1, <2>2, <2>3, <2>4
  <1> HIDE DEF r
  <1> QED
    BY <1>1, <1>2, <1>4, OutsideStep DEF MInv, Types, Callers

LEMMA ToIdle ==
  ASSUME MInv, transport_udp_recv \/ RecvfromTake
  PROVE  MInv'
  <1>1. \E t \in Callers : caller' = [caller EXCEPT ![t] = IdleCaller]
    BY DEF transport_udp_recv, RecvfromTake, Callers
  <1>2. UNCHANGED <<arrived, peer_id, ethernet_recv, ip_recv, framer, staging, down, calls, mixed>>
    BY DEF transport_udp_recv, RecvfromTake
  <1>3. IdleCaller.at = "idle"
    BY DEF IdleCaller
  <1> QED
    BY <1>1, <1>2, <1>3, IdleCallerType, OutsideStep DEF MInv, Types

LEMMA ApplicationStep ==
  ASSUME MInv,
         recvfrom \/ \E p \in Targets : sendto(p) \/ send_ICMP_echo_request(p)
  PROVE  MInv'
  <1>1. PICK at \in {"header", "fill", "recvfrom"}, call \in Calls :
          Application(at, call) /\ ~ (Icmp(call) /\ at = "header")
    <2>1. CASE recvfrom
      BY <2>1, NoCallType DEF recvfrom
    <2>2. ASSUME NEW p \in Targets, sendto(p) \/ send_ICMP_echo_request(p)
          PROVE  \E at \in {"header", "fill", "recvfrom"}, call \in Calls :
                   Application(at, call) /\ ~ (Icmp(call) /\ at = "header")
      <3> DEFINE n == calls + 1
      <3>1. p \in Hosts /\ n \in Nat
        BY DEF MInv, Types, Hosts
      <3>2. Application("header", Call("udp", p, n)) \/ Application("fill", Call("ping", p, n))
        BY <2>2 DEF sendto, send_ICMP_echo_request
      <3> HIDE DEF n
      <3>3. /\ Call("udp", p, n) \in Calls /\ Call("ping", p, n) \in Calls
            /\ ~ Icmp(Call("udp", p, n))
        BY <3>1, CallTypes
      <3> QED
        BY <3>2, <3>3
    <2> QED
      BY <2>1, <2>2
  <1> DEFINE r == [caller["main"] EXCEPT !.at = at, !.call = call]
  <1>2. /\ caller' = [caller EXCEPT !["main"] = r] /\ calls' = calls + 1
        /\ UNCHANGED <<up, framer, staging, down, mixed>>
    BY <1>1 DEF Application, MInv, Types, Callers
  <1>3. "main" \in Callers
    BY DEF Callers
  <1>4. r \in CallerRecords /\ r.at = at /\ r.call = call
    BY <1>3, CallerAt DEF CallerRecords, MInv
  <1>5. calls' \in Nat
    BY <1>2 DEF MInv, Types
  <1> HIDE DEF r
  <1> QED
    BY <1>1, <1>2, <1>3, <1>4, <1>5, OutsideStep DEF MInv, Types, up

(***************************************************************************)
(* Downwards: ICMP and IP                                                  *)
(***************************************************************************)
\* Who enters a buffer mixes with all who are in it.
LEMMA SharingMixes ==
  ASSUME NEW t, NEW state, NEW places, Sharing(t, state, places)
  PROVE  /\ mixed \subseteq mixed'
         /\ \A u \in DOMAIN state \ {t} :
              state[u].at \in places => state[u].call \in mixed' /\ state[t].call \in mixed'
  BY DEF Sharing

LEMMA FillEchoStep ==
  ASSUME MInv, NEW t \in Callers, FillEcho(t)
  PROVE  MInv'
  <1> DEFINE state == [u \in {v \in Callers : Icmp(caller[v].call)} |-> caller[u]]
  <1>1. /\ ICMP_send_buffer' = caller[t].call
        /\ Sharing(t, state, {"header", "data"})
        /\ Goto(t, "header")
        /\ UNCHANGED <<up, framer, ip_buffer, ethernet_send_buffer, ip_packet_id, down, calls>>
    BY DEF FillEcho
  <1>2. /\ caller' \in [Callers -> CallerRecords]
        /\ caller'[t].at = "header" /\ caller'[t].call = caller[t].call
        /\ \A u \in Callers \ {t} : caller'[u] = caller[u]
    BY <1>1, GotoType DEF MInv
  <1>3. /\ mixed \subseteq mixed'
        /\ \A u \in Callers \ {t} :
             (Icmp(caller[u].call) /\ caller[u].at \in {"header", "data"}) =>
               /\ caller[u].call \in mixed'
               /\ Icmp(caller[t].call) => caller[t].call \in mixed'
    <2>1. /\ mixed \subseteq mixed'
          /\ \A u \in DOMAIN state \ {t} :
               state[u].at \in {"header", "data"} =>
                 state[u].call \in mixed' /\ state[t].call \in mixed'
      BY <1>1, SharingMixes
    <2> QED
      BY <2>1
  <1>4. Types'
    BY <1>1, <1>2, CallerAt DEF MInv, Types, up, down
  <1>5. InHand' = InHand
    BY <1>1 DEF InHand
  <1>6. OnTheWay' /\ Numbered' /\ Sent' /\ Distinct'
    BY <1>1, <1>3, <1>5, WayKept DEF down
  <1>7. EchoBuffer'
    BY <1>1, <1>2, <1>3 DEF MInv, EchoBuffer, Clean
  <1>8. IpBuffer'
    BY <1>1, <1>2, <1>3 DEF MInv, IpBuffer, Clean
  <1>9. FrameBuffer'
    BY <1>1, <1>3 DEF MInv, FrameBuffer, Clean
  <1> QED
    BY <1>4, <1>6, <1>7, <1>8, <1>9 DEF MInv

LEMMA IpHeaderStep ==
  ASSUME MInv, NEW t \in Callers, load_ip_header(t)
  PROVE  MInv'
  <1> DEFINE call == caller[t].call
  <1>1. /\ caller[t].at = "header"
        /\ ip_buffer' = [ip_buffer EXCEPT !.to = call.to, !.proto = Proto(call),
                                          !.id = ip_packet_id, !.size = Header]
        /\ Sharing(t, caller, {"data", "put"})
        /\ Goto(t, "data")
        /\ UNCHANGED <<up, framer, ICMP_send_buffer, ethernet_send_buffer, ip_packet_id, down, calls>>
    BY DEF load_ip_header
  <1>2. /\ caller' \in [Callers -> CallerRecords]
        /\ caller'[t].at = "data" /\ caller'[t].call = call
        /\ \A u \in Callers \ {t} : caller'[u] = caller[u]
    BY <1>1, GotoType DEF MInv
  <1>3. /\ mixed \subseteq mixed'
        /\ \A u \in Callers \ {t} :
             caller[u].at \in {"data", "put"} => caller[u].call \in mixed' /\ call \in mixed'
    BY <1>1, SharingMixes DEF MInv, Types
  <1>4. call \in Calls /\ call.to \in Hosts /\ Proto(call) \in {"udp", "icmp"}
    BY CallerAt DEF MInv, Calls, Proto
  <1>5. /\ ip_buffer' \in Datagrams
        /\ ip_buffer'.to = call.to /\ ip_buffer'.proto = Proto(call)
        /\ ip_buffer'.id = ip_packet_id /\ ip_buffer'.size = Header
    <2>1. ip_buffer \in Datagrams /\ ip_packet_id \in Nat /\ Header \in Int
      BY DEF MInv, Types, Header
    <2> HIDE DEF call
    <2> QED
      BY <1>1, <1>4, <2>1 DEF Datagrams
  <1> HIDE DEF call
  <1>6. Types'
    BY <1>1, <1>2, <1>5 DEF MInv, Types, up, down
  <1>7. InHand' = InHand
    BY <1>1 DEF InHand
  <1>8. OnTheWay' /\ Numbered' /\ Sent' /\ Distinct'
    BY <1>1, <1>3, <1>7, WayKept DEF down
  <1>9. EchoBuffer'
    BY <1>1, <1>2, <1>3 DEF MInv, EchoBuffer, Clean, call
  <1>10. IpBuffer'
    BY <1>1, <1>2, <1>3, <1>5 DEF IpBuffer, Clean
  <1>11. FrameBuffer'
    BY <1>1, <1>3 DEF MInv, FrameBuffer, Clean
  <1> QED
    BY <1>6, <1>8, <1>9, <1>10, <1>11 DEF MInv

LEMMA IpDataStep ==
  ASSUME MInv, NEW t \in Callers, load_ip_data(t)
  PROVE  MInv'
  <1> DEFINE call == caller[t].call
             data == IF Icmp(call) THEN ICMP_send_buffer ELSE call
             size == ip_buffer.size + Payload
             r == [caller[t] EXCEPT !.at = "put", !.mac = ip_buffer.to]
  <1>1. /\ caller[t].at = "data"
        /\ ip_buffer' = [ip_buffer EXCEPT !.size = size, !.data = data]
        /\ UNCHANGED <<up, framer, ICMP_send_buffer, ethernet_send_buffer, ip_packet_id, down,
                       calls, mixed>>
    BY DEF load_ip_data, MInv, Types, Datagrams
  <1>2. caller' = [caller EXCEPT ![t] = r]
    BY DEF load_ip_data, MInv, Types
  <1>3. caller[t] \in CallerRecords /\ call \in Calls /\ ip_buffer.to \in Hosts
    BY CallerAt DEF MInv, Types, Datagrams
  <1>4. r \in CallerRecords /\ r.at = "put" /\ r.mac = ip_buffer.to /\ r.call = call
    BY <1>3 DEF CallerRecords
  <1>5. /\ caller' \in [Callers -> CallerRecords] /\ caller'[t] = r
        /\ \A u \in Callers \ {t} : caller'[u] = caller[u]
    BY <1>2, <1>4, CallerUpdate DEF MInv, Types
  <1>6. /\ ip_buffer' \in Datagrams
        /\ ip_buffer'.to = ip_buffer.to /\ ip_buffer'.proto = ip_buffer.proto
        /\ ip_buffer'.id = ip_buffer.id
        /\ ip_buffer'.size = size /\ ip_buffer'.data = data
    <2>1. ip_buffer \in Datagrams /\ data \in Calls /\ size \in Int
      BY <1>3 DEF MInv, Types, Datagrams, Payload
    <2> HIDE DEF data, size
    <2> QED
      BY <1>1, <2>1 DEF Datagrams
  <1>7. ip_buffer.size = Header => size = Header + Payload
    OBVIOUS
  <1>8. Clean(call) => data = call
    BY <1>1, <1>3 DEF MInv, EchoBuffer
  <1> HIDE DEF r, data, size, call
  <1>9. Types'
    BY <1>1, <1>5, <1>6 DEF MInv, Types, up, down
  <1>10. InHand' = InHand
    BY <1>1 DEF InHand
  <1>11. OnTheWay' /\ Numbered' /\ Sent' /\ Distinct'
    BY <1>1, <1>10, WayKept DEF down
  <1>12. EchoBuffer'
    BY <1>1, <1>4, <1>5 DEF MInv, EchoBuffer, Clean
  <1>13. IpBuffer'
    <2> SUFFICES ASSUME NEW u \in Callers, caller'[u].at \in {"data", "put"},
                        Clean(caller'[u].call)
                 PROVE  /\ \A v \in Callers \ {u} : caller'[v].at \notin {"data", "put"}
                        /\ ip_buffer'.to = caller'[u].call.to
                        /\ ip_buffer'.proto = Proto(caller'[u].call)
                        /\ ip_buffer'.id = ip_packet_id
                        /\ caller'[u].at = "data" => ip_buffer'.size = Header
                        /\ caller'[u].at = "put" =>
                             /\ ip_buffer'.size = Header + Payload
                             /\ ip_buffer'.data = caller'[u].call
                             /\ caller'[u].mac = caller'[u].call.to
      BY <1>1 DEF IpBuffer, Clean
    <2>1. u = t
      BY <1>1, <1>5 DEF MInv, IpBuffer
    <2>2. Clean(call) /\ caller'[t].at = "put" /\ caller'[t].call = call
      BY <1>4, <1>5, <2>1
    <2>3. /\ \A v \in Callers \ {t} : caller[v].at \notin {"data", "put"}
          /\ ip_buffer.to = call.to /\ ip_buffer.proto = Proto(call)
          /\ ip_buffer.id = ip_packet_id /\ ip_buffer.size = Header
      BY <1>1, <2>2 DEF MInv, IpBuffer, call
    <2> QED
      BY <1>4, <1>5, <1>6, <1>7, <1>8, <2>1, <2>2, <2>3
  <1>14. FrameBuffer'
    BY <1>1 DEF MInv, FrameBuffer, Clean
  <1> QED
    BY <1>9, <1>11, <1>12, <1>13, <1>14 DEF MInv

LEMMA InHandType ==
  ASSUME Types
  PROVE  InHand \subseteq Queued
  <1>1. CASE framer["ip_send"] = IdleFramer
    BY <1>1 DEF InHand, IdleFramer
  <1>2. CASE framer["ip_send"] \in SenderRecords
    BY <1>2 DEF InHand, SenderRecords, Queued
  <1> QED
    BY <1>1, <1>2 DEF Types

LEMMA PutStep ==
  ASSUME MInv, NEW t \in Callers, PutDatagram(t)
  PROVE  MInv'
  <1> DEFINE call == caller[t].call
             d == [packet |-> ip_buffer, mac |-> caller[t].mac, call |-> call]
  <1>1. /\ caller[t].at = "put"
        /\ ip_send' = Append(ip_send, d)
        /\ ip_packet_id' = ip_packet_id + 1
        /\ caller' = [caller EXCEPT ![t] = IdleCaller]
        /\ UNCHANGED <<up, framer, ICMP_send_buffer, ip_buffer, ethernet_send_buffer, out,
                       calls, mixed>>
    BY DEF PutDatagram
  <1>2. /\ caller' \in [Callers -> CallerRecords] /\ caller'[t].at = "idle"
        /\ \A u \in Callers \ {t} : caller'[u] = caller[u]
    BY <1>1, IdleCallerType, CallerUpdate DEF MInv, Types, IdleCaller
  <1>3. d \in Queued /\ d.call = call /\ d.packet = ip_buffer /\ d.mac = caller[t].mac
    BY CallerAt DEF MInv, Types, Queued
  <1>4. ip_packet_id \in Nat /\ ip_send \in Seq(Queued)
    BY DEF MInv, Types
  <1>5. Clean(call) =>
          /\ \A u \in Callers \ {t} : caller[u].at \notin {"data", "put"}
          /\ Right(d) /\ d.packet.id = ip_packet_id
    <2> SUFFICES ASSUME Clean(call)
                 PROVE  /\ \A u \in Callers \ {t} : caller[u].at \notin {"data", "put"}
                        /\ Right(d) /\ d.packet.id = ip_packet_id
      OBVIOUS
    <2>1. /\ \A u \in Callers \ {t} : caller[u].at \notin {"data", "put"}
          /\ ip_buffer.to = call.to /\ ip_buffer.proto = Proto(call)
          /\ ip_buffer.id = ip_packet_id
          /\ ip_buffer.size = Header + Payload /\ ip_buffer.data = call
          /\ caller[t].mac = call.to
      BY <1>1 DEF MInv, IpBuffer
    <2>2. ip_buffer \in Datagrams
      BY DEF MInv, Types
    <2> HIDE DEF call
    <2>3. ip_buffer = [to |-> call.to, proto |-> Proto(call), id |-> ip_buffer.id,
                       data |-> call, size |-> Header + Payload]
      <3> DEFINE size == Header + Payload
                 proto == Proto(call)
      <3>1. ip_buffer.size = size /\ ip_buffer.proto = proto
        BY <2>1
      <3> HIDE DEF size, proto
      <3>2. ip_buffer = [to |-> call.to, proto |-> proto, id |-> ip_buffer.id,
                         data |-> call, size |-> size]
        BY <2>1, <2>2, <3>1 DEF Datagrams
      <3> QED
        BY <3>2 DEF size, proto
    <2> HIDE DEF d
    <2> QED
      BY <1>3, <2>1, <2>3 DEF Right
  <1> HIDE DEF d, call
  <1>6. ip_send' \in Seq(Queued) /\ In(ip_send') = In(ip_send) \cup {d}
    BY <1>1, <1>3, <1>4, InAppend
  <1>7. Types'
    BY <1>1, <1>2, <1>4, <1>6 DEF MInv, Types, up
  <1>8. InHand' = InHand /\ InHand \subseteq Queued
    BY <1>1, InHandType DEF InHand, MInv
  <1>9. \A c : Clean(c)' <=> Clean(c)
    BY <1>1 DEF Clean
  <1>10. \A e \in In(ip_send) \cup InHand : e \in Queued /\ e.packet.id \in Nat
    BY <1>8, InQueued DEF MInv, Queued, Datagrams
  <1>11. OnTheWay'
    BY <1>1, <1>3, <1>4, <1>5, <1>6, <1>8, <1>9, <1>10 DEF MInv, OnTheWay
  <1>12. Numbered'
    <2>1. \A e \in In(ip_send) \cup InHand : <<e, d>> \in Later
      <3> SUFFICES ASSUME NEW e \in In(ip_send) \cup InHand, Clean(e.call), Clean(call)
                   PROVE  e.packet.id < d.packet.id
        BY <1>3, <1>10 DEF Later
      <3> QED
        BY <1>5 DEF MInv, OnTheWay
    <2>2. Ordered(Later, ip_send')
      BY <1>1, <1>3, <1>4, <2>1, OrderedAppend DEF MInv, Numbered
    <2>3. Later' = Later
      BY <1>9 DEF Later
    <2> QED
      BY <1>6, <1>8, <2>1, <2>2, <2>3 DEF MInv, Numbered
  <1>13. Sent'
    <2> SUFFICES ASSUME NEW f \in out, Clean(f.call)
                 PROVE  /\ f.call \in Calls \cup ArpCalls
                        /\ f.frame = Wanted(f.call, IF f.call.op = "arp" THEN 0
                                                    ELSE f.frame.data.id)
                        /\ f.call.op # "arp" =>
                             /\ f.frame.data.id \in Nat /\ f.frame.data.id < ip_packet_id'
                             /\ \A e \in In(ip_send') \cup InHand :
                                  Clean(e.call) => f.frame.data.id < e.packet.id
      BY <1>1, <1>8, <1>9 DEF Sent
    <2> QED
      BY <1>1, <1>3, <1>4, <1>5, <1>6 DEF MInv, Sent
  <1>14. Distinct'
    BY <1>1, <1>9 DEF MInv, Distinct
  <1>15. EchoBuffer'
    BY <1>1, <1>2 DEF MInv, EchoBuffer, Clean
  <1>16. IpBuffer'
    BY <1>1, <1>2 DEF MInv, IpBuffer, Clean
  <1>17. FrameBuffer'
    BY <1>1 DEF MInv, FrameBuffer, Clean
  <1> QED
    BY <1>7, <1>11, <1>12, <1>13, <1>14, <1>15, <1>16, <1>17 DEF MInv

(***************************************************************************)
(* Downwards: Ethernet                                                     *)
(***************************************************************************)
LEMMA TakeStep ==
  ASSUME MInv, TakeDatagram
  PROVE  MInv'
  <1> DEFINE d == Head(ip_send)
             r == [at |-> "header", call |-> d.call, packet |-> d.packet, type |-> "ip",
                   mac |-> d.mac]
  <1>1. /\ framer["ip_send"].at = "idle"
        /\ ip_send # <<>> /\ ip_send' = Tail(ip_send)
        /\ framer' = [framer EXCEPT !["ip_send"] = r]
        /\ UNCHANGED <<up, caller, staging, out, calls, mixed>>
    BY DEF TakeDatagram
  <1>2. ip_send \in Seq(Queued)
    BY DEF MInv, Types
  <1>3. /\ d \in Queued /\ d \in In(ip_send)
        /\ ip_send' \in Seq(Queued) /\ In(ip_send') \subseteq In(ip_send)
    BY <1>1, <1>2, InTail
  <1>4. /\ r \in SenderRecords /\ r.at = "header"
        /\ [packet |-> r.packet, mac |-> r.mac, call |-> r.call] = d
    BY <1>3 DEF SenderRecords, Queued
  <1> HIDE DEF d, r
  <1>5. /\ DOMAIN framer' = Framers /\ framer'["ip_send"] = r
        /\ framer'["handout"] = framer["handout"]
    BY <1>1 DEF MInv, Types, Framers
  <1>6. Types'
    BY <1>1, <1>3, <1>4, <1>5 DEF MInv, Types, up, staging
  <1>7. InHand' = {d} /\ InHand = {}
    BY <1>1, <1>4, <1>5 DEF InHand
  <1>8. \A c : Clean(c)' <=> Clean(c)
    BY <1>1 DEF Clean
  <1>9. ip_packet_id' = ip_packet_id
    BY <1>1 DEF staging
  <1>10. In(ip_send') \cup InHand' \subseteq In(ip_send) \cup InHand
    BY <1>3, <1>7
  <1>11. OnTheWay' /\ Sent'
    BY <1>1, <1>8, <1>9, <1>10 DEF MInv, OnTheWay, Sent
  <1>12. Numbered'
    <2>1. Ordered(Later, ip_send') /\ \A e \in In(ip_send') : <<d, e>> \in Later
      BY <1>1, <1>2, OrderedTail DEF MInv, Numbered, d
    <2>2. Later' = Later
      BY <1>8 DEF Later
    <2> QED
      BY <1>7, <2>1, <2>2 DEF Numbered
  <1>13. Distinct'
    BY <1>1, <1>8 DEF MInv, Distinct
  <1>14. EchoBuffer' /\ IpBuffer'
    BY <1>1 DEF MInv, EchoBuffer, IpBuffer, Clean, staging
  <1>15. FrameBuffer'
    BY <1>1, <1>4, <1>5 DEF MInv, FrameBuffer, Clean, staging, Framers
  <1> QED
    BY <1>6, <1>11, <1>12, <1>13, <1>14, <1>15 DEF MInv

\* What a framer is that is putting a frame together.
LEMMA FramerAt ==
  ASSUME Types, NEW t \in Framers, framer[t].at \in {"header", "data"}
  PROVE  \/ t = "ip_send" /\ framer[t] \in SenderRecords
         \/ t = "handout" /\ framer[t] \in ReplierRecords
  <1>1. framer[t] # IdleFramer /\ framer[t] \notin HandoutRecords
    BY DEF IdleFramer, HandoutRecords
  <1> QED
    BY <1>1 DEF Types, Framers

LEMMA EthernetHeaderStep ==
  ASSUME MInv, NEW t \in Framers, load_ethernet_header(t)
  PROVE  MInv'
  <1> DEFINE r == [framer[t] EXCEPT !.at = "data"]
  <1>1. /\ framer[t].at = "header"
        /\ ethernet_send_buffer' = [ethernet_send_buffer EXCEPT
             !.mac = framer[t].mac, !.type = framer[t].type, !.size = Header]
        /\ Sharing(t, framer, {"data"})
        /\ framer' = [framer EXCEPT ![t] = r]
        /\ UNCHANGED <<up, caller, ICMP_send_buffer, ip_buffer, ip_packet_id, down, calls>>
    BY DEF load_ethernet_header, MInv, Types
  <1>2. \/ t = "ip_send" /\ framer[t] \in SenderRecords
        \/ t = "handout" /\ framer[t] \in ReplierRecords
    BY <1>1, FramerAt DEF MInv
  <1>3. /\ t = "ip_send" => r \in SenderRecords
        /\ t = "handout" => r \in ReplierRecords
        /\ r.at = "data" /\ r.call = framer[t].call /\ r.mac = framer[t].mac
        /\ r.type = framer[t].type /\ r.packet = framer[t].packet
    BY <1>2 DEF SenderRecords, ReplierRecords
  <1>4. framer[t].mac \in Hosts /\ framer[t].type \in {"arp", "ip"}
    BY <1>2 DEF SenderRecords, ReplierRecords, Hosts
  <1>5. /\ mixed \subseteq mixed'
        /\ \A u \in Framers \ {t} :
             framer[u].at = "data" =>
               framer[u].call \in mixed' /\ framer[t].call \in mixed'
    BY <1>1, SharingMixes DEF MInv, Types
  <1> HIDE DEF r
  <1>6. /\ DOMAIN framer' = Framers /\ framer'[t] = r
        /\ \A u \in Framers \ {t} : framer'[u] = framer[u]
    BY <1>1 DEF MInv, Types
  <1>7. /\ ethernet_send_buffer' \in
             [mac : Hosts, type : {"none", "arp", "ip"}, data : Contents, size : Int]
        /\ ethernet_send_buffer'.mac = r.mac /\ ethernet_send_buffer'.type = r.type
        /\ ethernet_send_buffer'.size = Header
    <2> DEFINE mac == framer[t].mac
               type == framer[t].type
               C == Contents
    <2>1. /\ mac \in Hosts /\ type \in {"none", "arp", "ip"} /\ Header \in Int
          /\ ethernet_send_buffer \in [mac : Hosts, type : {"none", "arp", "ip"}, data : C, size : Int]
          /\ ethernet_send_buffer' = [ethernet_send_buffer EXCEPT !.mac = mac, !.type = type, !.size = Header]
      BY <1>1, <1>4 DEF MInv, Types, Header
    <2> HIDE DEF mac, type, C
    <2>2. /\ ethernet_send_buffer' \in
               [mac : Hosts, type : {"none", "arp", "ip"}, data : C, size : Int]
          /\ ethernet_send_buffer'.mac = mac /\ ethernet_send_buffer'.type = type
          /\ ethernet_send_buffer'.size = Header
      BY <2>1
    <2> QED
      BY <1>3, <2>2 DEF mac, type, C
  <1>8. Types'
    BY <1>1, <1>3, <1>6, <1>7 DEF MInv, Types, up, down, Framers
  <1>9. InHand' = InHand
    <2>1. CASE t = "ip_send"
      BY <1>1, <1>3, <1>6, <2>1 DEF InHand
    <2>2. CASE t # "ip_send"
      BY <1>6, <2>2 DEF InHand, Framers
    <2> QED
      BY <2>1, <2>2
  <1>10. OnTheWay' /\ Numbered' /\ Sent' /\ Distinct'
    BY <1>1, <1>5, <1>9, WayKept DEF down
  <1>11. EchoBuffer' /\ IpBuffer'
    BY <1>1, <1>5 DEF MInv, EchoBuffer, IpBuffer, Clean
  <1>12. FrameBuffer'
    BY <1>3, <1>5, <1>6, <1>7 DEF FrameBuffer, Clean
  <1> QED
    BY <1>8, <1>10, <1>11, <1>12 DEF MInv

LEMMA WantedDatagram ==
  ASSUME NEW call \in Calls, NEW id
  PROVE  Wanted(call, id) =
           [mac |-> call.to, type |-> "ip",
            data |-> [to |-> call.to, proto |-> Proto(call), id |-> id, data |-> call,
                      size |-> Header + Payload],
            size |-> Header + Payload]
  BY DEF Wanted, Calls

LEMMA WantedReply ==
  ASSUME NEW call \in ArpCalls
  PROVE  Wanted(call, 0) =
           [mac |-> call.to, type |-> "arp", data |-> [arp |-> call.to],
            size |-> Header + Payload]
  BY DEF Wanted, ArpCalls

\* ethernet_send_buffer with other contents.
LEMMA FilledBuffer ==
  ASSUME NEW M, NEW K, NEW C,
         NEW b \in [mac : M, type : K, data : C, size : Int], NEW data \in C, NEW size \in Int
  PROVE  [b EXCEPT !.data = data, !.size = size] =
           [mac |-> b.mac, type |-> b.type, data |-> data, size |-> size]
  <1> DEFINE c == [b EXCEPT !.data = data, !.size = size]
  <1>1. /\ c \in [mac : M, type : K, data : C, size : Int]
        /\ c.mac = b.mac /\ c.type = b.type /\ c.data = data /\ c.size = size
    OBVIOUS
  <1> HIDE DEF c
  <1>2. c = [mac |-> b.mac, type |-> b.type, data |-> data, size |-> size]
    BY <1>1
  <1> QED
    BY <1>2 DEF c

LEMMA FrameStep ==
  ASSUME MInv, NEW t \in Framers, ethernet_send_packet(t)
  PROVE  MInv'
  <1> DEFINE call == framer[t].call
             packet == framer[t].packet
             size == ethernet_send_buffer.size + Payload
             frame == [ethernet_send_buffer EXCEPT !.data = packet, !.size = size]
             sent == [frame |-> frame, call |-> call]
  <1>1. /\ framer[t].at = "data"
        /\ ethernet_send_buffer' = frame
        /\ out' = out \cup {sent}
        /\ framer' = [framer EXCEPT ![t] = IdleFramer]
        /\ UNCHANGED <<up, caller, ICMP_send_buffer, ip_buffer, ip_packet_id, ip_send, calls, mixed>>
    BY DEF ethernet_send_packet, MInv, Types
  <1>2. \/ t = "ip_send" /\ framer[t] \in SenderRecords
        \/ t = "handout" /\ framer[t] \in ReplierRecords
    BY <1>1, FramerAt DEF MInv
  <1>3. /\ DOMAIN framer' = Framers /\ framer'[t] = IdleFramer
        /\ \A u \in Framers \ {t} : framer'[u] = framer[u]
    BY <1>1 DEF MInv, Types
  <1>4. /\ packet \in Contents
        /\ t = "ip_send" => call \in Calls /\ packet \in Datagrams
        /\ t = "handout" => call \in ArpCalls /\ packet = [arp |-> call.to]
    BY <1>2 DEF SenderRecords, ReplierRecords, Contents
  <1>5. /\ frame \in [mac : Hosts, type : {"none", "arp", "ip"}, data : Contents, size : Int]
        /\ frame = [mac |-> ethernet_send_buffer.mac, type |-> ethernet_send_buffer.type,
                    data |-> packet, size |-> size]
    <2> DEFINE b == ethernet_send_buffer
               M == Hosts
               K == {"none", "arp", "ip"}
               C == Contents
               filled == [mac |-> b.mac, type |-> b.type, data |-> packet, size |-> size]
    <2>1. b \in [mac : M, type : K, data : C, size : Int] /\ size \in Int /\ packet \in C
      BY <1>4 DEF MInv, Types, Payload
    <2>2. frame = [b EXCEPT !.data = packet, !.size = size]
      OBVIOUS
    <2> HIDE DEF b, M, K, C, packet, size, frame
    <2>3. frame = filled
      BY <2>1, <2>2, FilledBuffer
    <2>4. filled \in [mac : M, type : K, data : C, size : Int]
      BY <2>1
    <2> QED
      BY <2>3, <2>4 DEF b, M, K, C
  <1>6. Types'
    BY <1>1, <1>3, <1>5 DEF MInv, Types, up, Framers
  <1>7. InHand' \subseteq InHand
    <2>1. CASE t = "ip_send"
      BY <1>3, <2>1 DEF InHand, IdleFramer
    <2>2. CASE t # "ip_send"
      BY <1>3, <2>2 DEF InHand, Framers
    <2> QED
      BY <2>1, <2>2
  <1>8. \A c : Clean(c)' <=> Clean(c)
    BY <1>1 DEF Clean
  <1>9. OnTheWay'
    BY <1>1, <1>7, <1>8 DEF MInv, OnTheWay
  <1>10. Numbered'
    <2>1. Later' = Later
      BY <1>8 DEF Later
    <2> QED
      BY <1>1, <1>7, <2>1 DEF MInv, Numbered
  <1>11. Clean(call) =>
           /\ ethernet_send_buffer.mac = framer[t].mac
           /\ ethernet_send_buffer.type = framer[t].type
           /\ size = Header + Payload
    BY <1>1 DEF MInv, FrameBuffer
  <1>12. ASSUME Clean(call), t = "ip_send"
         PROVE  /\ sent.frame = Wanted(call, packet.id) /\ sent.frame.data = packet
                /\ call.op # "arp" /\ packet.id \in Nat /\ packet.id < ip_packet_id
                /\ InHand' = {}
                /\ \A e \in In(ip_send) : Clean(e.call) => packet.id < e.packet.id
                /\ \A f \in out : Clean(f.call) /\ f.call.op # "arp" =>
                     f.frame.data.id < packet.id
    <2> DEFINE d == [packet |-> packet, mac |-> framer[t].mac, call |-> call]
    <2>1. d \in InHand /\ InHand' = {}
      BY <1>1, <1>3, <1>12 DEF InHand, IdleFramer
    <2>2. d.call = call /\ d.packet = packet /\ d.mac = framer[t].mac
      OBVIOUS
    <2>3. framer[t].type = "ip" /\ call \in Calls /\ packet \in Datagrams
      BY <1>2, <1>12 DEF SenderRecords
    <2> HIDE DEF d, call, packet, size, frame, sent
    <2>4. Right(d) /\ packet.id < ip_packet_id
      BY <1>12, <2>1, <2>2 DEF MInv, OnTheWay
    <2>5. frame = [mac |-> call.to, type |-> "ip", data |-> packet, size |-> Header + Payload]
      BY <1>5, <1>11, <1>12, <2>2, <2>3, <2>4 DEF Right
    <2>6. packet = [to |-> call.to, proto |-> Proto(call), id |-> packet.id,
                    data |-> call, size |-> Header + Payload]
      BY <2>2, <2>4 DEF Right
    <2>7. frame = Wanted(call, packet.id) /\ frame.data = packet
      BY <2>3, <2>5, <2>6, WantedDatagram
    <2>8. call.op # "arp" /\ packet.id \in Nat
      BY <2>3 DEF Calls, Datagrams
    <2>9. \A e \in In(ip_send) : Clean(e.call) => packet.id < e.packet.id
      BY <1>12, <2>1, <2>2 DEF MInv, Numbered, Later
    <2>10. \A f \in out : Clean(f.call) /\ f.call.op # "arp" => f.frame.data.id < packet.id
      BY <1>12, <2>1, <2>2 DEF MInv, Sent
    <2> QED
      BY <2>1, <2>4, <2>7, <2>8, <2>9, <2>10 DEF sent
  <1>13. ASSUME Clean(call), t = "handout"
         PROVE  sent.frame = Wanted(call, 0) /\ call.op = "arp"
    <2>1. framer[t].mac = call.to /\ framer[t].type = "arp" /\ call.op = "arp"
      BY <1>2, <1>13 DEF ReplierRecords, ArpCalls
    <2> HIDE DEF call, packet, size, frame
    <2>2. frame = [mac |-> call.to, type |-> "arp", data |-> [arp |-> call.to],
                   size |-> Header + Payload]
      BY <1>4, <1>5, <1>11, <1>13, <2>1
    <2> QED
      BY <1>4, <1>13, <2>1, <2>2, WantedReply
  <1>14. sent.call = call
    OBVIOUS
  <1> HIDE DEF sent, frame, size, packet, call
  <1>15. Sent'
    <2> SUFFICES ASSUME NEW f \in out', Clean(f.call)
                 PROVE  /\ f.call \in Calls \cup ArpCalls
                        /\ f.frame = Wanted(f.call, IF f.call.op = "arp" THEN 0
                                                    ELSE f.frame.data.id)
                        /\ f.call.op # "arp" =>
                             /\ f.frame.data.id \in Nat /\ f.frame.data.id < ip_packet_id
                             /\ \A e \in In(ip_send) \cup InHand' :
                                  Clean(e.call) => f.frame.data.id < e.packet.id
      BY <1>1, <1>8 DEF Sent
    <2>1. CASE f \in out
      BY <1>7, <2>1 DEF MInv, Sent
    <2>2. CASE f = sent /\ t = "ip_send"
      BY <1>4, <1>12, <1>14, <2>2
    <2>3. CASE f = sent /\ t = "handout"
      BY <1>4, <1>13, <1>14, <2>3
    <2> QED
      BY <1>1, <1>2, <2>1, <2>2, <2>3
  <1>16. Distinct'
    <2> SUFFICES ASSUME NEW f \in out', NEW g \in out', Clean(f.call), Clean(g.call), f # g,
                        f.call.op # "arp", g.call.op # "arp"
                 PROVE  f.frame.data.id # g.frame.data.id
      BY <1>8 DEF Distinct
    <2>1. CASE f \in out /\ g \in out
      BY <2>1 DEF MInv, Distinct
    <2>2. ASSUME NEW h \in out, Clean(h.call), h.call.op # "arp",
                 Clean(call), call.op # "arp"
          PROVE  h.frame.data.id # sent.frame.data.id
      <3>1. t = "ip_send"
        BY <1>2, <1>13, <2>2
      <3>2. h.frame.data.id \in Nat
        BY <2>2 DEF MInv, Sent
      <3> QED
        BY <1>12, <2>2, <3>1, <3>2
    <2> QED
      BY <1>1, <1>14, <2>1, <2>2
  <1>17. EchoBuffer' /\ IpBuffer'
    BY <1>1 DEF MInv, EchoBuffer, IpBuffer, Clean
  <1>18. FrameBuffer'
    <2>1. framer'[t].at # "data"
      BY <1>3 DEF IdleFramer
    <2> QED
      BY <1>1, <1>3, <2>1 DEF MInv, FrameBuffer, Clean
  <1> QED
    BY <1>6, <1>9, <1>10, <1>15, <1>16, <1>17, <1>18 DEF MInv

(***************************************************************************)
(* The theorem                                                             *)
(***************************************************************************)
LEMMA MInit == Init => MInv
  <1> SUFFICES ASSUME Init PROVE MInv
    OBVIOUS
  <1>1. Types
    <2>1. IdleCaller \in CallerRecords /\ NoCall \in Calls
      BY IdleCallerType, NoCallType
    <2>2. ip_buffer \in Datagrams
      BY <2>1 DEF Init, Datagrams, Hosts
    <2>3. ethernet_send_buffer \in
            [mac : Hosts, type : {"none", "arp", "ip"}, data : Contents, size : Int]
      BY DEF Init, Contents, Hosts
    <2>4. framer = [t \in Framers |-> IdleFramer] /\ caller = [t \in Callers |-> IdleCaller]
      BY DEF Init
    <2> QED
      BY <2>1, <2>2, <2>3, <2>4 DEF Init, Types, Framers
  <1>2. /\ \A t \in Callers : caller[t].at = "idle"
        /\ \A t \in Framers : framer[t].at = "idle"
    BY DEF Init, IdleCaller, IdleFramer
  <1>3. In(ip_send) = {} /\ InHand = {} /\ out = {}
    BY <1>2, EmptyIn DEF Init, InHand, Framers
  <1>4. EchoBuffer /\ IpBuffer /\ FrameBuffer
    BY <1>2 DEF EchoBuffer, IpBuffer, FrameBuffer
  <1>5. OnTheWay /\ Numbered /\ Sent /\ Distinct
    BY <1>3, OrderedEmpty DEF Init, OnTheWay, Numbered, Sent, Distinct
  <1> QED
    BY <1>1, <1>4, <1>5 DEF MInv

LEMMA MStep == MInv /\ [Next]_vars => MInv'
  <1> SUFFICES ASSUME MInv, [Next]_vars PROVE MInv'
    OBVIOUS
  <1>1. CASE \E kind \in Kinds, p \in Peers, accepted \in BOOLEAN : Arrive(kind, p, accepted)
    BY <1>1, ArriveStep
  <1>2. CASE recvfrom \/ \E p \in Targets : sendto(p) \/ send_ICMP_echo_request(p)
    BY <1>2, ApplicationStep
  <1>3. ASSUME NEW t \in Callers, FillEcho(t) \/ network_ipv4_send(t) PROVE MInv'
    BY <1>3, FillEchoStep, IpHeaderStep, IpDataStep, PutStep DEF network_ipv4_send
  <1>4. ASSUME NEW t \in Framers, Build(t) PROVE MInv'
    BY <1>4, EthernetHeaderStep, FrameStep DEF Build
  <1>5. CASE MainGoesOn \/ thread_ip_handout
    BY <1>3, <1>5, IpHandoutStep, ToIdle DEF MainGoesOn, thread_ip_handout, Callers
  <1>6. CASE thread_handout \/ thread_ip_send
    BY <1>4, <1>6, TakesUp, PutsDown, TakeStep DEF thread_handout, thread_ip_send, Framers
  <1>7. CASE UNCHANGED vars
    <2>1. UNCHANGED <<up, caller, framer, staging, down, calls, mixed>>
      BY <1>7 DEF vars
    <2>2. Types'
      BY <2>1 DEF MInv, Types, up, staging, down
    <2>3. InHand' = InHand
      BY <2>1 DEF InHand
    <2>4. OnTheWay' /\ Numbered' /\ Sent' /\ Distinct'
      BY <2>1, <2>3, WayKept DEF down, staging
    <2>5. EchoBuffer' /\ IpBuffer' /\ FrameBuffer'
      BY <2>1 DEF MInv, EchoBuffer, IpBuffer, FrameBuffer, Clean, staging
    <2> QED
      BY <2>2, <2>4, <2>5 DEF MInv
  <1> QED
    BY <1>1, <1>2, <1>5, <1>6, <1>7 DEF Next

\* Two calls that meet in ICMP_send_buffer, ip_buffer or ethernet_send_buffer
\* spoil at most each other: the frame of every other call leaves as it was
\* asked for, with an id of its own, for any peers, targets, ring sizes and
\* numbers of frames and calls.
THEOREM UnmixedIsIntactAlways == Spec => []UnmixedIsIntact
  <1>1. MInv => UnmixedIsIntact
    BY DEF MInv, Sent, Distinct, Clean, UnmixedIsIntact
  <1> QED
    BY <1>1, MInit, MStep, PTL DEF Spec

(***************************************************************************)
(* How much there is of everything.                                        *)
(***************************************************************************)
Echoes == {f \in Frames : f.kind = "echo"}

\* Frames of one set in the hands of thread_handout.
InHandout(S) == IF framer["handout"].at = "ipv4" THEN One(S, framer["handout"].packet) ELSE 0

\* Callers and framers, as numbers: inside the datagram they send, and between
\* header and data.
Busy(r) == IF r.at \in {"fill", "header", "data", "put"} THEN 1 ELSE 0
Filling(r) == IF r.at = "data" THEN 1 ELSE 0
BusyCallers == Busy(caller["main"]) + Busy(caller["ip_handout"])
FillingCallers == Filling(caller["main"]) + Filling(caller["ip_handout"])
FillingFramers == Filling(framer["ip_send"]) + Filling(framer["handout"])

\* The rings and the bounds of the surroundings.
RingsFit ==
  /\ udp_recv \in Seq(Calls)
  /\ Len(ethernet_recv) <= EthQue
  /\ Len(ip_recv) <= IpQue /\ Len(ip_send) <= IpQue /\ Len(udp_recv) <= UdpQue
Occurred ==
  /\ \A kind \in Kinds : arrived[kind] <= Bound(kind)
  /\ calls <= MaxCalls /\ Events <= MaxEvents

\* ip_id counts the datagrams that network_ipv4_recv has seen, and
\* ip_packet_id the calls and the echo requests whose datagram is out.
IdsRead ==
  /\ ip_id \in Nat
  /\ ip_id + Count(IpFrames, ethernet_recv) + InHandout(IpFrames)
       <= arrived["echo"] + arrived["udp"] + arrived["stray"]
IdsUsed ==
  ip_packet_id + BusyCallers
      + Count(Echoes, ethernet_recv) + InHandout(Echoes) + Count(Echoes, ip_recv)
    <= calls + arrived["echo"]

\* Every thread between header and data adds its data once.
SizesFit ==
  /\ ip_buffer.size >= 0 /\ ip_buffer.size + FillingCallers <= 3
  /\ ethernet_send_buffer.size >= 0 /\ ethernet_send_buffer.size + FillingFramers <= 3

CountInv == RingsFit /\ Occurred /\ IdsRead /\ IdsUsed /\ SizesFit

LEMMA OneOrNone ==
  /\ \A P, e : One(P, e) \in {0, 1}
  /\ \A S : InHandout(S) \in {0, 1}
  /\ \A r : Busy(r) \in {0, 1} /\ Filling(r) \in {0, 1}
  BY DEF One, InHandout, Busy, Filling

LEMMA Numbers ==
  ASSUME MInv
  PROVE  /\ \A P : Count(P, ethernet_recv) \in Nat /\ Count(P, ip_recv) \in Nat
         /\ \A S : InHandout(S) \in Int
         /\ BusyCallers \in Nat /\ FillingCallers \in Nat /\ FillingFramers \in Nat
         /\ \A kind \in Kinds : arrived[kind] \in Nat
         /\ calls \in Nat /\ ip_packet_id \in Nat
         /\ ip_buffer.size \in Int /\ ethernet_send_buffer.size \in Int
  <1>1. /\ ethernet_recv \in Seq(Frames) /\ ip_recv \in Seq(IpFrames)
        /\ \A kind \in Kinds : arrived[kind] \in Nat
        /\ calls \in Nat /\ ip_packet_id \in Nat
        /\ ip_buffer.size \in Int /\ ethernet_send_buffer.size \in Int
    BY DEF MInv, Types, Datagrams
  <1>2. \A P : Count(P, ethernet_recv) \in Nat /\ Count(P, ip_recv) \in Nat
    BY <1>1, CountType
  <1>3. \A S : InHandout(S) \in Int
    BY OneOrNone
  <1>4. BusyCallers \in Nat /\ FillingCallers \in Nat /\ FillingFramers \in Nat
    BY DEF BusyCallers, FillingCallers, FillingFramers, Busy, Filling
  <1> QED
    BY <1>1, <1>2, <1>3, <1>4

\* A caller goes on.
LEMMA CallerCounts ==
  ASSUME MInv, NEW t \in Callers, NEW r, caller' = [caller EXCEPT ![t] = r]
  PROVE  /\ BusyCallers' = BusyCallers - Busy(caller[t]) + Busy(r)
         /\ FillingCallers' = FillingCallers - Filling(caller[t]) + Filling(r)
  <1>1. DOMAIN caller = Callers
    BY DEF MInv, Types
  <1>2. CASE t = "main"
    <2>1. caller'["main"] = r /\ caller'["ip_handout"] = caller["ip_handout"]
      BY <1>1, <1>2 DEF Callers
    <2> QED
      BY <1>2, <2>1, OneOrNone DEF BusyCallers, FillingCallers
  <1>3. CASE t = "ip_handout"
    <2>1. caller'["ip_handout"] = r /\ caller'["main"] = caller["main"]
      BY <1>1, <1>3 DEF Callers
    <2> QED
      BY <1>3, <2>1, OneOrNone DEF BusyCallers, FillingCallers
  <1> QED
    BY <1>2, <1>3 DEF Callers

\* A framer goes on.
LEMMA FramerCounts ==
  ASSUME MInv, NEW t \in Framers, NEW r, framer' = [framer EXCEPT ![t] = r]
  PROVE  /\ FillingFramers' = FillingFramers - Filling(framer[t]) + Filling(r)
         /\ framer'[t] = r /\ \A u \in Framers \ {t} : framer'[u] = framer[u]
  <1>1. DOMAIN framer = Framers
    BY DEF MInv, Types
  <1>2. CASE t = "ip_send"
    <2>1. framer'["ip_send"] = r /\ framer'["handout"] = framer["handout"]
      BY <1>1, <1>2 DEF Framers
    <2> QED
      BY <1>1, <1>2, <2>1, OneOrNone DEF FillingFramers, Framers
  <1>3. CASE t = "handout"
    <2>1. framer'["handout"] = r /\ framer'["ip_send"] = framer["ip_send"]
      BY <1>1, <1>3 DEF Framers
    <2> QED
      BY <1>1, <1>3, <2>1, OneOrNone DEF FillingFramers, Framers
  <1> QED
    BY <1>2, <1>3 DEF Framers

\* thread_handout holds what it held, or neither before nor after a datagram.
LEMMA SameHandout ==
  ASSUME framer'["handout"] = framer["handout"]
           \/ (framer["handout"].at # "ipv4" /\ framer'["handout"].at # "ipv4")
  PROVE  \A S : InHandout(S)' = InHandout(S)
  BY DEF InHandout

(***************************************************************************)
(* Upwards                                                                 *)
(***************************************************************************)
LEMMA ArriveCounts ==
  ASSUME MInv, CountInv, NEW kind \in Kinds, NEW p \in Peers, NEW accepted \in BOOLEAN,
         Arrive(kind, p, accepted)
  PROVE  CountInv'
  <1> DEFINE frame == [kind |-> kind, from |-> p, id |-> peer_id[p], n |-> arrived'[kind]]
  <1>1. /\ arrived[kind] < Bound(kind) /\ Events < MaxEvents
        /\ arrived' = [arrived EXCEPT ![kind] = @ + 1]
        /\ \/ kind = "stray" /\ ethernet_recv' = ethernet_recv
           \/ Len(ethernet_recv) < EthQue /\ ethernet_recv' = Append(ethernet_recv, frame)
        /\ UNCHANGED <<ip_recv, udp_recv, ip_id, caller, framer, staging, down, calls, mixed>>
    BY DEF Arrive
  <1>2. /\ arrived'[kind] = arrived[kind] + 1
        /\ \A k \in Kinds \ {kind} : arrived'[k] = arrived[k]
        /\ \A k \in Kinds : arrived[k] \in Nat
    BY <1>1 DEF MInv, Types
  <1>3. /\ kind \in {"arp", "echo", "udp", "stray"}
        /\ arrived'["arp"] = arrived["arp"] + (IF kind = "arp" THEN 1 ELSE 0)
        /\ arrived'["echo"] = arrived["echo"] + (IF kind = "echo" THEN 1 ELSE 0)
        /\ arrived'["udp"] = arrived["udp"] + (IF kind = "udp" THEN 1 ELSE 0)
        /\ arrived'["stray"] = arrived["stray"] + (IF kind = "stray" THEN 1 ELSE 0)
        /\ arrived["arp"] \in Nat /\ arrived["echo"] \in Nat
        /\ arrived["udp"] \in Nat /\ arrived["stray"] \in Nat
    BY <1>2 DEF Kinds
  <1>4. frame \in Frames /\ ethernet_recv \in Seq(Frames)
    <2>1. peer_id[p] \in Nat /\ arrived'[kind] \in Nat
      BY <1>2 DEF MInv, Types
    <2> QED
      BY <2>1 DEF MInv, Types, Frames
  <1>5. /\ One(IpFrames, frame) = (IF kind = "arp" THEN 0 ELSE 1)
        /\ One(Echoes, frame) = (IF kind = "echo" THEN 1 ELSE 0)
    BY <1>4 DEF One, IpFrames, Echoes
  <1> HIDE DEF frame
  <1>6. \A P : Count(P, ethernet_recv) \in Nat
    BY Numbers
  <1>7. /\ Count(IpFrames, ethernet_recv') <=
             Count(IpFrames, ethernet_recv) + (IF kind = "arp" THEN 0 ELSE 1)
        /\ Count(Echoes, ethernet_recv') <=
             Count(Echoes, ethernet_recv) + (IF kind = "echo" THEN 1 ELSE 0)
        /\ Count(IpFrames, ethernet_recv') \in Nat /\ Count(Echoes, ethernet_recv') \in Nat
    <2>1. CASE ethernet_recv' = ethernet_recv
      BY <1>6, <2>1
    <2>2. CASE ethernet_recv' = Append(ethernet_recv, frame)
      <3>1. \A P : Count(P, ethernet_recv') = Count(P, ethernet_recv) + One(P, frame)
        BY <1>4, <2>2, CountAppend
      <3> QED
        BY <1>5, <1>6, <3>1
    <2> QED
      BY <1>1, <2>1, <2>2
  <1>8. \A S : InHandout(S)' = InHandout(S) /\ InHandout(S) \in Int
    BY <1>1, SameHandout, OneOrNone
  <1>9. /\ BusyCallers' = BusyCallers /\ FillingCallers' = FillingCallers
        /\ FillingFramers' = FillingFramers
    BY <1>1 DEF BusyCallers, FillingCallers, FillingFramers
  <1>10. RingsFit'
    <2>1. Len(ethernet_recv') <= EthQue
      <3>1. CASE ethernet_recv' = ethernet_recv
        BY <3>1 DEF CountInv, RingsFit
      <3>2. CASE Len(ethernet_recv) < EthQue /\ ethernet_recv' = Append(ethernet_recv, frame)
        <4>1. Len(ethernet_recv') = Len(ethernet_recv) + 1 /\ Len(ethernet_recv) \in Nat
          BY <1>4, <3>2, AppendProperties, LenProperties
        <4> QED
          BY <3>2, <4>1, HostAssumption
      <3> QED
        BY <1>1, <3>1, <3>2
    <2> QED
      BY <1>1, <2>1 DEF CountInv, RingsFit, down
  <1>11. Occurred'
    <2>1. \A k \in Kinds : arrived'[k] <= Bound(k)
      <3> SUFFICES ASSUME NEW k \in Kinds PROVE arrived'[k] <= Bound(k)
        OBVIOUS
      <3>1. CASE k = kind
        <4>1. Bound(kind) \in Nat
          BY HostAssumption DEF Bound, Kinds
        <4> QED
          BY <1>1, <1>2, <3>1, <4>1
      <3>2. CASE k # kind
        BY <1>2, <3>2 DEF CountInv, Occurred
      <3> QED
        BY <3>1, <3>2
    <2>2. Events' = Events + 1 /\ Events \in Nat
      <3>1. calls' = calls /\ calls \in Nat
        BY <1>1, Numbers
      <3>2. arrived'["arp"] + arrived'["echo"] + arrived'["udp"] + arrived'["stray"]
              = arrived["arp"] + arrived["echo"] + arrived["udp"] + arrived["stray"] + 1
        BY <1>3
      <3> QED
        BY <1>3, <3>1, <3>2 DEF Events
    <2>3. MaxEvents \in Nat
      BY HostAssumption
    <2>4. Events' <= MaxEvents
      BY <1>1, <2>2, <2>3
    <2> QED
      BY <1>1, <2>1, <2>4 DEF CountInv, Occurred
  <1>12. IdsRead'
    <2>1. ip_id \in Nat /\ ip_id + Count(IpFrames, ethernet_recv) + InHandout(IpFrames)
                             <= arrived["echo"] + arrived["udp"] + arrived["stray"]
      BY DEF CountInv, IdsRead
    <2>2. /\ Count(IpFrames, ethernet_recv) \in Nat /\ InHandout(IpFrames) \in Int
          /\ InHandout(IpFrames)' = InHandout(IpFrames) /\ ip_id' = ip_id
      BY <1>1, <1>6, <1>8
    <2>3. arrived'["echo"] + arrived'["udp"] + arrived'["stray"]
            = arrived["echo"] + arrived["udp"] + arrived["stray"] + (IF kind = "arp" THEN 0 ELSE 1)
      BY <1>3
    <2> QED
      BY <1>7, <1>3, <2>1, <2>2, <2>3 DEF IdsRead
  <1>13. IdsUsed'
    <2>1. /\ BusyCallers \in Nat /\ Count(Echoes, ip_recv) \in Nat /\ calls \in Nat
          /\ ip_packet_id \in Nat
      BY Numbers
    <2>2. ip_packet_id + BusyCallers + Count(Echoes, ethernet_recv) + InHandout(Echoes)
            + Count(Echoes, ip_recv) <= calls + arrived["echo"]
      BY DEF CountInv, IdsUsed
    <2>3. /\ Count(Echoes, ethernet_recv) \in Nat /\ InHandout(Echoes) \in Int
          /\ InHandout(Echoes)' = InHandout(Echoes)
          /\ UNCHANGED <<ip_packet_id, ip_recv, calls>>
      BY <1>1, <1>6, <1>8 DEF staging
    <2> QED
      BY <1>7, <1>9, <1>3, <2>1, <2>2, <2>3 DEF IdsUsed
  <1>14. SizesFit'
    BY <1>1, <1>9 DEF CountInv, SizesFit, staging
  <1> QED
    BY <1>10, <1>11, <1>12, <1>13, <1>14 DEF CountInv

LEMMA HandoutCounts ==
  ASSUME MInv, CountInv, Handout
  PROVE  CountInv'
  <1> DEFINE f == Head(ethernet_recv)
             reply == [at |-> "header", call |-> Call("arp", f.from, f.n),
                       packet |-> [arp |-> f.from], type |-> "arp", mac |-> f.from]
             r == IF f.kind = "arp" THEN reply
                  ELSE [framer["handout"] EXCEPT !.at = "ipv4", !.packet = f]
  <1>1. /\ framer["handout"].at = "idle" /\ ethernet_recv # <<>>
        /\ ethernet_recv' = Tail(ethernet_recv)
        /\ framer' = [framer EXCEPT !["handout"] = r]
        /\ UNCHANGED <<arrived, ip_recv, udp_recv, ip_id, caller, staging, down, calls>>
    BY DEF Handout, MInv, Types, Framers
  <1>2. f \in Frames /\ ethernet_recv \in Seq(Frames)
    BY <1>1, InTail DEF MInv, Types
  <1>3. framer["handout"] = IdleFramer
    BY <1>1 DEF MInv, Types, ReplierRecords, HandoutRecords
  <1>4. /\ f.kind = "arp" => r.at = "header"
        /\ f.kind # "arp" => r.at = "ipv4" /\ r.packet = f
        /\ r.at # "data" /\ framer["handout"].at # "data"
    BY <1>1, <1>3 DEF IdleFramer
  <1>5. FillingFramers' = FillingFramers /\ framer'["handout"] = r
    <2> HIDE DEF r
    <2>1. /\ FillingFramers' = FillingFramers - Filling(framer["handout"]) + Filling(r)
          /\ framer'["handout"] = r
      BY <1>1, FramerCounts DEF Framers
    <2>2. Filling(framer["handout"]) = 0 /\ Filling(r) = 0 /\ FillingFramers \in Nat
      BY <1>4, Numbers DEF Filling
    <2> QED
      BY <2>1, <2>2
  <1> HIDE DEF r, f
  <1>6. \A P : /\ Count(P, ethernet_recv) = Count(P, ethernet_recv') + One(P, f)
               /\ Count(P, ethernet_recv') \in Nat /\ One(P, f) \in {0, 1}
    <2>1. ethernet_recv' \in Seq(Frames)
      BY <1>1, <1>2, InTail
    <2> QED
      BY <1>1, <1>2, <2>1, CountTail, CountType, OneOrNone DEF f
  <1>7. /\ InHandout(IpFrames) = 0 /\ InHandout(Echoes) = 0
        /\ InHandout(IpFrames)' = One(IpFrames, f) /\ InHandout(Echoes)' = One(Echoes, f)
    <2>1. f.kind = "arp" => One(IpFrames, f) = 0 /\ One(Echoes, f) = 0
      BY DEF One, IpFrames, Echoes
    <2> QED
      BY <1>1, <1>4, <1>5, <2>1 DEF InHandout
  <1>8. BusyCallers' = BusyCallers /\ FillingCallers' = FillingCallers
    BY <1>1 DEF BusyCallers, FillingCallers
  <1>9. RingsFit'
    <2>1. Len(ethernet_recv') = Len(ethernet_recv) - 1 /\ Len(ethernet_recv) \in Nat
      BY <1>1, <1>2, HeadTailProperties, LenProperties
    <2>2. Len(ethernet_recv') <= EthQue
      BY <2>1, HostAssumption DEF CountInv, RingsFit
    <2> QED
      BY <1>1, <2>2 DEF CountInv, RingsFit, down
  <1>10. Occurred'
    BY <1>1 DEF CountInv, Occurred, Events
  <1>11. IdsRead'
    <2>1. ip_id \in Nat /\ ip_id + Count(IpFrames, ethernet_recv) + InHandout(IpFrames)
                             <= arrived["echo"] + arrived["udp"] + arrived["stray"]
      BY DEF CountInv, IdsRead
    <2>2. ip_id + Count(IpFrames, ethernet_recv') + One(IpFrames, f)
            = ip_id + Count(IpFrames, ethernet_recv) + InHandout(IpFrames)
      BY <1>6, <1>7, <2>1
    <2> QED
      BY <1>1, <1>7, <2>1, <2>2 DEF IdsRead
  <1>12. IdsUsed'
    <2>1. /\ BusyCallers \in Nat /\ Count(Echoes, ip_recv) \in Nat /\ calls \in Nat
          /\ ip_packet_id \in Nat /\ arrived["echo"] \in Nat
      BY Numbers DEF Kinds
    <2>2. /\ Count(Echoes, ethernet_recv) = Count(Echoes, ethernet_recv') + One(Echoes, f)
          /\ Count(Echoes, ethernet_recv') \in Nat /\ One(Echoes, f) \in {0, 1}
      BY <1>6
    <2> QED
      BY <1>1, <1>7, <1>8, <2>1, <2>2 DEF CountInv, IdsUsed, staging
  <1>13. SizesFit'
    BY <1>1, <1>5, <1>8 DEF CountInv, SizesFit, staging
  <1> QED
    BY <1>9, <1>10, <1>11, <1>12, <1>13 DEF CountInv

LEMMA Ipv4Counts ==
  ASSUME MInv, CountInv, network_ipv4_recv
  PROVE  CountInv'
  <1> DEFINE f == framer["handout"].packet
  <1>1. /\ framer["handout"].at = "ipv4"
        /\ \/ ip_recv' = ip_recv
           \/ Len(ip_recv) < IpQue /\ ip_recv' = Append(ip_recv, f)
        /\ ip_id' = ip_id + 1
        /\ framer' = [framer EXCEPT !["handout"] = IdleFramer]
        /\ UNCHANGED <<arrived, ethernet_recv, udp_recv, caller, staging, down, calls>>
    BY DEF network_ipv4_recv
  <1>2. f \in IpFrames
    <2>1. framer["handout"] \notin ReplierRecords /\ framer["handout"] # IdleFramer
      BY <1>1 DEF ReplierRecords, IdleFramer
    <2>2. framer["handout"] \in HandoutRecords
      BY <2>1 DEF MInv, Types
    <2> QED
      BY <2>2 DEF HandoutRecords
  <1>3. ip_recv \in Seq(IpFrames)
    BY DEF MInv, Types
  <1>4. IdleFramer.at = "idle"
    BY DEF IdleFramer
  <1>5. FillingFramers' = FillingFramers /\ framer'["handout"] = IdleFramer
    <2>1. /\ FillingFramers' = FillingFramers - Filling(framer["handout"]) + Filling(IdleFramer)
          /\ framer'["handout"] = IdleFramer
      BY <1>1, FramerCounts DEF Framers
    <2>2. Filling(framer["handout"]) = 0 /\ Filling(IdleFramer) = 0 /\ FillingFramers \in Nat
      BY <1>1, <1>4, Numbers DEF Filling
    <2> QED
      BY <2>1, <2>2
  <1>6. /\ InHandout(IpFrames) = 1 /\ InHandout(Echoes) = One(Echoes, f)
        /\ InHandout(IpFrames)' = 0 /\ InHandout(Echoes)' = 0
    BY <1>1, <1>2, <1>4, <1>5 DEF InHandout, One
  <1> HIDE DEF f
  <1>7. BusyCallers' = BusyCallers /\ FillingCallers' = FillingCallers
    BY <1>1 DEF BusyCallers, FillingCallers
  <1>8. /\ Count(Echoes, ip_recv') <= Count(Echoes, ip_recv) + One(Echoes, f)
        /\ Count(Echoes, ip_recv) \in Nat /\ Count(Echoes, ip_recv') \in Nat
        /\ One(Echoes, f) \in Nat
    <2>1. Count(Echoes, ip_recv) \in Nat /\ One(Echoes, f) \in {0, 1}
      BY Numbers, OneOrNone
    <2>2. CASE ip_recv' = ip_recv
      BY <2>1, <2>2
    <2>3. CASE ip_recv' = Append(ip_recv, f)
      <3>1. Count(Echoes, ip_recv') = Count(Echoes, ip_recv) + One(Echoes, f)
        BY <1>2, <1>3, <2>3, CountAppend
      <3> QED
        BY <2>1, <3>1
    <2> QED
      BY <1>1, <2>2, <2>3
  <1>9. RingsFit'
    <2>1. Len(ip_recv') <= IpQue
      <3>1. CASE ip_recv' = ip_recv
        BY <3>1 DEF CountInv, RingsFit
      <3>2. CASE Len(ip_recv) < IpQue /\ ip_recv' = Append(ip_recv, f)
        <4>1. Len(ip_recv') = Len(ip_recv) + 1 /\ Len(ip_recv) \in Nat
          BY <1>2, <1>3, <3>2, AppendProperties, LenProperties
        <4> QED
          BY <3>2, <4>1, HostAssumption
      <3> QED
        BY <1>1, <3>1, <3>2
    <2> QED
      BY <1>1, <2>1 DEF CountInv, RingsFit, down
  <1>10. Occurred'
    BY <1>1 DEF CountInv, Occurred, Events
  <1>11. IdsRead'
    <2>1. ip_id \in Nat /\ ip_id + Count(IpFrames, ethernet_recv) + 1
                             <= arrived["echo"] + arrived["udp"] + arrived["stray"]
      BY <1>6 DEF CountInv, IdsRead
    <2>2. Count(IpFrames, ethernet_recv) \in Nat
      BY Numbers
    <2>3. ip_id' \in Nat /\ ip_id' + Count(IpFrames, ethernet_recv) + 0
                              = ip_id + Count(IpFrames, ethernet_recv) + 1
      BY <1>1, <2>1, <2>2
    <2> QED
      BY <1>1, <1>6, <2>1, <2>3 DEF IdsRead
  <1>12. IdsUsed'
    <2>1. /\ BusyCallers \in Nat /\ Count(Echoes, ethernet_recv) \in Nat /\ calls \in Nat
          /\ ip_packet_id \in Nat /\ arrived["echo"] \in Nat
      BY Numbers DEF Kinds
    <2>2. ip_packet_id + BusyCallers + Count(Echoes, ethernet_recv) + One(Echoes, f)
            + Count(Echoes, ip_recv) <= calls + arrived["echo"]
      BY <1>6 DEF CountInv, IdsUsed
    <2>3. /\ ip_packet_id' = ip_packet_id /\ calls' = calls /\ arrived' = arrived
          /\ ethernet_recv' = ethernet_recv
      BY <1>1 DEF staging
    <2>4. ip_packet_id' + BusyCallers' + Count(Echoes, ethernet_recv') + 0 + Count(Echoes, ip_recv')
            <= calls' + arrived'["echo"]
      BY <1>7, <1>8, <2>1, <2>2, <2>3
    <2> QED
      BY <1>6, <2>4 DEF IdsUsed
  <1>13. SizesFit'
    BY <1>1, <1>5, <1>7 DEF CountInv, SizesFit, staging
  <1> QED
    BY <1>9, <1>10, <1>11, <1>12, <1>13 DEF CountInv

\* A caller goes on outside of the buffers; the rings above may change.
LEMMA CallerStep ==
  ASSUME MInv, CountInv, NEW t \in Callers, NEW r,
         Filling(caller[t]) = 0, Filling(r) = 0,
         caller' = [caller EXCEPT ![t] = r],
         Count(Echoes, ip_recv') \in Nat, calls' \in Nat,
         Busy(r) + Count(Echoes, ip_recv') + calls
           <= Busy(caller[t]) + Count(Echoes, ip_recv) + calls',
         RingsFit', Occurred',
         UNCHANGED <<arrived, ethernet_recv, ip_id, framer, staging, down>>
  PROVE  CountInv'
  <1>1. /\ BusyCallers' = BusyCallers - Busy(caller[t]) + Busy(r)
        /\ FillingCallers' = FillingCallers - Filling(caller[t]) + Filling(r)
    BY CallerCounts
  <1>2. \A S : InHandout(S)' = InHandout(S) /\ InHandout(S) \in Int
    BY SameHandout, OneOrNone
  <1>3. IdsRead'
    BY <1>2 DEF CountInv, IdsRead
  <1>4. IdsUsed'
    <2>1. /\ BusyCallers \in Nat /\ Count(Echoes, ip_recv) \in Nat /\ calls \in Nat
          /\ Count(Echoes, ethernet_recv) \in Nat
          /\ ip_packet_id \in Nat /\ arrived["echo"] \in Nat
          /\ Busy(r) \in {0, 1} /\ Busy(caller[t]) \in {0, 1}
      BY Numbers, OneOrNone DEF Kinds
    <2>2. /\ InHandout(Echoes)' = InHandout(Echoes) /\ InHandout(Echoes) \in Int
          /\ UNCHANGED <<ip_packet_id, arrived, ethernet_recv>>
      BY <1>2 DEF staging
    <2>3. ip_packet_id + BusyCallers + Count(Echoes, ethernet_recv) + InHandout(Echoes)
            + Count(Echoes, ip_recv) <= calls + arrived["echo"]
      BY DEF CountInv, IdsUsed
    <2>4. BusyCallers' = BusyCallers - Busy(caller[t]) + Busy(r)
      BY <1>1
    <2> QED
      BY <2>1, <2>2, <2>3, <2>4 DEF IdsUsed
  <1>5. FillingCallers' = FillingCallers /\ FillingFramers' = FillingFramers
    BY <1>1, Numbers DEF FillingFramers
  <1>6. SizesFit'
    BY <1>5 DEF CountInv, SizesFit, staging
  <1> QED
    BY <1>3, <1>4, <1>6 DEF CountInv

LEMMA IdleCounts == Busy(IdleCaller) = 0 /\ Filling(IdleCaller) = 0
  BY DEF IdleCaller, Busy, Filling

LEMMA IpHandoutCounts ==
  ASSUME MInv, CountInv, IpHandout
  PROVE  CountInv'
  <1> DEFINE f == Head(ip_recv)
             fill == [IdleCaller EXCEPT !.at = "fill", !.call = Call("reply", f.from, f.n)]
             udp == [IdleCaller EXCEPT !.at = "udp", !.call = Call("recv", f.from, f.n)]
             next == [echo |-> fill, udp |-> udp, stray |-> IdleCaller]
             r == next[f.kind]
  <1>1. /\ caller["ip_handout"].at = "idle"
        /\ ip_recv # <<>> /\ ip_recv' = Tail(ip_recv)
        /\ caller' = [caller EXCEPT !["ip_handout"] = r]
        /\ UNCHANGED <<arrived, ethernet_recv, udp_recv, ip_id, framer, staging, down, calls>>
    BY DEF IpHandout
  <1>2. /\ ip_recv \in Seq(IpFrames) /\ ip_recv' \in Seq(IpFrames)
        /\ f \in IpFrames /\ f.kind \in {"echo", "udp", "stray"}
        /\ f.kind = "echo" <=> f \in Echoes
    <2>1. ip_recv \in Seq(IpFrames) /\ f \in IpFrames
      BY <1>1 DEF MInv, Types
    <2>2. ip_recv' \in Seq(IpFrames)
      BY <1>1, <2>1, InTail
    <2> QED
      BY <2>1, <2>2 DEF IpFrames, Frames, Kinds, Echoes
  <1>3. Filling(r) = 0 /\ Busy(r) = One(Echoes, f)
    <2>1. /\ f.kind = "echo" => r = fill
          /\ f.kind = "udp" => r = udp
          /\ f.kind = "stray" => r = IdleCaller
      OBVIOUS
    <2>2. fill.at = "fill" /\ udp.at = "udp" /\ IdleCaller.at = "idle"
      BY DEF IdleCaller
    <2> HIDE DEF fill, udp, r, f
    <2> QED
      BY <1>2, <2>1, <2>2 DEF Filling, Busy, One
  <1>4. Count(Echoes, ip_recv) = Count(Echoes, ip_recv') + One(Echoes, f)
    BY <1>1, <1>2, CountTail
  <1> HIDE DEF r, f
  <1>5. /\ Filling(caller["ip_handout"]) = 0 /\ Busy(caller["ip_handout"]) = 0
        /\ Count(Echoes, ip_recv') \in Nat /\ One(Echoes, f) \in {0, 1} /\ calls \in Nat
    BY <1>1, <1>2, CountType, OneOrNone, Numbers DEF Filling, Busy
  <1>6. RingsFit'
    <2>1. Len(ip_recv') = Len(ip_recv) - 1 /\ Len(ip_recv) \in Nat
      BY <1>1, <1>2, HeadTailProperties, LenProperties
    <2>2. Len(ip_recv') <= IpQue
      BY <2>1, HostAssumption DEF CountInv, RingsFit
    <2> QED
      BY <1>1, <2>2 DEF CountInv, RingsFit, down
  <1>7. Occurred'
    BY <1>1 DEF CountInv, Occurred, Events
  <1>8. /\ "ip_handout" \in Callers
        /\ calls' \in Nat
        /\ Busy(r) + Count(Echoes, ip_recv') + calls
             <= Busy(caller["ip_handout"]) + Count(Echoes, ip_recv) + calls'
    BY <1>1, <1>3, <1>4, <1>5 DEF Callers
  <1> QED
    BY <1>1, <1>3, <1>5, <1>6, <1>7, <1>8, CallerStep

LEMMA UdpCounts ==
  ASSUME MInv, CountInv, transport_udp_recv \/ RecvfromTake
  PROVE  CountInv'
  <1>1. PICK t \in Callers :
          /\ caller[t].at \in {"udp", "recvfrom"}
          /\ caller' = [caller EXCEPT ![t] = IdleCaller]
          /\ \/ udp_recv # <<>> /\ udp_recv' = Tail(udp_recv)
             \/ Len(udp_recv) < UdpQue /\ udp_recv' = Append(udp_recv, caller[t].call)
    BY DEF transport_udp_recv, RecvfromTake, Callers
  <1>2. UNCHANGED <<arrived, ethernet_recv, ip_recv, ip_id, framer, staging, down, calls>>
    BY DEF transport_udp_recv, RecvfromTake
  <1>3. udp_recv \in Seq(Calls) /\ Len(udp_recv) <= UdpQue /\ caller[t].call \in Calls
    BY CallerAt DEF CountInv, RingsFit, MInv
  <1>4. udp_recv' \in Seq(Calls) /\ Len(udp_recv') <= UdpQue
    <2>1. CASE udp_recv # <<>> /\ udp_recv' = Tail(udp_recv)
      <3>1. Tail(udp_recv) \in Seq(Calls) /\ Len(Tail(udp_recv)) = Len(udp_recv) - 1
              /\ Len(udp_recv) \in Nat
        BY <1>3, <2>1, HeadTailProperties, LenProperties
      <3> QED
        BY <1>3, <2>1, <3>1, HostAssumption
    <2>2. CASE Len(udp_recv) < UdpQue /\ udp_recv' = Append(udp_recv, caller[t].call)
      <3>1. Append(udp_recv, caller[t].call) \in Seq(Calls)
              /\ Len(Append(udp_recv, caller[t].call)) = Len(udp_recv) + 1
              /\ Len(udp_recv) \in Nat
        BY <1>3, AppendProperties, LenProperties
      <3> QED
        BY <2>2, <3>1, HostAssumption
    <2> QED
      BY <1>1, <2>1, <2>2
  <1>5. RingsFit' /\ Occurred'
    BY <1>2, <1>4 DEF CountInv, RingsFit, Occurred, Events, down
  <1>6. Filling(caller[t]) = 0 /\ Busy(caller[t]) = 0
    BY <1>1 DEF Filling, Busy
  <1>7. Count(Echoes, ip_recv) \in Nat /\ calls \in Nat
    BY Numbers
  <1>8. /\ Busy(IdleCaller) + Count(Echoes, ip_recv') + calls
             <= Busy(caller[t]) + Count(Echoes, ip_recv) + calls'
        /\ calls' \in Nat /\ Count(Echoes, ip_recv') \in Nat
    BY <1>2, <1>6, <1>7, IdleCounts
  <1> QED
    BY <1>1, <1>2, <1>5, <1>6, <1>8, IdleCounts, CallerStep

LEMMA ApplicationCounts ==
  ASSUME MInv, CountInv,
         recvfrom \/ \E p \in Targets : sendto(p) \/ send_ICMP_echo_request(p)
  PROVE  CountInv'
  <1>1. PICK at, call : at \in {"header", "fill", "recvfrom"} /\ Application(at, call)
    BY DEF recvfrom, sendto, send_ICMP_echo_request
  <1> DEFINE r == [caller["main"] EXCEPT !.at = at, !.call = call]
  <1>2. /\ caller["main"].at = "idle"
        /\ calls < MaxCalls /\ Events + 2 <= MaxEvents
        /\ calls' = calls + 1
        /\ caller' = [caller EXCEPT !["main"] = r]
        /\ UNCHANGED <<up, framer, staging, down, mixed>>
    BY <1>1 DEF Application, MInv, Types, Callers
  <1>3. r.at = at
    BY CallerAt DEF CallerRecords, MInv, Callers
  <1> HIDE DEF r
  <1>4. /\ Filling(caller["main"]) = 0 /\ Busy(caller["main"]) = 0
        /\ Filling(r) = 0 /\ Busy(r) <= 1 /\ Busy(r) \in Int
    BY <1>1, <1>2, <1>3 DEF Filling, Busy
  <1>5. RingsFit'
    BY <1>2 DEF CountInv, RingsFit, up, down
  <1>6. Count(Echoes, ip_recv) \in Nat /\ calls \in Nat /\ \A k \in Kinds : arrived[k] \in Nat
    BY Numbers
  <1>7. Occurred'
    <2>1. Events' = Events + 2
      BY <1>2, <1>6 DEF Events, up, Kinds
    <2> QED
      BY <1>2, <1>6, <2>1, HostAssumption DEF CountInv, Occurred, up
  <1>8. /\ Busy(r) + Count(Echoes, ip_recv') + calls
             <= Busy(caller["main"]) + Count(Echoes, ip_recv) + calls'
        /\ calls' \in Nat /\ Count(Echoes, ip_recv') \in Nat
    BY <1>2, <1>4, <1>6 DEF up
  <1> QED
    BY <1>2, <1>4, <1>5, <1>7, <1>8, CallerStep DEF Callers, up

(***************************************************************************)
(* Downwards                                                               *)
(***************************************************************************)
\* A caller of network_ipv4_send works on a buffer.
LEMMA BufferCounts ==
  ASSUME MInv, CountInv, NEW t \in Callers, NEW r,
         Busy(caller[t]) = 1, Busy(r) = 1,
         caller' = [caller EXCEPT ![t] = r],
         ip_buffer'.size \in Nat,
         ip_buffer'.size + FillingCallers' <= 3,
         UNCHANGED <<up, framer, ethernet_send_buffer, ip_packet_id, down, calls>>
  PROVE  CountInv'
  <1>1. BusyCallers' = BusyCallers
    <2>1. BusyCallers' = BusyCallers - Busy(caller[t]) + Busy(r)
      BY CallerCounts
    <2>2. BusyCallers \in Nat
      BY Numbers
    <2> QED
      BY <2>1, <2>2
  <1>2. \A S : InHandout(S)' = InHandout(S)
    BY SameHandout
  <1>3. FillingFramers' = FillingFramers
    BY DEF FillingFramers
  <1> QED
    BY <1>1, <1>2, <1>3
    DEF CountInv, RingsFit, Occurred, Events, IdsRead, IdsUsed, SizesFit, up, down

LEMMA GotoIs ==
  ASSUME MInv, NEW t \in Callers, NEW at, Goto(t, at)
  PROVE  LET r == [caller[t] EXCEPT !.at = at]
         IN  caller' = [caller EXCEPT ![t] = r] /\ r.at = at
  BY CallerAt DEF Goto, MInv, Types, CallerRecords

LEMMA FillEchoCounts ==
  ASSUME MInv, CountInv, NEW t \in Callers, FillEcho(t)
  PROVE  CountInv'
  <1> DEFINE r == [caller[t] EXCEPT !.at = "header"]
  <1>1. /\ caller[t].at = "fill" /\ Goto(t, "header")
        /\ UNCHANGED <<up, framer, ip_buffer, ethernet_send_buffer, ip_packet_id, down, calls>>
    BY DEF FillEcho
  <1>2. caller' = [caller EXCEPT ![t] = r] /\ r.at = "header"
    BY <1>1, GotoIs
  <1> HIDE DEF r
  <1>3. /\ Busy(caller[t]) = 1 /\ Busy(r) = 1
        /\ Filling(caller[t]) = 0 /\ Filling(r) = 0
    BY <1>1, <1>2 DEF Busy, Filling
  <1>4. FillingCallers' = FillingCallers
    <2>1. FillingCallers' = FillingCallers - Filling(caller[t]) + Filling(r)
      BY <1>2, CallerCounts
    <2>2. FillingCallers \in Nat
      BY Numbers
    <2> QED
      BY <1>3, <2>1, <2>2
  <1>5. ip_buffer'.size \in Nat /\ ip_buffer'.size + FillingCallers' <= 3
    BY <1>1, <1>4, Numbers DEF CountInv, SizesFit
  <1> QED
    BY <1>1, <1>2, <1>3, <1>5, BufferCounts

LEMMA IpHeaderCounts ==
  ASSUME MInv, CountInv, NEW t \in Callers, load_ip_header(t)
  PROVE  CountInv'
  <1> DEFINE r == [caller[t] EXCEPT !.at = "data"]
  <1>1. /\ caller[t].at = "header" /\ Goto(t, "data")
        /\ ip_buffer' = [ip_buffer EXCEPT !.to = caller[t].call.to, !.proto = Proto(caller[t].call),
                                          !.id = ip_packet_id, !.size = Header]
        /\ UNCHANGED <<up, framer, ethernet_send_buffer, ip_packet_id, down, calls>>
    BY DEF load_ip_header
  <1>2. caller' = [caller EXCEPT ![t] = r] /\ r.at = "data"
    BY <1>1, GotoIs
  <1> HIDE DEF r
  <1>3. Busy(caller[t]) = 1 /\ Busy(r) = 1
    BY <1>1, <1>2 DEF Busy
  <1>4. ip_buffer'.size = 1
    BY <1>1 DEF MInv, Types, Datagrams, Header
  <1>5. FillingCallers' \in {0, 1, 2}
    BY DEF FillingCallers, Filling
  <1>6. ip_buffer'.size \in Nat /\ ip_buffer'.size + FillingCallers' <= 3
    <2>1. \A m, n : m = 1 /\ n \in {0, 1, 2} => m \in Nat /\ m + n <= 3
      OBVIOUS
    <2> QED
      BY <1>4, <1>5, <2>1, Zenon
  <1> QED
    BY <1>1, <1>2, <1>3, <1>6, BufferCounts

LEMMA IpDataCounts ==
  ASSUME MInv, CountInv, NEW t \in Callers, load_ip_data(t)
  PROVE  CountInv'
  <1> DEFINE r == [caller[t] EXCEPT !.at = "put", !.mac = ip_buffer.to]
             data == IF Icmp(caller[t].call) THEN ICMP_send_buffer ELSE caller[t].call
             size == ip_buffer.size + Payload
  <1>1. /\ caller[t].at = "data"
        /\ ip_buffer' = [ip_buffer EXCEPT !.size = size, !.data = data]
        /\ caller' = [caller EXCEPT ![t] = r]
        /\ UNCHANGED <<up, framer, ethernet_send_buffer, ip_packet_id, down, calls>>
    BY DEF load_ip_data, MInv, Types
  <1>2. r.at = "put"
    BY CallerAt DEF MInv, CallerRecords
  <1> HIDE DEF r, data
  <1>3. /\ Busy(caller[t]) = 1 /\ Busy(r) = 1
        /\ Filling(caller[t]) = 1 /\ Filling(r) = 0
    BY <1>1, <1>2 DEF Busy, Filling
  <1>4. FillingCallers' = FillingCallers - 1
    <2>1. FillingCallers' = FillingCallers - Filling(caller[t]) + Filling(r)
      BY <1>1, CallerCounts
    <2>2. FillingCallers \in Nat
      BY Numbers
    <2> QED
      BY <1>3, <2>1, <2>2
  <1>5. ip_buffer'.size = ip_buffer.size + 1
    BY <1>1 DEF MInv, Types, Datagrams, Payload
  <1>6. ip_buffer'.size \in Nat /\ ip_buffer'.size + FillingCallers' <= 3
    BY <1>4, <1>5, Numbers DEF CountInv, SizesFit
  <1> QED
    BY <1>1, <1>3, <1>6, BufferCounts

LEMMA PutCounts ==
  ASSUME MInv, CountInv, NEW t \in Callers, PutDatagram(t)
  PROVE  CountInv'
  <1> DEFINE d == [packet |-> ip_buffer, mac |-> caller[t].mac, call |-> caller[t].call]
  <1>1. /\ caller[t].at = "put"
        /\ Len(ip_send) < IpQue /\ ip_send' = Append(ip_send, d)
        /\ ip_packet_id' = ip_packet_id + 1
        /\ caller' = [caller EXCEPT ![t] = IdleCaller]
        /\ UNCHANGED <<up, framer, ip_buffer, ethernet_send_buffer, calls>>
    BY DEF PutDatagram
  <1>2. /\ Busy(caller[t]) = 1 /\ Filling(caller[t]) = 0
    BY <1>1 DEF Busy, Filling
  <1>3. BusyCallers' = BusyCallers - 1 /\ FillingCallers' = FillingCallers
    <2>1. /\ BusyCallers' = BusyCallers - Busy(caller[t]) + Busy(IdleCaller)
          /\ FillingCallers' = FillingCallers - Filling(caller[t]) + Filling(IdleCaller)
      BY <1>1, CallerCounts
    <2>2. BusyCallers \in Nat /\ FillingCallers \in Nat
      BY Numbers
    <2> QED
      BY <1>2, <2>1, <2>2, IdleCounts
  <1>4. \A S : InHandout(S)' = InHandout(S) /\ InHandout(S) \in Int
    BY <1>1, SameHandout, OneOrNone
  <1>5. RingsFit'
    <2>1. ip_send \in Seq(Queued) /\ d \in Queued
      BY CallerAt DEF MInv, Types, Queued
    <2>2. Len(ip_send') = Len(ip_send) + 1 /\ Len(ip_send) \in Nat
      BY <1>1, <2>1, AppendProperties, LenProperties
    <2>3. Len(ip_send') <= IpQue
      BY <1>1, <2>2, HostAssumption
    <2> QED
      BY <1>1, <2>3 DEF CountInv, RingsFit, up
  <1>6. Occurred'
    BY <1>1 DEF CountInv, Occurred, Events, up
  <1>7. IdsRead'
    BY <1>1, <1>4 DEF CountInv, IdsRead, up
  <1>8. IdsUsed'
    <2>1. /\ BusyCallers \in Nat /\ Count(Echoes, ethernet_recv) \in Nat
          /\ Count(Echoes, ip_recv) \in Nat /\ ip_packet_id \in Nat
      BY Numbers
    <2>2. ip_packet_id' + BusyCallers' = ip_packet_id + BusyCallers
      BY <1>1, <1>3, <2>1
    <2> QED
      BY <1>1, <1>4, <2>2 DEF CountInv, IdsUsed, up
  <1>9. SizesFit'
    BY <1>1, <1>3 DEF CountInv, SizesFit, FillingFramers
  <1> QED
    BY <1>5, <1>6, <1>7, <1>8, <1>9 DEF CountInv

\* A framer goes on; thread_handout has no datagram, before and after.
LEMMA FramerStep ==
  ASSUME MInv, CountInv,
         framer'["handout"] = framer["handout"]
           \/ (framer["handout"].at # "ipv4" /\ framer'["handout"].at # "ipv4"),
         ethernet_send_buffer'.size \in Nat,
         ethernet_send_buffer'.size + FillingFramers' <= 3,
         Len(ip_send') <= IpQue,
         UNCHANGED <<up, caller, ip_buffer, ip_packet_id, calls>>
  PROVE  CountInv'
  <1>1. \A S : InHandout(S)' = InHandout(S)
    BY SameHandout
  <1>2. BusyCallers' = BusyCallers /\ FillingCallers' = FillingCallers
    BY DEF BusyCallers, FillingCallers
  <1> QED
    BY <1>1, <1>2
    DEF CountInv, RingsFit, Occurred, Events, IdsRead, IdsUsed, SizesFit, up

LEMMA TakeCounts ==
  ASSUME MInv, CountInv, TakeDatagram
  PROVE  CountInv'
  <1> DEFINE d == Head(ip_send)
             r == [at |-> "header", call |-> d.call, packet |-> d.packet, type |-> "ip",
                   mac |-> d.mac]
  <1>1. /\ framer["ip_send"].at = "idle"
        /\ ip_send # <<>> /\ ip_send' = Tail(ip_send)
        /\ framer' = [framer EXCEPT !["ip_send"] = r]
        /\ UNCHANGED <<up, caller, staging, calls>>
    BY DEF TakeDatagram
  <1>2. r.at = "header"
    OBVIOUS
  <1> HIDE DEF r
  <1>3. /\ FillingFramers' = FillingFramers - Filling(framer["ip_send"]) + Filling(r)
        /\ framer'["handout"] = framer["handout"]
    BY <1>1, FramerCounts DEF Framers
  <1>4. Filling(framer["ip_send"]) = 0 /\ Filling(r) = 0
    BY <1>1, <1>2 DEF Filling
  <1>5. Len(ip_send') <= IpQue
    <2>1. ip_send \in Seq(Queued)
      BY DEF MInv, Types
    <2>2. Len(ip_send') = Len(ip_send) - 1 /\ Len(ip_send) \in Nat
      BY <1>1, <2>1, HeadTailProperties, LenProperties
    <2> QED
      BY <2>2, HostAssumption DEF CountInv, RingsFit
  <1>6. /\ ethernet_send_buffer'.size \in Nat
        /\ ethernet_send_buffer'.size + FillingFramers' <= 3
    <2>1. FillingFramers' = FillingFramers
      BY <1>3, <1>4, Numbers
    <2> QED
      BY <1>1, <2>1, Numbers DEF CountInv, SizesFit, staging
  <1> QED
    BY <1>1, <1>3, <1>5, <1>6, FramerStep DEF staging

LEMMA EthernetHeaderCounts ==
  ASSUME MInv, CountInv, NEW t \in Framers, load_ethernet_header(t)
  PROVE  CountInv'
  <1> DEFINE r == [framer[t] EXCEPT !.at = "data"]
  <1>1. /\ framer[t].at = "header"
        /\ ethernet_send_buffer' = [ethernet_send_buffer EXCEPT
             !.mac = framer[t].mac, !.type = framer[t].type, !.size = Header]
        /\ framer' = [framer EXCEPT ![t] = r]
        /\ UNCHANGED <<up, caller, ip_buffer, ip_packet_id, down, calls>>
    BY DEF load_ethernet_header, MInv, Types
  <1>2. r.at = "data"
    <2>1. framer[t] \in SenderRecords \cup ReplierRecords
      BY <1>1, FramerAt DEF MInv
    <2> QED
      BY <2>1 DEF SenderRecords, ReplierRecords
  <1> HIDE DEF r
  <1>3. framer'[t] = r /\ \A u \in Framers \ {t} : framer'[u] = framer[u]
    BY <1>1, FramerCounts
  <1>4. \/ framer'["handout"] = framer["handout"]
        \/ framer["handout"].at # "ipv4" /\ framer'["handout"].at # "ipv4"
    BY <1>1, <1>2, <1>3 DEF Framers
  <1>5. ethernet_send_buffer'.size = 1
    BY <1>1 DEF MInv, Types, Header
  <1>6. FillingFramers' \in {0, 1, 2}
    BY DEF FillingFramers, Filling
  <1>7. /\ ethernet_send_buffer'.size \in Nat
        /\ ethernet_send_buffer'.size + FillingFramers' <= 3
    <2>1. \A m, n : m = 1 /\ n \in {0, 1, 2} => m \in Nat /\ m + n <= 3
      OBVIOUS
    <2> QED
      BY <1>5, <1>6, <2>1, Zenon
  <1>8. Len(ip_send') <= IpQue
    BY <1>1 DEF CountInv, RingsFit, down
  <1> QED
    BY <1>1, <1>4, <1>7, <1>8, FramerStep

LEMMA FrameCounts ==
  ASSUME MInv, CountInv, NEW t \in Framers, ethernet_send_packet(t)
  PROVE  CountInv'
  <1> DEFINE size == ethernet_send_buffer.size + Payload
  <1>1. /\ framer[t].at = "data"
        /\ ethernet_send_buffer' =
             [ethernet_send_buffer EXCEPT !.data = framer[t].packet, !.size = size]
        /\ framer' = [framer EXCEPT ![t] = IdleFramer]
        /\ UNCHANGED <<up, caller, ip_buffer, ip_packet_id, ip_send, calls>>
    BY DEF ethernet_send_packet, MInv, Types
  <1>2. IdleFramer.at = "idle"
    BY DEF IdleFramer
  <1>3. /\ FillingFramers' = FillingFramers - Filling(framer[t]) + Filling(IdleFramer)
        /\ framer'[t] = IdleFramer /\ \A u \in Framers \ {t} : framer'[u] = framer[u]
    BY <1>1, FramerCounts
  <1>4. Filling(framer[t]) = 1 /\ Filling(IdleFramer) = 0
    BY <1>1, <1>2 DEF Filling
  <1>5. \/ framer'["handout"] = framer["handout"]
        \/ framer["handout"].at # "ipv4" /\ framer'["handout"].at # "ipv4"
    BY <1>1, <1>2, <1>3 DEF Framers
  <1>6. ethernet_send_buffer'.size = ethernet_send_buffer.size + 1
    BY <1>1 DEF MInv, Types, Payload
  <1>7. /\ ethernet_send_buffer'.size \in Nat
        /\ ethernet_send_buffer'.size + FillingFramers' <= 3
    BY <1>3, <1>4, <1>6, Numbers DEF CountInv, SizesFit
  <1>8. Len(ip_send') <= IpQue
    BY <1>1 DEF CountInv, RingsFit
  <1> QED
    BY <1>1, <1>5, <1>7, <1>8, FramerStep

LEMMA InitCounts == Init => CountInv
  <1> SUFFICES ASSUME Init PROVE CountInv
    OBVIOUS
  <1>1. /\ caller = [t \in Callers |-> IdleCaller] /\ framer = [t \in Framers |-> IdleFramer]
        /\ arrived = [k \in Kinds |-> 0] /\ calls = 0 /\ ip_id = 0 /\ ip_packet_id = 0
        /\ ethernet_recv = <<>> /\ ip_recv = <<>> /\ udp_recv = <<>> /\ ip_send = <<>>
        /\ ip_buffer.size = 0 /\ ethernet_send_buffer.size = 0
    BY DEF Init
  <1>2. /\ \A t \in Callers : Busy(caller[t]) = 0 /\ Filling(caller[t]) = 0
        /\ \A t \in Framers : Filling(framer[t]) = 0
        /\ \A S : InHandout(S) = 0
    BY <1>1, IdleCounts DEF Filling, IdleFramer, InHandout, Framers
  <1>3. BusyCallers = 0 /\ FillingCallers = 0 /\ FillingFramers = 0
    BY <1>2 DEF BusyCallers, FillingCallers, FillingFramers, Callers, Framers
  <1>4. \A P : Count(P, <<>>) = 0
    BY CountEmpty
  <1>5. \A k \in Kinds : arrived[k] = 0 /\ Bound(k) >= 0
    BY <1>1, HostAssumption DEF Kinds, Bound
  <1>6. Events = 0
    BY <1>1, <1>5 DEF Events, Kinds
  <1>7. RingsFit
    <2>1. Len(<<>>) = 0 /\ <<>> \in Seq(Calls)
      OBVIOUS
    <2> QED
      BY <1>1, <2>1, HostAssumption DEF RingsFit
  <1>8. Occurred
    BY <1>1, <1>5, <1>6, HostAssumption DEF Occurred
  <1>9. IdsRead /\ IdsUsed /\ SizesFit
    BY <1>1, <1>2, <1>3, <1>4, <1>5 DEF IdsRead, IdsUsed, SizesFit, Kinds
  <1> QED
    BY <1>7, <1>8, <1>9 DEF CountInv

LEMMA StepCounts == MInv /\ CountInv /\ [Next]_vars => CountInv'
  <1> SUFFICES ASSUME MInv, CountInv, [Next]_vars PROVE CountInv'
    OBVIOUS
  <1>1. CASE \E kind \in Kinds, p \in Peers, accepted \in BOOLEAN : Arrive(kind, p, accepted)
    BY <1>1, ArriveCounts
  <1>2. CASE recvfrom \/ \E p \in Targets : sendto(p) \/ send_ICMP_echo_request(p)
    BY <1>2, ApplicationCounts
  <1>3. ASSUME NEW t \in Callers, FillEcho(t) \/ network_ipv4_send(t) PROVE CountInv'
    BY <1>3, FillEchoCounts, IpHeaderCounts, IpDataCounts, PutCounts DEF network_ipv4_send
  <1>4. ASSUME NEW t \in Framers, Build(t) PROVE CountInv'
    BY <1>4, EthernetHeaderCounts, FrameCounts DEF Build
  <1>5. CASE MainGoesOn \/ thread_ip_handout
    BY <1>3, <1>5, IpHandoutCounts, UdpCounts DEF MainGoesOn, thread_ip_handout, Callers
  <1>6. CASE thread_handout \/ thread_ip_send
    BY <1>4, <1>6, HandoutCounts, Ipv4Counts, TakeCounts
    DEF thread_handout, thread_ip_send, Framers
  <1>7. CASE UNCHANGED vars
    <2>1. UNCHANGED <<up, caller, framer, staging, down, calls, mixed>>
      BY <1>7 DEF vars
    <2>2. \A S : InHandout(S)' = InHandout(S)
      BY <2>1, SameHandout
    <2>3. /\ BusyCallers' = BusyCallers /\ FillingCallers' = FillingCallers
          /\ FillingFramers' = FillingFramers
      BY <2>1 DEF BusyCallers, FillingCallers, FillingFramers
    <2> QED
      BY <2>1, <2>2, <2>3
      DEF CountInv, RingsFit, Occurred, Events, IdsRead, IdsUsed, SizesFit, up, down, staging
  <1> QED
    BY <1>1, <1>2, <1>5, <1>6, <1>7 DEF Next

LEMMA CountsGive == MInv /\ CountInv => TypeOK
  <1> SUFFICES ASSUME MInv, CountInv PROVE TypeOK
    OBVIOUS
  <1>1. /\ BusyCallers \in Nat /\ Count(Echoes, ethernet_recv) \in Nat
        /\ Count(Echoes, ip_recv) \in Nat /\ InHandout(Echoes) \in {0, 1}
        /\ Count(IpFrames, ethernet_recv) \in Nat /\ InHandout(IpFrames) \in {0, 1}
        /\ FillingCallers \in Nat /\ FillingFramers \in Nat
        /\ \A kind \in Kinds : arrived[kind] \in Nat
        /\ calls \in Nat /\ ip_packet_id \in Nat
        /\ ip_buffer.size \in Int /\ ethernet_send_buffer.size \in Int
    BY Numbers, OneOrNone
  <1>2. /\ arrived["echo"] \in Nat /\ arrived["udp"] \in Nat /\ arrived["stray"] \in Nat
        /\ arrived["echo"] <= MaxRequests /\ arrived["udp"] <= MaxDatagrams
        /\ arrived["stray"] <= MaxStrays /\ calls <= MaxCalls
    BY <1>1 DEF CountInv, Occurred, Bound, Kinds
  <1>3. {MaxRequests, MaxDatagrams, MaxStrays, MaxCalls, MaxEvents} \subseteq Nat
    BY HostAssumption
  <1>4. ip_id \in 0 .. MaxRequests + MaxDatagrams + MaxStrays
    BY <1>1, <1>2, <1>3 DEF CountInv, IdsRead
  <1>5. ip_packet_id \in 0 .. MaxRequests + MaxCalls
    BY <1>1, <1>2, <1>3 DEF CountInv, IdsUsed
  <1>6. ip_buffer.size \in 0 .. 3 /\ ethernet_send_buffer.size \in 0 .. 3
    BY <1>1 DEF CountInv, SizesFit
  <1>7. /\ arrived \in [Kinds -> Nat] /\ \A kind \in Kinds : arrived[kind] <= Bound(kind)
        /\ calls \in 0 .. MaxCalls /\ Events <= MaxEvents
        /\ peer_id \in [Peers -> Nat]
    BY <1>1, <1>2, <1>3 DEF MInv, Types, CountInv, Occurred
  <1>8. /\ Len(ethernet_recv) <= EthQue
        /\ Len(ip_recv) <= IpQue /\ Len(ip_send) <= IpQue /\ Len(udp_recv) <= UdpQue
    BY DEF CountInv, RingsFit
  <1>9. /\ \A t \in Callers :
             caller[t].at \in {"idle", "udp", "recvfrom", "fill", "header", "data", "put"}
        /\ \A t \in Framers : framer[t].at \in {"idle", "ipv4", "header", "data"}
    <2>1. \A t \in Callers : caller[t] \in CallerRecords
      BY CallerAt DEF MInv
    <2>2. /\ framer["ip_send"] \in SenderRecords \cup {IdleFramer}
          /\ framer["handout"] \in ReplierRecords \cup HandoutRecords \cup {IdleFramer}
      BY DEF MInv, Types
    <2>3. \A r \in SenderRecords \cup ReplierRecords \cup HandoutRecords \cup {IdleFramer} :
            r.at \in {"idle", "ipv4", "header", "data"}
      BY DEF SenderRecords, ReplierRecords, HandoutRecords, IdleFramer
    <2> QED
      BY <2>1, <2>2, <2>3 DEF CallerRecords, Framers
  <1> QED
    BY <1>4, <1>5, <1>6, <1>7, <1>8, <1>9 DEF TypeOK

\* No ring is filled beyond its size, ip_id and ip_packet_id count no more than
\* what has arrived and been asked for, and a buffer that two threads fill at
\* once holds at most a header and both their data.
THEOREM TypeCorrect == Spec => []TypeOK
  <1>1. MInv /\ CountInv /\ [Next]_vars => (MInv /\ CountInv)'
    BY MStep, StepCounts
  <1> QED
    BY <1>1, MInit, InitCounts, CountsGive, PTL DEF Spec
===============================================================================
