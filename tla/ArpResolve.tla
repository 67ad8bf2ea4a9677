------------------------------ MODULE ArpResolve ------------------------------
(***************************************************************************)
(* network_ipv4_send asks for a MAC it does not know: it broadcasts a      *)
(* request and reads packets itself, from the handle from which            *)
(* thread_receive reads too, so each packet reaches one of the two.  Any   *)
(* ARP reply ends one of three rounds; a later packet makes it forget the  *)
(* reply; the MAC it keeps is a pointer into the capture buffer, which     *)
(* thread_receive may fill again.  Both readers insert into the table of   *)
(* ArpTable.                                                               *)
(***************************************************************************)
EXTENDS ArpTable, Sequences

CONSTANTS
  Main, Handout,  \* the two threads
  Destinations,   \* of datagrams
  Lan,            \* the addresses of the local network
  Gateway,
  Long,           \* the destinations of datagrams that do not fit into a packet
  Fragments,      \* fragments of such a datagram
  Rounds,         \* 3
  MaxDatagrams,   \* bound
  MaxEvents       \* bound: ARP packets nobody asked for, and edits, together

ASSUME ResolveAssumption ==
  /\ Threads = {Main, Handout} /\ Main # Handout
  /\ Lan \cap Destinations \subseteq Ips /\ Gateway \in Ips
  /\ {Fragments, Rounds} \subseteq Nat \ {0} /\ MaxEvents \in Nat
  /\ MaxDatagrams \in 0 .. 65535   \* ip_packet_id does not wrap

VARIABLES
  main,      \* where network_ipv4_send is
  air,       \* packets captured and not read yet
  asked,     \* hosts that have a request to answer
  id,        \* ip_packet_id
  frames,    \* what was put into ip_send_pool
  failed,    \* datagrams given up: "IP can not get destination mac"
  strays,    \* hosts whose reply main read while it waited for another
  foreign

sending == <<main, air, asked, id, frames, failed, strays, foreign>>
vars == <<table, sending>>

Garbage == "garbage"

\* load_ip_header writes the gateway's address for a host of another network.
NextHop(dst) == IF dst \in Lan THEN dst ELSE Gateway

Pieces(dst) == IF dst \in Long THEN Fragments ELSE 1

Idle(dgram) ==
  [at |-> "idle", dgram |-> dgram, dst |-> Target, frag |-> 0, rounds |-> 0,
   mac |-> NoMac, captured |-> FALSE, stale |-> FALSE]

Init ==
  /\ TableInit
  /\ main = Idle(0)
  /\ air = <<>>
  /\ asked = {}
  /\ id = 0
  /\ frames = <<>>
  /\ failed = {}
  /\ strays = {}
  /\ foreign = 0

(***************************************************************************)
(* network_ipv4_send                                                       *)
(***************************************************************************)
SendDatagram(dst) ==
  /\ main.at = "idle" /\ insertion[Main] = NoInsertion
  /\ main.dgram < MaxDatagrams
  /\ main' = [main EXCEPT !.at = "fragment", !.dgram = @ + 1, !.dst = dst, !.frag = 1]
  /\ UNCHANGED <<table, air, asked, id, frames, failed, strays, foreign>>

FindMac ==
  /\ main.at = "fragment"
  /\ LET hop == NextHop(main.dst)
         mac == Lookup(hop)
     IN  IF mac # NoMac
           THEN /\ main' = [main EXCEPT !.at = "put", !.mac = mac, !.captured = FALSE]
                /\ UNCHANGED asked
           ELSE /\ main' = [main EXCEPT !.at = "poll", !.mac = NoMac, !.rounds = 0,
                                        !.captured = TRUE, !.stale = FALSE]
                /\ asked' = asked \cup {hop}
  /\ UNCHANGED <<table, air, id, frames, failed, strays, foreign>>

Polling == main.at = "poll" /\ main.rounds < Rounds /\ insertion[Main] = NoInsertion

\* A reply to this host ends the round; a request is a broadcast and skipped.
PollPacket ==
  /\ Polling
  /\ air # <<>>
  /\ air' = Tail(air)
  /\ LET p == Head(air)
     IN  IF p.op = "reply"
           THEN /\ Learn(Main, p.ip)
                /\ main' = [main EXCEPT !.mac = p.ip, !.stale = FALSE, !.rounds = @ + 1]
                /\ strays' = IF p.ip = NextHop(main.dst) THEN strays ELSE strays \cup {p.ip}
           ELSE /\ main' = [main EXCEPT !.mac = NoMac]
                /\ UNCHANGED <<table, strays>>
  /\ UNCHANGED <<asked, id, frames, failed, foreign>>

\* pcap_next_ex gives 0 after its timeout.
PollNothing ==
  /\ Polling
  /\ air = <<>>
  /\ main' = [main EXCEPT !.rounds = @ + 1]
  /\ UNCHANGED <<table, air, asked, id, frames, failed, strays, foreign>>

\* Mutant: asks until it knows.
BugPollForever ==
  /\ main.at = "poll" /\ main.rounds = Rounds /\ insertion[Main] = NoInsertion
  /\ main' = IF main.mac = NoMac THEN [main EXCEPT !.rounds = 0] ELSE [main EXCEPT !.at = "put"]
  /\ UNCHANGED <<table, air, asked, id, frames, failed, strays, foreign>>

\* Mutant: the pointer is not tested.
BugNoTest ==
  /\ main.at = "poll" /\ main.rounds = Rounds /\ insertion[Main] = NoInsertion
  /\ main' = [main EXCEPT !.at = "put"]
  /\ UNCHANGED <<table, air, asked, id, frames, failed, strays, foreign>>

\* Three rounds are over.
PollEnd ==
  /\ main.at = "poll" /\ main.rounds = Rounds /\ insertion[Main] = NoInsertion
  /\ IF main.mac = NoMac
       THEN /\ main' = Idle(main.dgram)
            /\ failed' = failed \cup {main.dgram}
       ELSE /\ main' = [main EXCEPT !.at = "put"]
            /\ UNCHANGED failed
  /\ UNCHANGED <<table, air, asked, id, frames, strays, foreign>>

Frame(mac) == [dgram |-> main.dgram, hop |-> NextHop(main.dst), mac |-> mac, id |-> id]

\* Mutant: ip_packet_id++ is left out.
BugSameId ==
  /\ main.at = "put"
  /\ \E mac \in IF main.captured /\ main.stale THEN {main.mac, Garbage} ELSE {main.mac} :
       frames' = Append(frames, Frame(mac))
  /\ main' = IF main.frag < Pieces(main.dst) THEN [main EXCEPT !.at = "fragment", !.frag = @ + 1]
                                      ELSE Idle(main.dgram)
  /\ UNCHANGED id
  /\ UNCHANGED <<table, air, asked, failed, strays, foreign>>

\* The MAC is copied from where it was found.
PutFragment ==
  /\ main.at = "put"
  /\ \E mac \in IF main.captured /\ main.stale THEN {main.mac, Garbage} ELSE {main.mac} :
       frames' = Append(frames, Frame(mac))
  /\ IF main.frag < Pieces(main.dst)
       THEN /\ main' = [main EXCEPT !.at = "fragment", !.frag = @ + 1]
            /\ UNCHANGED id
       ELSE /\ main' = Idle(main.dgram)
            /\ id' = id + 1
  /\ UNCHANGED <<table, air, asked, failed, strays, foreign>>

(***************************************************************************)
(* thread_receive and thread_handout, with nothing between them.           *)
(***************************************************************************)
HandoutTake ==
  /\ insertion[Handout] = NoInsertion
  /\ air # <<>>
  /\ air' = Tail(air)
  /\ Learn(Handout, Head(air).ip)
  /\ main' = [main EXCEPT !.stale = main.captured /\ main.mac # NoMac]
  /\ UNCHANGED <<asked, id, frames, failed, strays, foreign>>

(***************************************************************************)
(* The other hosts.                                                        *)
(***************************************************************************)
Answer(ip) ==
  /\ ip \in asked
  /\ asked' = asked \ {ip}
  /\ air' = Append(air, [op |-> "reply", ip |-> ip])
  /\ UNCHANGED <<table, main, id, frames, failed, strays, foreign>>

Foreign(op, ip) ==
  /\ foreign + edits < MaxEvents
  /\ foreign' = foreign + 1
  /\ air' = Append(air, [op |-> op, ip |-> ip])
  /\ UNCHANGED <<table, main, asked, id, frames, failed, strays>>

Poll == PollPacket \/ PollNothing \/ PollEnd
MainStep == FindMac \/ Poll \/ PutFragment

Next ==
  \/ \E dst \in Destinations : SendDatagram(dst)
  \/ MainStep \/ HandoutTake
  \/ TableStep /\ edits' + foreign <= MaxEvents /\ UNCHANGED sending
  \/ \E ip \in Ips : Answer(ip) \/ \E op \in {"request", "reply"} : Foreign(op, ip)

\* Both threads run on; whether and when a host answers is not assumed.
Fairness ==
  /\ WF_vars(MainStep)
  /\ \A t \in Threads : WF_vars(Insertion(t) /\ UNCHANGED sending)

Spec == Init /\ [][Next]_vars /\ Fairness

------------------------------------------------------------------------------
TypeOK ==
  /\ TableTypeOK
  /\ main.at \in {"idle", "fragment", "poll", "put"}
  /\ main.rounds \in 0 .. Rounds /\ main.frag \in 0 .. Fragments
  /\ main.dgram \in 0 .. MaxDatagrams /\ main.mac \in Macs \cup {NoMac}
  /\ main.at = "put" => main.mac # NoMac
  /\ asked \subseteq Ips
  /\ id \in 0 .. MaxDatagrams
  /\ \A k \in DOMAIN frames : frames[k].mac \in Macs \cup {Garbage}

\* A frame goes to another host than the one asked for only when that host's
\* entry was changed, when main read the other host's reply while it waited,
\* however late that reply was, or when thread_receive filled the capture
\* buffer again while main held a pointer into it.  The table itself, with its
\* races and its freed nodes, never gives the MAC of another host.
RightMac ==
  \A k \in DOMAIN frames :
    \/ frames[k].mac \in {frames[k].hop, Garbage}
    \/ frames[k].mac \in strays
    \/ edits > 0

\* Fragments of two datagrams carry one id only when the first of the two
\* failed in its middle: the receiver would join them.
SameIdOnlyAfterFailure ==
  \A j, k \in DOMAIN frames :
    (frames[j].id = frames[k].id /\ frames[j].dgram < frames[k].dgram) =>
      frames[j].dgram \in failed

\* The sender gives up or goes on, whoever takes the packets.
ResolutionEnds == (main.at = "poll") ~> (main.at # "poll")
===============================================================================
