--------------------------------- MODULE IPv4 ---------------------------------
(***************************************************************************)
(* Fragmentation and reassembly: network_ipv4_send on one host and         *)
(* network_ipv4_recv on the other, with the rings, threads and wire between*)
(* them as one FIFO link (each ring with one producer and one consumer is  *)
(* one: PVRing_proofs, ImplementsFifoSPSC) that may lose frames.           *)
(*                                                                         *)
(* The receiver does not look at fragment offsets or source addresses.  It *)
(* keeps one counter, ip_id, that has to keep step with the sender's       *)
(* ip_packet_id, and one buffer, to which it appends what matches.         *)
(***************************************************************************)
EXTENDS Integers, Sequences

CONSTANTS
  MaxFrags,      \* the most fragments a datagram is cut into
  IdMod,         \* ids are u_int16_t: 65536
  LinkSize,      \* frames between the two hosts (the rings on the way)
  QueSize,       \* MAX_QUE of ip_recv_pool
  ArpOutcomes,   \* what an ARP request may end in
  MaxDatagrams,  \* bound: datagrams put on the link
  MaxLoss,       \* bound: frames lost
  MaxPause       \* bound: silences of 30 s or more

ASSUME IPv4Assumption ==
  /\ MaxFrags \in Nat \ {0}
  /\ IdMod \in Nat \ {0}
  /\ LinkSize \in Nat \ {0}
  /\ QueSize \in Nat \ {0}
  /\ ArpOutcomes \subseteq {"answer", "other", "none"}
  /\ MaxDatagrams \in Nat /\ MaxLoss \in Nat /\ MaxPause \in Nat

VARIABLES
  \* the sender
  serial,          \* number of the datagram being sent, or to be sent next
  total,           \* its fragments; 0 between two calls
  nextPart,        \* the fragment the loop of network_ipv4_send is at
  ip_packet_id,
  known,           \* is the receiver's address in the ARP table?
  \* the wire
  link,
  lost,            \* frames lost so far
  \* the receiver
  ip_id,
  data_buffer,     \* the fragments loaded; size_of_data is its length
  timer,           \* previous: "unset", "recent", or "old" (30 s or more ago)
  pauses,          \* silences so far
  pool,            \* ip_recv_pool
  handed           \* the datagrams thread_ip_handout took out of it

sender == <<serial, total, nextPart, ip_packet_id, known>>
receiver == <<ip_id, data_buffer, timer, pool>>
vars == <<sender, link, lost, receiver, pauses, handed>>

\* Fragment k of the n of datagram d: what a fragment's bytes stand for.
Part(d, k, n) == [serial |-> d, k |-> k, n |-> n]

\* A datagram as its sender gave it to network_ipv4_send.
Whole(d, n) == [k \in 1 .. n |-> Part(d, k, n)]

\* 0x2000, set in the header of every fragment but the last.
MoreFragments(frame) == frame.part.k < frame.part.n

Init ==
  /\ serial = 0 /\ total = 0 /\ nextPart = 1 /\ ip_packet_id = 0
  /\ known \in BOOLEAN
  /\ link = <<>> /\ lost = 0
  /\ ip_id = 0 /\ data_buffer = <<>> /\ timer = "unset"
  /\ pauses = 0
  /\ pool = <<>> /\ handed = <<>>

(***************************************************************************)
(* The sender.                                                             *)
(***************************************************************************)
\* A transport protocol calls network_ipv4_send with a buffer of n fragments.
Call(n) ==
  /\ total = 0
  /\ serial < MaxDatagrams
  /\ total' = n
  /\ nextPart' = 1
  /\ UNCHANGED <<serial, ip_packet_id, known, link, lost, receiver, pauses, handed>>

\* Mutant: ip_packet_id is incremented for every fragment.
BugIdPerFragment ==
  /\ ip_packet_id' = (ip_packet_id + 1) % IdMod
  /\ IF nextPart < total
       THEN nextPart' = nextPart + 1 /\ UNCHANGED <<serial, total>>
       ELSE total' = 0 /\ nextPart' = 1 /\ serial' = serial + 1

\* Mutant: the id is not 16 bits wide.
BugIdNoWrap ==
  IF nextPart < total
    THEN /\ nextPart' = nextPart + 1
         /\ UNCHANGED <<serial, total, ip_packet_id>>
    ELSE /\ total' = 0
         /\ nextPart' = 1
         /\ serial' = serial + 1
         /\ ip_packet_id' = ip_packet_id + 1

\* The frame of the current fragment.
Frame == [id |-> ip_packet_id, part |-> Part(serial, nextPart, total)]

\* The end of one turn of the fragment loop; the last turn ends the call.
Advance ==
  IF nextPart < total
    THEN /\ nextPart' = nextPart + 1
         /\ UNCHANGED <<serial, total, ip_packet_id>>
    ELSE /\ total' = 0
         /\ nextPart' = 1
         /\ serial' = serial + 1
         /\ ip_packet_id' = (ip_packet_id + 1) % IdMod

\* A fragment whose destination is in the ARP table, or is answered for.
SendFragment ==
  /\ total > 0
  /\ known \/ "answer" \in ArpOutcomes
  /\ Len(link) < LinkSize
  /\ known' = TRUE
  /\ link' = Append(link, Frame)
  /\ Advance
  /\ UNCHANGED <<lost, receiver, pauses, handed>>

\* The wait for an ARP reply takes the reply of whatever host it sees: the
\* fragment goes to that host.
SendToOther ==
  /\ total > 0
  /\ ~ known /\ "other" \in ArpOutcomes
  /\ Len(link) < LinkSize
  /\ Advance
  /\ UNCHANGED <<known, link, lost, receiver, pauses, handed>>

\* "Error: IP can not get destination mac!": the call returns in the middle
\* of the datagram, and ip_packet_id stays.  A datagram of which nothing was
\* sent does not use up its number.
GiveUp ==
  /\ total > 0
  /\ ~ known /\ "none" \in ArpOutcomes
  /\ total' = 0
  /\ nextPart' = 1
  /\ serial' = IF nextPart = 1 THEN serial ELSE serial + 1
  /\ UNCHANGED <<ip_packet_id, known, link, lost, receiver, pauses, handed>>

\* Meanwhile thread_handout may take an ARP packet of the destination.
Learn ==
  /\ ~ known
  /\ known' = TRUE
  /\ UNCHANGED <<serial, total, nextPart, ip_packet_id, link, lost, receiver,
                 pauses, handed>>

(***************************************************************************)
(* The wire.  A frame is lost on it, or dropped by the receiver for a bad  *)
(* CRC or checksum before it looks at anything else.                       *)
(***************************************************************************)
Lose ==
  /\ lost < MaxLoss
  /\ link # <<>>
  /\ link' = Tail(link)
  /\ lost' = lost + 1
  /\ UNCHANGED <<sender, receiver, pauses, handed>>

(***************************************************************************)
(* The receiver.                                                           *)
(***************************************************************************)
\* Thirty seconds pass since the last frame.
Pause ==
  /\ timer = "recent"
  /\ pauses < MaxPause
  /\ timer' = "old"
  /\ pauses' = pauses + 1
  /\ UNCHANGED <<sender, link, lost, ip_id, data_buffer, pool, handed>>

\* What every network_ipv4_recv does before it compares ids.
TakeFrame ==
  /\ link # <<>>
  /\ link' = Tail(link)
  /\ timer' = "recent"
  /\ UNCHANGED <<sender, lost, pauses, handed>>

\* "Time Elapsed.": the frame is dropped and nothing else changes.
ReceiveLate ==
  /\ timer = "old"
  /\ TakeFrame
  /\ UNCHANGED <<ip_id, data_buffer, pool>>

\* A fragment with more to come.
ReceiveMore ==
  /\ timer # "old"
  /\ TakeFrame
  /\ Head(link).id = ip_id
  /\ MoreFragments(Head(link))
  /\ data_buffer' = Append(data_buffer, Head(link).part)
  /\ UNCHANGED <<ip_id, pool>>

\* Mutant: size_of_data is not restored after a whole datagram.
BugKeepBuffer ==
  /\ timer # "old"
  /\ TakeFrame
  /\ Head(link).id = ip_id
  /\ ~ MoreFragments(Head(link))
  /\ Len(pool) < QueSize
  /\ pool' = Append(pool, Append(data_buffer, Head(link).part))
  /\ ip_id' = (ip_id + 1) % IdMod
  /\ UNCHANGED data_buffer

\* The last fragment, or the only one.
ReceiveLast ==
  /\ timer # "old"
  /\ TakeFrame
  /\ Head(link).id = ip_id
  /\ ~ MoreFragments(Head(link))
  /\ Len(pool) < QueSize
  /\ pool' = Append(pool, Append(data_buffer, Head(link).part))
  /\ data_buffer' = <<>>
  /\ ip_id' = (ip_id + 1) % IdMod

\* Mutant: a frame out of step leaves the buffer and ip_id alone.
BugIgnoreOutOfStep ==
  /\ timer # "old"
  /\ TakeFrame
  /\ Head(link).id # ip_id
  /\ UNCHANGED <<ip_id, data_buffer, pool>>

\* Mutant: a frame out of step leaves the buffer alone.
BugOutOfStepKeepsBuffer ==
  /\ timer # "old"
  /\ TakeFrame
  /\ Head(link).id # ip_id
  /\ ip_id' = (ip_id + 1) % IdMod
  /\ UNCHANGED <<data_buffer, pool>>

\* "Lost packets.": every frame of another id moves ip_id on by one.
ReceiveOutOfStep ==
  /\ timer # "old"
  /\ TakeFrame
  /\ Head(link).id # ip_id
  /\ data_buffer' = <<>>
  /\ ip_id' = (ip_id + 1) % IdMod
  /\ UNCHANGED pool

Receive == ReceiveLate \/ ReceiveMore \/ ReceiveLast \/ ReceiveOutOfStep

\* Mutant: ip_recv_que_head is not advanced.
BugHandOutAgain ==
  /\ pool # <<>>
  /\ Len(handed) < MaxDatagrams
  /\ handed' = Append(handed, Head(pool))
  /\ UNCHANGED <<sender, link, lost, receiver, pauses>>

\* thread_ip_handout takes a datagram to the transport protocol.
HandOut ==
  /\ pool # <<>>
  /\ handed' = Append(handed, Head(pool))
  /\ pool' = Tail(pool)
  /\ UNCHANGED <<sender, link, lost, ip_id, data_buffer, timer, pauses>>

Next ==
  \/ \E n \in 1 .. MaxFrags : Call(n)
  \/ SendFragment
  \/ SendToOther
  \/ GiveUp
  \/ Learn
  \/ Lose
  \/ Pause
  \/ Receive
  \/ HandOut

Spec == Init /\ [][Next]_vars

(***************************************************************************)
(* The threads keep running: the sender's loop, the receiver's callback and*)
(* handout threads.  That a transport calls, a frame is lost or a silence  *)
(* falls is not promised.                                                  *)
(***************************************************************************)
Fairness ==
  /\ WF_vars(SendFragment \/ SendToOther \/ GiveUp)
  /\ WF_vars(Receive)
  /\ WF_vars(HandOut)

FairSpec == Spec /\ Fairness

------------------------------------------------------------------------------
(***************************************************************************)
(* Properties.                                                             *)
(***************************************************************************)
Parts == [serial : 0 .. MaxDatagrams, k : 1 .. MaxFrags, n : 1 .. MaxFrags]

TypeOK ==
  /\ serial \in 0 .. MaxDatagrams
  /\ total \in 0 .. MaxFrags
  /\ nextPart \in 1 .. MaxFrags
  /\ ip_packet_id \in 0 .. IdMod - 1
  /\ known \in BOOLEAN
  /\ link \in Seq([id : 0 .. IdMod - 1, part : Parts]) /\ Len(link) <= LinkSize
  /\ lost \in 0 .. MaxLoss
  /\ ip_id \in 0 .. IdMod - 1
  /\ data_buffer \in Seq(Parts)
  /\ timer \in {"unset", "recent", "old"}
  /\ pauses \in 0 .. MaxPause
  /\ pool \in Seq(Seq(Parts)) /\ Len(pool) <= QueSize
  /\ handed \in Seq(Seq(Parts))

\* Without loss, silence or foreign ARP replies, the datagrams handed up are
\* the datagrams sent: each one whole, none missing, none twice, in order,
\* across the wrap of the 16-bit id.
ExactDelivery ==
  \A i \in 1 .. Len(handed) : handed[i] = Whole(i - 1, Len(handed[i]))

\* And each of them is handed up.
AllHandedUp ==
  \A d \in 1 .. MaxDatagrams : (serial = d) ~> (Len(handed) >= d)

\* Network_IPV4_recv.cpp:185, "show a whole IP packet after building up all
\* fragments": what is handed up is a datagram somebody sent.
WholeDatagrams ==
  \A i \in 1 .. Len(handed) :
    \E d \in 0 .. serial : handed[i] = Whole(d, Len(handed[i]))

\* With frames lost, silences and failed ARP lookups, fewer of them than
\* there are ids: what is handed up may lack fragments, but the fragments it
\* has are of one datagram, in order and once each, the last one included.
NoMixing ==
  \A i \in 1 .. Len(handed) :
    /\ \A a, b \in 1 .. Len(handed[i]) :
         /\ handed[i][a].serial = handed[i][b].serial
         /\ a < b => handed[i][a].k < handed[i][b].k
    /\ LET end == handed[i][Len(handed[i])] IN end.k = end.n

\* And no datagram is handed up twice or after a later one.
InOrderOnce ==
  \A i, j \in 1 .. Len(handed) :
    i < j => handed[i][1].serial < handed[j][1].serial

\* A receiver that has fallen behind the sender's ids does not catch up by
\* receiving unfragmented datagrams: each one, accepted or dropped as lost,
\* moves ip_id by one, so the gap to the next datagram is what it was.
Gap(frame, id) == (frame.id - id) % IdMod

GapPersists ==
  [][/\ Receive /\ timer # "old" /\ Len(link) > 1
     /\ link[1].part.n = 1
     /\ link[2].id = (link[1].id + 1) % IdMod
     => Gap(link'[1], ip_id') = Gap(link[1], ip_id)]_vars
==============================================================================
