----------------------------- MODULE TcpTransfer -----------------------------
(***************************************************************************)
(* The data phase of TCP: send of Network_Send and recv of Network_Receive,*)
(* one call of each, after the handshake.  send puts out a window of       *)
(* segments, sleeps, waits for one acknowledgement and puts out the window *)
(* that starts where the acknowledgement says.  recv stores what falls in  *)
(* its window and acknowledges each time it finds its ring down to one     *)
(* segment.  Offsets are in bytes, as in the code; a segment's bytes stand *)
(* for the place in the sender's buffer they were taken from.              *)
(***************************************************************************)
EXTENDS Integers, Sequences

CONSTANTS
  MSS,         \* 1400
  Window,      \* CLIENT_WIN_SIZE, SERVER_WIN_SIZE: 5 * 1400
  BufLen,      \* the buflen both sides pass
  SeqMod,      \* load_tcp_header takes seq and acknum as u_int16_t: 65536
  InitSeq,     \* client_init_seq: rand() % 65536
  MaxLoss,     \* bound: segments and acknowledgements lost
  MaxStray     \* bound: segments without ACK that reach the sender

ASSUME TcpAssumption ==
  /\ MSS \in Nat \ {0}
  /\ Window \in Nat \ {0} /\ Window % MSS = 0
  /\ BufLen \in Nat \ {0}
  /\ SeqMod \in Nat \ {0}
  /\ InitSeq \in 0 .. SeqMod - 1
  /\ MaxLoss \in Nat /\ MaxStray \in Nat

VARIABLES
  \* send
  s_mode,      \* "sending" a window, "waiting" for an ACK, or "done"
  s_start,     \* win_start
  s_cfront,    \* win_cfront
  s_offset,    \* offset within the window
  \* recv
  r_mode,      \* "reading" segments, "acking", or "done"
  r_start,     \* win_start
  r_bits,      \* recv_data_bit: the indices whose bit is set
  r_data,      \* recv_data_buffer, by index
  \* between them
  wire,        \* segments on their way
  ring,        \* tcp_recv_pool of the receiver
  acks,        \* on their way or in tcp_recv_pool of the sender
  lost,
  strays

s_vars == <<s_mode, s_start, s_cfront, s_offset>>
r_vars == <<r_mode, r_start, r_bits, r_data>>
vars == <<s_vars, r_vars, wire, ring, acks, lost, strays>>

\* win_end, on either side.
WinEnd(start) == IF start + Window > BufLen THEN BufLen ELSE start + Window

\* The segments a buffer is cut into, by index, and the bytes of one.
Indices == 0 .. (BufLen - 1) \div MSS
SizeOf(j) == IF (j + 1) * MSS > BufLen THEN BufLen - j * MSS ELSE MSS

\* A number as a segment carries it, and the offset read from it again.
\* Both sides' base is client_init_seq + 1.
Encode(offset) == (InitSeq + 1 + offset) % SeqMod
Decode(number) == number - (InitSeq + 1)

NoData == [from |-> -1, len |-> 0]

Init ==
  /\ s_mode = "sending" /\ s_start = 0 /\ s_cfront = 0 /\ s_offset = 0
  /\ r_mode = "reading" /\ r_start = 0
  /\ r_bits = {}
  /\ r_data = [j \in Indices |-> NoData]
  /\ wire = <<>> /\ ring = <<>> /\ acks = <<>>
  /\ lost = 0 /\ strays = 0

(***************************************************************************)
(* send.                                                                   *)
(***************************************************************************)
\* Mutant: fragment_num is not decremented.
BugEndlessWindow ==
  /\ s_mode = "sending"
  /\ LET size == WinEnd(s_start) - s_start
         last == s_offset + MSS >= size
         len  == IF last THEN size - s_offset ELSE MSS
     IN  wire' = Append(wire, [seq |-> Encode(s_cfront), from |-> s_cfront, len |-> len])
  /\ s_offset' = s_offset + MSS
  /\ s_cfront' = s_start + s_offset + MSS
  /\ UNCHANGED <<s_mode, s_start, r_vars, ring, acks, lost, strays>>

\* Mutant: the number is taken from the window, the bytes from win_cfront.
BugNumberOfWindow ==
  /\ s_mode = "sending"
  /\ LET size == WinEnd(s_start) - s_start
         last == s_offset + MSS >= size
         len  == IF last THEN size - s_offset ELSE MSS
     IN  /\ wire' = Append(wire, [seq |-> Encode(s_start + s_offset),
                                  from |-> s_cfront, len |-> len])
         /\ s_mode' = IF last THEN "waiting" ELSE "sending"
  /\ s_offset' = s_offset + MSS
  /\ s_cfront' = s_start + s_offset + MSS
  /\ UNCHANGED <<s_start, r_vars, ring, acks, lost, strays>>

\* One turn of the loop over the fragments of a window.
SendSegment ==
  /\ s_mode = "sending"
  /\ LET size == WinEnd(s_start) - s_start
         last == s_offset + MSS >= size
         len  == IF last THEN size - s_offset ELSE MSS
     IN  /\ wire' = Append(wire, [seq |-> Encode(s_cfront), from |-> s_cfront, len |-> len])
         /\ s_mode' = IF last THEN "waiting" ELSE "sending"
  /\ s_offset' = s_offset + MSS
  /\ s_cfront' = s_start + s_offset + MSS
  /\ UNCHANGED <<s_start, r_vars, ring, acks, lost, strays>>

\* An acknowledgement moves the window, back as well as forward.
TakeAck ==
  /\ s_mode = "waiting"
  /\ acks # <<>>
  /\ acks' = Tail(acks)
  /\ Head(acks).ack
  /\ s_start' = Decode(Head(acks).number)
  /\ s_cfront' = s_start'
  /\ s_offset' = 0
  /\ s_mode' = IF s_start' < BufLen THEN "sending" ELSE "done"
  /\ UNCHANGED <<r_vars, wire, ring, lost, strays>>

\* "get a not ack.": the window again, but win_cfront is still past its end,
\* where the first fragment is now taken from.
TakeNotAck ==
  /\ s_mode = "waiting"
  /\ acks # <<>>
  /\ acks' = Tail(acks)
  /\ ~ Head(acks).ack
  /\ s_offset' = 0
  /\ s_mode' = "sending"
  /\ UNCHANGED <<s_start, s_cfront, r_vars, wire, ring, lost, strays>>

(***************************************************************************)
(* recv.                                                                   *)
(***************************************************************************)
\* transport_tcp_recv puts a segment into the ring; nobody reads the ring
\* once recv has returned.
Deliver ==
  /\ wire # <<>>
  /\ wire' = Tail(wire)
  /\ ring' = IF r_mode = "done" THEN ring ELSE Append(ring, Head(wire))
  /\ UNCHANGED <<s_vars, r_vars, acks, lost, strays>>

\* Mutant: the ring is compared with empty, which it never is here.
BugNeverAcks ==
  /\ r_mode = "reading"
  /\ ring # <<>>
  /\ ring' = Tail(ring)
  /\ LET seg    == Head(ring)
         cfront == Decode(seg.seq)
     IN  IF cfront >= r_start /\ cfront < WinEnd(r_start)
           THEN /\ r_bits' = r_bits \cup {cfront \div MSS}
                /\ r_data' = [r_data EXCEPT ![cfront \div MSS] =
                                [from |-> seg.from, len |-> seg.len]]
           ELSE UNCHANGED <<r_bits, r_data>>
  /\ r_mode' = IF Len(ring) = 0 THEN "acking" ELSE "reading"
  /\ UNCHANGED <<s_vars, r_start, wire, acks, lost, strays>>

\* One turn of the inner loop; it is the last when the ring holds no other
\* segment.
ReadSegment ==
  /\ r_mode = "reading"
  /\ ring # <<>>
  /\ ring' = Tail(ring)
  /\ LET seg    == Head(ring)
         cfront == Decode(seg.seq)
         expected == cfront >= r_start /\ cfront < WinEnd(r_start)
     IN  IF expected
           THEN /\ r_bits' = r_bits \cup {cfront \div MSS}
                /\ r_data' = [r_data EXCEPT ![cfront \div MSS] =
                                [from |-> seg.from, len |-> seg.len]]
           ELSE UNCHANGED <<r_bits, r_data>>
  /\ r_mode' = IF Len(ring) = 1 THEN "acking" ELSE "reading"
  /\ UNCHANGED <<s_vars, r_start, wire, acks, lost, strays>>

\* Mutant: the index behind the last bit that is set.
BugBehindLast(i) == i \notin r_bits /\ \A j \in r_bits : j < i

\* The first index whose bit is not set.
IsNextWanted(i) == i \notin r_bits /\ \A j \in 0 .. i - 1 : j \in r_bits

SendAck ==
  /\ r_mode = "acking"
  /\ \E i \in 0 .. (BufLen - 1) \div MSS + 1 :
       /\ IsNextWanted(i)
       /\ acks' = Append(acks, [ack |-> TRUE, number |-> Encode(i * MSS)])
       /\ r_start' = i * MSS
       /\ r_mode' = IF i * MSS < BufLen THEN "reading" ELSE "done"
  /\ UNCHANGED <<s_vars, r_bits, r_data, wire, ring, lost, strays>>

(***************************************************************************)
(* The hosts' surroundings.                                                *)
(***************************************************************************)
LoseSegment ==
  /\ lost < MaxLoss
  /\ wire # <<>>
  /\ wire' = Tail(wire)
  /\ lost' = lost + 1
  /\ UNCHANGED <<s_vars, r_vars, ring, acks, strays>>

LoseAck ==
  /\ lost < MaxLoss
  /\ acks # <<>>
  /\ Head(acks).ack
  /\ acks' = Tail(acks)
  /\ lost' = lost + 1
  /\ UNCHANGED <<s_vars, r_vars, wire, ring, strays>>

\* A segment without the ACK flag for the sender's port: its ring takes any
\* segment with a right checksum, of whatever connection.
Stray ==
  /\ strays < MaxStray
  /\ acks' = Append(acks, [ack |-> FALSE, number |-> 0])
  /\ strays' = strays + 1
  /\ UNCHANGED <<s_vars, r_vars, wire, ring, lost>>

Send == SendSegment \/ TakeAck \/ TakeNotAck
Recv == ReadSegment \/ SendAck

Next == Send \/ Recv \/ Deliver \/ LoseSegment \/ LoseAck \/ Stray

Spec == Init /\ [][Next]_vars

\* The main threads of the two hosts and the threads under them keep running.
Fairness == WF_vars(Send) /\ WF_vars(Recv) /\ WF_vars(Deliver)

FairSpec == Spec /\ Fairness

------------------------------------------------------------------------------
(***************************************************************************)
(* Properties.                                                             *)
(***************************************************************************)
Segment == [seq : 0 .. SeqMod - 1, from : Int, len : Nat]
Acknowledgement == [ack : BOOLEAN, number : 0 .. SeqMod - 1]

TypeOK ==
  /\ s_mode \in {"sending", "waiting", "done"}
  /\ s_start \in Int /\ s_cfront \in Int /\ s_offset \in Nat
  /\ r_mode \in {"reading", "acking", "done"}
  /\ r_start \in Nat
  /\ r_bits \subseteq Indices
  /\ r_data \in [Indices -> [from : Int, len : Int]]
  /\ wire \in Seq(Segment) /\ ring \in Seq(Segment)
  /\ acks \in Seq(Acknowledgement)
  /\ lost \in 0 .. MaxLoss /\ strays \in 0 .. MaxStray

\* Whatever is lost, resent, sent twice or acknowledged late: where a bit is
\* set the receiver's buffer holds the sender's bytes of that place, all of
\* them.
DataIntact ==
  \A j \in r_bits : r_data[j].from = j * MSS /\ r_data[j].len >= SizeOf(j)

\* A call of recv returns only with the whole buffer.
RecvReturnsAll == r_mode = "done" => r_bits = Indices

\* The sender's window never starts behind a segment the receiver lacks, so
\* nothing it stops resending is missing, and send returns only after the
\* receiver has everything.
AckedIsReceived ==
  \A j \in Indices : j * MSS < s_start => j \in r_bits

\* When nothing is lost both calls return, however the two sides' steps and
\* the stale acknowledgements they leave behind fall.
TransferCompletes ==
  <>((s_mode = "done" /\ r_mode = "done") \/ lost > 0)

\* Network_Send/src/TCP_recv_send.cpp:447, "re send time": a window that is
\* not acknowledged is sent again, so a transfer survives what is lost.
LossIsRepaired == <>(s_mode = "done")
==============================================================================
