-------------------------- MODULE TcpTransfer_proofs --------------------------
(***************************************************************************)
(* Theorems about TcpTransfer, for every segment and window size, buffer   *)
(* length, initial number and number of lost and stray segments.           *)
(***************************************************************************)
EXTENDS TcpTransfer, SequenceTheorems, TLAPS

(***************************************************************************)
(* Arithmetic of segment indices.                                          *)
(***************************************************************************)
LEMMA MulLess ==
  ASSUME NEW M \in Nat \ {0}, NEW i \in Int, NEW j \in Int, j * M < i * M
  PROVE  j < i
  OBVIOUS

LEMMA DivBounds ==
  ASSUME NEW M \in Nat \ {0}, NEW a \in Nat
  PROVE  /\ a \div M \in Nat
         /\ (a \div M) * M <= a
         /\ a < (a \div M + 1) * M
  OBVIOUS

LEMMA DivProduct ==
  ASSUME NEW M \in Nat \ {0}, NEW k \in Nat
  PROVE  (k * M) \div M = k
  OBVIOUS

LEMMA DivMono ==
  ASSUME NEW M \in Nat \ {0}, NEW a \in Nat, NEW b \in Nat, a <= b
  PROVE  a \div M \in 0 .. b \div M
  OBVIOUS

\* The number of the last index is a natural number.
LEMMA LastIndex == (BufLen - 1) \div MSS \in Nat
  <1>1. BufLen - 1 \in Nat
    BY TcpAssumption
  <1> QED
    BY <1>1, DivBounds, TcpAssumption

LEMMA IndicesNat == Indices \subseteq Nat
  BY LastIndex DEF Indices

\* The index of an offset in the buffer is one of recv's.
LEMMA IndexOf ==
  ASSUME NEW a \in Nat, a < BufLen
  PROVE  a \div MSS \in Indices
  <1>1. BufLen - 1 \in Nat /\ a <= BufLen - 1
    BY TcpAssumption
  <1> QED
    BY <1>1, DivMono, TcpAssumption DEF Indices

\* The offset of an index that lies behind the whole buffer is behind every
\* index of it.
LEMMA BehindAll ==
  ASSUME NEW i \in Nat, i * MSS >= BufLen, NEW j \in Indices
  PROVE  j \in 0 .. i - 1
  <1> DEFINE last == (BufLen - 1) \div MSS
  <1>1. BufLen - 1 \in Nat
    BY TcpAssumption
  <1>2. last \in Nat /\ last * MSS <= BufLen - 1
    BY <1>1, DivBounds, TcpAssumption
  <1>3. last * MSS < i * MSS
    BY <1>1, <1>2, TcpAssumption
  <1>4. last < i
    BY <1>2, <1>3, MulLess, TcpAssumption
  <1>5. j \in 0 .. last
    BY DEF Indices
  <1> QED
    BY <1>2, <1>4, <1>5

LEMMA WinEndInt == ASSUME NEW start \in Int PROVE WinEnd(start) \in Int
  BY TcpAssumption DEF WinEnd

\* A number on the wire is one of 16 bits, and reading it back never gives
\* more than was written.
LEMMA EncodeDecode ==
  ASSUME NEW offset \in Nat
  PROVE  /\ Encode(offset) \in 0 .. SeqMod - 1
         /\ Decode(Encode(offset)) \in Int
         /\ Decode(Encode(offset)) <= offset
  <1>1. InitSeq + 1 + offset \in Nat /\ InitSeq \in Nat /\ SeqMod \in Nat \ {0}
    BY TcpAssumption
  <1>2. (InitSeq + 1 + offset) % SeqMod \in 0 .. SeqMod - 1
    BY <1>1
  <1>3. (InitSeq + 1 + offset) % SeqMod <= InitSeq + 1 + offset
    <2> DEFINE n == InitSeq + 1 + offset
    <2>1. n \in Nat /\ SeqMod \in Nat \ {0}
      BY <1>1
    <2> HIDE DEF n
    <2>2. n % SeqMod <= n
      BY <2>1
    <2> QED
      BY <2>2 DEF n
  <1> QED
    BY <1>1, <1>2, <1>3 DEF Encode, Decode

LEMMA EncodeRange == ASSUME NEW offset \in Int PROVE Encode(offset) \in 0 .. SeqMod - 1
  <1> DEFINE n == InitSeq + 1 + offset
  <1>1. n \in Int /\ SeqMod \in Nat \ {0}
    BY TcpAssumption
  <1> HIDE DEF n
  <1>2. n % SeqMod \in 0 .. SeqMod - 1
    BY <1>1
  <1> QED
    BY <1>2 DEF n, Encode

(***************************************************************************)
(* Types.  That no segment has a negative length takes more than TypeOK:   *)
(* the window being sent has a fragment left at s_offset.                  *)
(***************************************************************************)
TypeInv ==
  /\ TypeOK
  /\ s_mode # "done" => s_start < BufLen
  /\ s_mode = "sending" => s_offset < WinEnd(s_start) - s_start

LEMMA TypeInit == Init => TypeInv
  <1> SUFFICES ASSUME Init PROVE TypeInv
    OBVIOUS
  <1>1. r_data \in [Indices -> [from : Int, len : Int]]
    BY DEF Init, NoData
  <1>2. wire \in Seq(Segment) /\ ring \in Seq(Segment) /\ acks \in Seq(Acknowledgement)
    BY DEF Init
  <1>3. 0 < WinEnd(0) - 0
    BY TcpAssumption DEF WinEnd
  <1> QED
    BY <1>1, <1>2, <1>3, TcpAssumption DEF Init, TypeInv, TypeOK

LEMMA TypeSend ==
  ASSUME TypeInv, Send
  PROVE  TypeInv'
  <1> USE TcpAssumption DEF TypeInv, TypeOK
  <1>1. CASE SendSegment
    <2> DEFINE size == WinEnd(s_start) - s_start
               last == s_offset + MSS >= size
               len  == IF last THEN size - s_offset ELSE MSS
               seg  == [seq |-> Encode(s_cfront), from |-> s_cfront, len |-> len]
    <2>1. size \in Int /\ s_offset < size
      BY <1>1, WinEndInt DEF SendSegment
    <2>2. len \in Nat
      BY <2>1
    <2>3. seg \in Segment
      BY <2>2, EncodeRange DEF Segment
    <2>4. wire' = Append(wire, seg) /\ s_mode' = IF last THEN "waiting" ELSE "sending"
      BY <1>1 DEF SendSegment
    <2>5. wire' \in Seq(Segment)
      BY <2>3, <2>4, AppendProperties
    <2>6. s_mode' = "sending" => s_offset' < WinEnd(s_start') - s_start'
      <3>1. s_offset' = s_offset + MSS /\ s_start' = s_start
        BY <1>1 DEF SendSegment
      <3> QED
        BY <2>1, <2>4, <3>1
    <2>7. s_cfront' \in Int /\ s_offset' \in Nat /\ s_start' = s_start
      BY <1>1 DEF SendSegment
    <2>8. UNCHANGED <<r_vars, ring, acks, lost, strays>>
      BY <1>1 DEF SendSegment
    <2>9. s_mode' # "done" => s_start' < BufLen
      BY <1>1 DEF SendSegment
    <2> HIDE DEF size, last, len, seg
    <2>10. s_mode' \in {"sending", "waiting", "done"}
      BY <2>4
    <2> QED
      BY <2>5, <2>6, <2>7, <2>8, <2>9, <2>10 DEF r_vars
  <1>2. CASE TakeAck
    <2>1. Head(acks) \in Acknowledgement /\ acks' \in Seq(Acknowledgement)
      BY <1>2, HeadTailProperties DEF TakeAck
    <2>2. Head(acks).number \in Int
      BY <2>1 DEF Acknowledgement
    <2>3. s_start' \in Int /\ s_cfront' \in Int
      BY <1>2, <2>2 DEF TakeAck, Decode
    <2>4. s_mode' # "done" => s_start' < BufLen
      BY <1>2 DEF TakeAck
    <2>5. s_mode' = "sending" => s_offset' < WinEnd(s_start') - s_start'
      BY <1>2, <2>3 DEF TakeAck, WinEnd
    <2> QED
      BY <1>2, <2>1, <2>3, <2>4, <2>5 DEF TakeAck, r_vars
  <1>3. CASE TakeNotAck
    <2>1. acks' \in Seq(Acknowledgement)
      BY <1>3, HeadTailProperties DEF TakeNotAck
    <2>2. 0 < WinEnd(s_start) - s_start
      BY <1>3 DEF TakeNotAck, WinEnd
    <2> QED
      BY <1>3, <2>1, <2>2 DEF TakeNotAck, r_vars
  <1> QED
    BY <1>1, <1>2, <1>3 DEF Send

LEMMA TypeRecv ==
  ASSUME TypeInv, Recv
  PROVE  TypeInv'
  <1> USE TcpAssumption DEF TypeInv, TypeOK
  <1>1. CASE ReadSegment
    <2> DEFINE seg    == Head(ring)
               cfront == Decode(seg.seq)
               datum  == [from |-> seg.from, len |-> seg.len]
               expected == cfront >= r_start /\ cfront < WinEnd(r_start)
    <2>1. seg \in Segment /\ ring' \in Seq(Segment)
      BY <1>1, HeadTailProperties DEF ReadSegment
    <2>2. cfront \in Int /\ datum \in [from : Int, len : Int]
      BY <2>1 DEF Segment, Decode
    <2>3. CASE expected
      <3>1. cfront \in Nat /\ cfront < BufLen
        BY <2>2, <2>3 DEF WinEnd
      <3>2. cfront \div MSS \in Indices
        <4> HIDE DEF cfront
        <4> QED
          BY <3>1, IndexOf
      <3>3. /\ r_bits' = r_bits \cup {cfront \div MSS}
            /\ r_data' = [r_data EXCEPT ![cfront \div MSS] = datum]
        BY <1>1, <2>3 DEF ReadSegment
      <3> HIDE DEF datum, cfront
      <3>4. r_bits' \subseteq Indices /\ r_data' \in [Indices -> [from : Int, len : Int]]
        BY <2>2, <3>2, <3>3
      <3> QED
        BY <1>1, <2>1, <3>4 DEF ReadSegment, s_vars
    <2>4. CASE ~ expected
      <3>1. UNCHANGED <<r_bits, r_data>>
        BY <1>1, <2>4 DEF ReadSegment
      <3> QED
        BY <1>1, <2>1, <3>1 DEF ReadSegment, s_vars
    <2> QED
      BY <2>3, <2>4
  <1>2. CASE SendAck
    <2>1. PICK i \in 0 .. (BufLen - 1) \div MSS + 1 :
            /\ acks' = Append(acks, [ack |-> TRUE, number |-> Encode(i * MSS)])
            /\ r_start' = i * MSS
            /\ r_mode' = IF i * MSS < BufLen THEN "reading" ELSE "done"
      BY <1>2 DEF SendAck
    <2>2. i \in Nat
      BY LastIndex
    <2>3. i * MSS \in Nat
      BY <2>2
    <2>4. [ack |-> TRUE, number |-> Encode(i * MSS)] \in Acknowledgement
      <3> DEFINE k == i * MSS
      <3>1. Encode(k) \in 0 .. SeqMod - 1
        <4>1. k \in Int
          BY <2>3
        <4> HIDE DEF k
        <4> QED
          BY <4>1, EncodeRange
      <3> QED
        BY <3>1 DEF Acknowledgement
    <2>5. acks' \in Seq(Acknowledgement)
      BY <2>1, <2>4, AppendProperties
    <2>6. r_mode' \in {"reading", "acking", "done"}
      BY <2>1
    <2>7. r_start' \in Nat
      BY <2>1, <2>3
    <2> QED
      BY <1>2, <2>5, <2>6, <2>7 DEF SendAck, s_vars
  <1> QED
    BY <1>1, <1>2 DEF Recv

LEMMA TypeRest ==
  ASSUME TypeInv, Deliver \/ LoseSegment \/ LoseAck \/ Stray \/ UNCHANGED vars
  PROVE  TypeInv'
  <1> USE TcpAssumption DEF TypeInv, TypeOK
  <1>1. CASE Deliver
    <2>1. Head(wire) \in Segment /\ wire' \in Seq(Segment)
      BY <1>1, HeadTailProperties DEF Deliver
    <2>2. ring' \in Seq(Segment)
      BY <1>1, <2>1, AppendProperties DEF Deliver
    <2> QED
      BY <1>1, <2>1, <2>2 DEF Deliver, s_vars, r_vars
  <1>2. CASE LoseSegment
    <2>1. wire' \in Seq(Segment)
      BY <1>2, HeadTailProperties DEF LoseSegment
    <2> QED
      BY <1>2, <2>1 DEF LoseSegment, s_vars, r_vars
  <1>3. CASE LoseAck
    <2>1. acks' \in Seq(Acknowledgement)
      BY <1>3, HeadTailProperties DEF LoseAck
    <2> QED
      BY <1>3, <2>1 DEF LoseAck, s_vars, r_vars
  <1>4. CASE Stray
    <2>1. [ack |-> FALSE, number |-> 0] \in Acknowledgement
      BY DEF Acknowledgement
    <2>2. acks' \in Seq(Acknowledgement)
      BY <1>4, <2>1, AppendProperties DEF Stray
    <2> QED
      BY <1>4, <2>2 DEF Stray, s_vars, r_vars
  <1>5. CASE UNCHANGED vars
    BY <1>5 DEF vars, s_vars, r_vars
  <1> QED
    BY <1>1, <1>2, <1>3, <1>4, <1>5

LEMMA TypeInvariant == Spec => []TypeInv
  <1>1. TypeInv /\ [Next]_vars => TypeInv'
    BY TypeSend, TypeRecv, TypeRest DEF Next
  <1> QED
    BY TypeInit, <1>1, PTL DEF Spec

\* Whatever is lost, stale or misnumbered, the two windows, the receiver's
\* bookkeeping and everything on the way stay what their types say.
THEOREM TypeCorrect == Spec => []TypeOK
  BY TypeInvariant, PTL DEF TypeInv

(***************************************************************************)
(* What an acknowledgement is worth: the receiver has every segment that   *)
(* begins before the offset it names, when it is sent and ever after, for  *)
(* no bit is cleared.  A number cut to 16 bits only promises less.         *)
(***************************************************************************)
Covers(n) == \A j \in Indices : j * MSS < n => j \in r_bits

AckedInv ==
  /\ Covers(s_start)
  /\ \A a \in 1 .. Len(acks) : acks[a].ack => Covers(Decode(acks[a].number))
  /\ RecvReturnsAll

LEMMA AckedInit == Init => AckedInv
  <1> SUFFICES ASSUME Init PROVE AckedInv
    OBVIOUS
  <1>1. ASSUME NEW j \in Indices PROVE ~ (j * MSS < 0)
    BY IndicesNat, TcpAssumption
  <1>2. Covers(s_start)
    BY <1>1 DEF Init, Covers
  <1> QED
    BY <1>2 DEF Init, AckedInv, RecvReturnsAll

\* A bit that is set stays set.
LEMMA BitsGrow == ASSUME TypeInv, [Next]_vars PROVE r_bits \subseteq r_bits'
  <1>1. CASE Send
    BY <1>1 DEF Send, SendSegment, TakeAck, TakeNotAck, r_vars
  <1>2. CASE ReadSegment
    BY <1>2 DEF ReadSegment
  <1>3. CASE SendAck
    BY <1>3 DEF SendAck
  <1>4. CASE Deliver \/ LoseSegment \/ LoseAck \/ Stray \/ UNCHANGED vars
    BY <1>4 DEF Deliver, LoseSegment, LoseAck, Stray, vars, r_vars
  <1> QED
    BY <1>1, <1>2, <1>3, <1>4 DEF Next, Recv

\* The acknowledgements of the next state cover what they name, when those
\* of this state do.
LEMMA AcksNext ==
  ASSUME TypeInv, AckedInv, [Next]_vars, NEW a \in 1 .. Len(acks'), acks'[a].ack
  PROVE  \A j \in Indices : j * MSS < Decode(acks'[a].number) => j \in r_bits'
  <1>0. r_bits \subseteq r_bits' /\ acks \in Seq(Acknowledgement)
    BY BitsGrow DEF TypeInv, TypeOK
  <1> SUFFICES (\E b \in 1 .. Len(acks) : acks'[a] = acks[b])
               \/ (\A j \in Indices : j * MSS < Decode(acks'[a].number) => j \in r_bits)
    BY <1>0 DEF AckedInv, Covers
  <1>1. CASE TakeAck \/ TakeNotAck \/ LoseAck
    <2>1. acks # <<>> /\ acks' = Tail(acks)
      BY <1>1 DEF TakeAck, TakeNotAck, LoseAck
    <2>2. a + 1 \in 1 .. Len(acks) /\ acks'[a] = acks[a + 1]
      BY <1>0, <2>1
    <2> QED
      BY <2>2
  <1>2. CASE SendAck
    <2>1. PICK i \in 0 .. (BufLen - 1) \div MSS + 1 :
            /\ IsNextWanted(i)
            /\ acks' = Append(acks, [ack |-> TRUE, number |-> Encode(i * MSS)])
      BY <1>2 DEF SendAck
    <2>2. i \in Nat
      BY LastIndex
    <2>3. CASE a = Len(acks) + 1
      <3> DEFINE k == i * MSS
      <3>1. k \in Nat
        BY <2>2, TcpAssumption
      <3>2. acks'[a].number = Encode(k)
        BY <1>0, <2>1, <2>3
      <3>3. Decode(Encode(k)) \in Int /\ Decode(Encode(k)) <= k
        <4> HIDE DEF k
        <4> QED
          BY <3>1, EncodeDecode
      <3>4. ASSUME NEW j \in Indices, j * MSS < Decode(acks'[a].number)
            PROVE  j \in r_bits
        <4>1. j \in Nat /\ j * MSS \in Int
          BY IndicesNat, TcpAssumption
        <4>2. j * MSS < i * MSS
          BY <3>1, <3>2, <3>3, <3>4, <4>1
        <4>3. j < i
          BY <2>2, <4>1, <4>2, MulLess, TcpAssumption
        <4> QED
          BY <2>1, <2>2, <4>1, <4>3 DEF IsNextWanted
      <3> QED
        BY <3>4
    <2>4. CASE a # Len(acks) + 1
      <3>1. a \in 1 .. Len(acks) /\ acks'[a] = acks[a]
        BY <1>0, <2>1, <2>4
      <3> QED
        BY <3>1
    <2> QED
      BY <2>3, <2>4
  <1>3. CASE Stray
    <2>1. acks' = Append(acks, [ack |-> FALSE, number |-> 0])
      BY <1>3 DEF Stray
    <2>2. a # Len(acks) + 1
      BY <1>0, <2>1
    <2>3. a \in 1 .. Len(acks) /\ acks'[a] = acks[a]
      BY <1>0, <2>1, <2>2
    <2> QED
      BY <2>3
  <1>4. CASE UNCHANGED acks
    BY <1>4
  <1> QED
    BY <1>1, <1>2, <1>3, <1>4
    DEF Next, Send, Recv, SendSegment, ReadSegment, Deliver, LoseSegment, vars

LEMMA AckedStep ==
  ASSUME TypeInv, AckedInv, [Next]_vars
  PROVE  AckedInv'
  <1>1. ASSUME NEW j \in Indices, j * MSS < s_start' PROVE j \in r_bits'
    <2>1. CASE TakeAck
      <3>1. acks # <<>> /\ acks \in Seq(Acknowledgement)
        BY <2>1 DEF TakeAck, TypeInv, TypeOK
      <3>2. 1 \in 1 .. Len(acks) /\ Head(acks) = acks[1]
        BY <3>1
      <3>3. acks[1].ack /\ s_start' = Decode(acks[1].number) /\ r_bits' = r_bits
        BY <2>1, <3>2 DEF TakeAck, r_vars
      <3> QED
        BY <1>1, <3>2, <3>3 DEF AckedInv, Covers
    <2>2. CASE ~ TakeAck
      <3>1. s_start' = s_start
        BY <2>2 DEF Next, Send, Recv, SendSegment, TakeNotAck, ReadSegment,
                    SendAck, Deliver, LoseSegment, LoseAck, Stray, vars, s_vars
      <3> QED
        BY <1>1, <3>1, BitsGrow DEF AckedInv, Covers
    <2> QED
      BY <2>1, <2>2
  <1>2. ASSUME r_mode' = "done" PROVE r_bits' = Indices
    <2>1. r_bits' \subseteq Indices
      BY TypeSend, TypeRecv, TypeRest DEF Next, TypeInv, TypeOK
    <2>2. CASE SendAck
      <3>1. PICK i \in 0 .. (BufLen - 1) \div MSS + 1 :
              /\ IsNextWanted(i)
              /\ r_mode' = IF i * MSS < BufLen THEN "reading" ELSE "done"
        BY <2>2 DEF SendAck
      <3>2. i \in Nat
        BY LastIndex
      <3>3. i * MSS >= BufLen
        BY <1>2, <3>1, <3>2, TcpAssumption
      <3>4. \A j \in Indices : j \in 0 .. i - 1
        BY <3>2, <3>3, BehindAll
      <3>5. Indices \subseteq r_bits
        BY <3>1, <3>4 DEF IsNextWanted
      <3> QED
        BY <2>1, <2>2, <3>5 DEF SendAck
    <2>3. CASE ~ SendAck
      <3>1. r_mode = "done"
        BY <1>2, <2>3 DEF Next, Send, Recv, SendSegment, TakeAck, TakeNotAck,
                    ReadSegment, Deliver, LoseSegment, LoseAck, Stray, vars, r_vars
      <3> QED
        BY <2>1, <3>1, BitsGrow DEF AckedInv, RecvReturnsAll
    <2> QED
      BY <2>2, <2>3
  <1> QED
    BY <1>1, <1>2, AcksNext DEF AckedInv, Covers, RecvReturnsAll

LEMMA AckedInvariant == Spec => []AckedInv
  <1>1. TypeInv /\ AckedInv /\ [Next]_vars => AckedInv'
    BY AckedStep
  <1> QED
    BY AckedInit, <1>1, TypeInvariant, PTL DEF Spec

\* The sender's window never starts behind a segment the receiver lacks,
\* with any losses, stale acknowledgements and numbers past 16 bits.
THEOREM AckedIsReceivedAlways == Spec => []AckedIsReceived
  <1>1. AckedInv => AckedIsReceived
    BY DEF AckedInv, Covers, AckedIsReceived
  <1> QED
    BY <1>1, AckedInvariant, PTL

\* And recv returns only with every segment of the buffer.
THEOREM RecvReturnsAllAlways == Spec => []RecvReturnsAll
  BY AckedInvariant, PTL DEF AckedInv

(***************************************************************************)
(* The bytes.  When every number of the transfer fits the 16 bits, as those*)
(* of the 22775 bytes of main do, a segment's number says where its bytes  *)
(* are from.  A segment is a whole one or reaches the end of the buffer,   *)
(* also the one taken from behind the window after a segment without ACK.  *)
(***************************************************************************)
NumbersFit == InitSeq + 1 + BufLen + MSS <= SeqMod

\* A multiple of MSS with a number of its own.
Place(n) == n < BufLen + MSS /\ \E k \in Nat : n = k * MSS

SegmentRight(seg) ==
  /\ Place(seg.from)
  /\ seg.seq = Encode(seg.from)
  /\ seg.len >= MSS \/ seg.from + seg.len >= BufLen

SenderPlaced ==
  /\ Place(s_start)
  /\ Place(s_cfront)
  /\ \E k \in Nat : s_offset = k * MSS
  /\ s_mode = "sending" =>
       \/ s_cfront = s_start + s_offset
       \/ s_offset = 0 /\ s_cfront >= WinEnd(s_start)
  /\ s_mode = "waiting" => s_cfront >= WinEnd(s_start)

AcksPlaced ==
  \A a \in 1 .. Len(acks) :
    acks[a].ack => \E n \in Int : Place(n) /\ acks[a].number = Encode(n)

DataInv ==
  /\ SenderPlaced
  /\ AcksPlaced
  /\ \A a \in 1 .. Len(wire) : SegmentRight(wire[a])
  /\ \A a \in 1 .. Len(ring) : SegmentRight(ring[a])
  /\ DataIntact

\* Where numbers fit, reading one back gives what was written.
LEMMA DecodeEncode ==
  ASSUME NumbersFit, NEW n \in Int, Place(n)
  PROVE  Decode(Encode(n)) = n
  <1>1. n \in Nat
    BY TcpAssumption DEF Place
  <1>2. InitSeq + 1 + n \in 0 .. SeqMod - 1
    BY <1>1, TcpAssumption DEF NumbersFit, Place
  <1> DEFINE m == InitSeq + 1 + n
  <1>3. m % SeqMod = m
    <2>1. m \in 0 .. SeqMod - 1 /\ SeqMod \in Nat \ {0}
      BY <1>2, TcpAssumption
    <2> HIDE DEF m
    <2> QED
      BY <2>1
  <1> QED
    BY <1>1, <1>3, TcpAssumption DEF Encode, Decode

\* The sum of two multiples of MSS is one, and a proper gap between two is
\* at least MSS.
LEMMA Multiples ==
  ASSUME NEW a \in Nat, NEW b \in Nat
  PROVE  /\ a * MSS + b * MSS = (a + b) * MSS
         /\ a * MSS < b * MSS => a * MSS + MSS <= b * MSS
  <1>1. a * MSS + b * MSS = (a + b) * MSS
    BY TcpAssumption
  <1>2. ASSUME a * MSS < b * MSS PROVE a * MSS + MSS <= b * MSS
    <2>1. a < b
      BY <1>2, MulLess, TcpAssumption
    <2>2. a + 1 <= b
      BY <2>1
    <2>3. (a + 1) * MSS <= b * MSS
      BY <2>2, TcpAssumption
    <2> QED
      BY <2>3, TcpAssumption
  <1> QED
    BY <1>1, <1>2

LEMMA WindowMultiple == \E w \in Nat : Window = w * MSS
  <1> DEFINE w == Window \div MSS
  <1>1. w \in Nat /\ Window = w * MSS
    BY TcpAssumption
  <1> QED
    BY <1>1

LEMMA DataInit == Init => DataInv
  <1> SUFFICES ASSUME Init PROVE DataInv
    OBVIOUS
  <1>1. 0 = 0 * MSS /\ 0 < BufLen + MSS
    BY TcpAssumption
  <1>2. SenderPlaced
    BY <1>1 DEF Init, SenderPlaced, Place
  <1> QED
    BY <1>2 DEF Init, DataInv, AcksPlaced, DataIntact

\* The segment send puts out is right, and it leaves send in order.
LEMMA DataSendSegment ==
  ASSUME TypeInv, DataInv, SendSegment
  PROVE  DataInv'
  <1> DEFINE size == WinEnd(s_start) - s_start
             last == s_offset + MSS >= size
             len  == IF last THEN size - s_offset ELSE MSS
             seg  == [seq |-> Encode(s_cfront), from |-> s_cfront, len |-> len]
  <1>1. /\ s_mode = "sending"
        /\ wire' = Append(wire, seg)
        /\ s_mode' = IF last THEN "waiting" ELSE "sending"
        /\ s_offset' = s_offset + MSS
        /\ s_cfront' = s_start + s_offset + MSS
        /\ UNCHANGED <<s_start, r_mode, r_start, r_bits, r_data, ring, acks>>
    BY DEF SendSegment, r_vars
  <1>2. /\ s_start \in Int /\ s_cfront \in Int /\ s_offset \in Nat
        /\ wire \in Seq(Segment)
        /\ s_offset < size /\ s_start < BufLen
    BY <1>1 DEF TypeInv, TypeOK
  <1>3. MSS \in Nat \ {0} /\ BufLen \in Nat \ {0} /\ Window \in Nat \ {0}
    BY TcpAssumption
  <1>4. size \in Int /\ s_start + size <= BufLen
        /\ (s_start + size = BufLen \/ size = Window)
    BY <1>2, <1>3 DEF WinEnd
  <1>5. len >= MSS \/ s_cfront + len >= BufLen
    <2>1. CASE s_cfront = s_start + s_offset
      <3>1. CASE last /\ s_start + size # BufLen
        <4>1. PICK w \in Nat, o \in Nat : size = w * MSS /\ s_offset = o * MSS
          BY <1>4, <3>1, WindowMultiple DEF DataInv, SenderPlaced
        <4>2. s_offset + MSS <= size
          BY <1>2, <4>1, Multiples
        <4> QED
          BY <1>2, <1>3, <1>4, <3>1, <4>2
      <3>2. CASE last /\ s_start + size = BufLen
        BY <1>2, <1>4, <2>1, <3>2
      <3>3. CASE ~ last
        BY <1>3, <3>3
      <3> QED
        BY <3>1, <3>2, <3>3
    <2>2. CASE s_offset = 0 /\ s_cfront >= WinEnd(s_start)
      <3>1. CASE s_start + size = BufLen
        <4>1. len >= 0
          BY <1>2, <1>3, <1>4
        <4>2. s_cfront >= BufLen
          BY <1>2, <2>2, <3>1, WinEndInt
        <4> QED
          BY <1>2, <1>3, <1>4, <4>1, <4>2
      <3>2. CASE size = Window
        <4>1. PICK w \in Nat : Window = w * MSS
          BY WindowMultiple
        <4>2. 0 * MSS < w * MSS => 0 * MSS + MSS <= w * MSS
          BY Multiples
        <4>3. MSS <= Window
          BY <1>3, <4>1, <4>2
        <4> QED
          BY <1>2, <1>3, <1>4, <2>2, <3>2, <4>3
      <3> QED
        BY <1>4, <3>1, <3>2
    <2> QED
      BY <1>1, <2>1, <2>2 DEF DataInv, SenderPlaced
  <1>6. SegmentRight(seg)
    BY <1>5 DEF SegmentRight, DataInv, SenderPlaced
  <1>7. Place(s_cfront')
    <2>1. s_cfront' < BufLen + MSS
      BY <1>1, <1>2, <1>3, <1>4
    <2>2. PICK a \in Nat, b \in Nat : s_start = a * MSS /\ s_offset = b * MSS
      BY DEF DataInv, SenderPlaced, Place
    <2>3. s_cfront' = (a + b + 1) * MSS
      BY <1>1, <1>3, <2>2
    <2> QED
      BY <2>1, <2>3 DEF Place
  <1>8. \E k \in Nat : s_offset' = k * MSS
    <2>1. PICK b \in Nat : s_offset = b * MSS
      BY DEF DataInv, SenderPlaced
    <2>2. s_offset' = (b + 1) * MSS
      BY <1>1, <1>3, <2>1
    <2> QED
      BY <2>2
  <1>9. s_mode' = "waiting" => s_cfront' >= WinEnd(s_start')
    BY <1>1, <1>2, <1>3, WinEndInt
  <1>10. SenderPlaced'
    <2>1. s_cfront' = s_start' + s_offset'
      BY <1>1, <1>2, <1>3
    <2>2. Place(s_start')
      BY <1>1 DEF DataInv, SenderPlaced
    <2> QED
      BY <1>7, <1>8, <1>9, <2>1, <2>2 DEF SenderPlaced
  <1>11. ASSUME NEW a \in 1 .. Len(wire') PROVE SegmentRight(wire'[a])
    <2> HIDE DEF seg
    <2>1. wire'[a] = seg \/ (a \in 1 .. Len(wire) /\ wire'[a] = wire[a])
      BY <1>1, <1>2, <1>11
    <2> QED
      BY <1>6, <2>1 DEF DataInv
  <1> QED
    BY <1>1, <1>10, <1>11 DEF DataInv, AcksPlaced, DataIntact, SegmentRight, Place

LEMMA DataTakeAck ==
  ASSUME TypeInv, DataInv, NumbersFit, TakeAck \/ TakeNotAck
  PROVE  DataInv'
  <1>0. acks # <<>> /\ acks \in Seq(Acknowledgement) /\ acks' = Tail(acks)
        /\ UNCHANGED <<r_bits, r_data, wire, ring>>
    BY DEF TakeAck, TakeNotAck, TypeInv, TypeOK, r_vars
  <1>1. AcksPlaced'
    <2> SUFFICES ASSUME NEW a \in 1 .. Len(acks'), acks'[a].ack
                 PROVE  \E n \in Int : Place(n) /\ acks'[a].number = Encode(n)
      BY DEF AcksPlaced, Place
    <2>1. a + 1 \in 1 .. Len(acks) /\ acks'[a] = acks[a + 1]
      BY <1>0
    <2> QED
      BY <2>1 DEF DataInv, AcksPlaced
  <1>2. SenderPlaced'
    <2>0. 0 = 0 * MSS
      BY TcpAssumption
    <2>1. CASE TakeAck
      <3>1. 1 \in 1 .. Len(acks) /\ Head(acks) = acks[1]
        BY <1>0
      <3>2. PICK n \in Int : Place(n) /\ acks[1].number = Encode(n)
        BY <2>1, <3>1 DEF TakeAck, DataInv, AcksPlaced
      <3>3. s_start' = n
        BY <2>1, <3>1, <3>2, DecodeEncode DEF TakeAck
      <3>4. s_cfront' = n /\ s_offset' = 0 /\ s_mode' # "waiting"
        BY <2>1, <3>3 DEF TakeAck
      <3> QED
        BY <2>0, <3>2, <3>3, <3>4 DEF SenderPlaced, Place
    <2>2. CASE TakeNotAck
      BY <2>0, <2>2 DEF TakeNotAck, DataInv, SenderPlaced, Place
    <2> QED
      BY <2>1, <2>2
  <1> QED
    BY <1>0, <1>1, <1>2 DEF DataInv, DataIntact, SegmentRight, Place

\* A segment in the window is stored at the index of its place.
LEMMA DataReadSegment ==
  ASSUME TypeInv, DataInv, NumbersFit, ReadSegment
  PROVE  DataInv'
  <1> DEFINE seg == Head(ring)
             expected == Decode(seg.seq) >= r_start /\ Decode(seg.seq) < WinEnd(r_start)
  <1>0. /\ ring # <<>> /\ ring \in Seq(Segment) /\ ring' = Tail(ring)
        /\ r_bits \subseteq Indices /\ r_start \in Nat
        /\ r_data \in [Indices -> [from : Int, len : Int]]
        /\ UNCHANGED <<s_mode, s_start, s_cfront, s_offset, wire, acks>>
    BY DEF ReadSegment, TypeInv, TypeOK, s_vars
  <1>1. SegmentRight(seg) /\ seg \in Segment
    <2>1. 1 \in 1 .. Len(ring) /\ seg = ring[1]
      BY <1>0
    <2> QED
      BY <1>0, <2>1 DEF DataInv
  <1>2. ASSUME NEW a \in 1 .. Len(ring') PROVE SegmentRight(ring'[a])
    <2>1. a + 1 \in 1 .. Len(ring) /\ ring'[a] = ring[a + 1]
      BY <1>0
    <2> QED
      BY <2>1 DEF DataInv
  <1>3. DataIntact'
    <2>1. CASE expected
      <3>1. PICK k \in Nat : seg.from = k * MSS
        BY <1>1 DEF SegmentRight, Place
      <3>2. seg.from \in Int /\ seg.len \in Nat
        BY <1>1 DEF Segment
      <3>3. Decode(seg.seq) = seg.from
        BY <1>1, <3>2, DecodeEncode DEF SegmentRight
      <3>4. Decode(seg.seq) \div MSS = k
        BY <3>1, <3>3, DivProduct, TcpAssumption
      <3>5. k \in Indices
        <4>1. seg.from \in Nat /\ seg.from < BufLen
          BY <1>0, <2>1, <3>2, <3>3, TcpAssumption DEF WinEnd
        <4> QED
          BY <3>3, <3>4, <4>1, IndexOf
      <3>6. /\ r_bits' = r_bits \cup {k}
            /\ r_data' = [r_data EXCEPT ![k] = [from |-> seg.from, len |-> seg.len]]
        BY <2>1, <3>4 DEF ReadSegment
      <3>7. seg.len >= SizeOf(k)
        <4>1. (k + 1) * MSS = seg.from + MSS
          BY <3>1, TcpAssumption
        <4>2. seg.len >= MSS \/ seg.from + seg.len >= BufLen
          BY <1>1 DEF SegmentRight
        <4> HIDE DEF seg
        <4> QED
          BY <3>1, <3>2, <4>1, <4>2, TcpAssumption DEF SizeOf
      <3> HIDE DEF seg
      <3>8. ASSUME NEW j \in r_bits'
            PROVE  r_data'[j].from = j * MSS /\ r_data'[j].len >= SizeOf(j)
        <4>1. CASE j = k
          BY <1>0, <3>1, <3>5, <3>6, <3>7, <4>1
        <4>2. CASE j # k
          <5>1. j \in r_bits /\ r_data'[j] = r_data[j]
            BY <1>0, <3>6, <4>2
          <5> QED
            BY <5>1 DEF DataInv, DataIntact
        <4> QED
          BY <4>1, <4>2
      <3> QED
        BY <3>8 DEF DataIntact
    <2>2. CASE ~ expected
      BY <2>2 DEF ReadSegment, DataInv, DataIntact
    <2> QED
      BY <2>1, <2>2
  <1> QED
    BY <1>0, <1>2, <1>3
    DEF DataInv, SenderPlaced, AcksPlaced, SegmentRight, Place

LEMMA DataSendAck ==
  ASSUME TypeInv, DataInv, SendAck
  PROVE  DataInv'
  <1>0. acks \in Seq(Acknowledgement)
        /\ UNCHANGED <<s_mode, s_start, s_cfront, s_offset, r_bits, r_data, wire, ring>>
    BY DEF SendAck, TypeInv, TypeOK, s_vars
  <1> DEFINE end == (BufLen - 1) \div MSS
  <1>1. PICK i \in 0 .. end + 1 :
          acks' = Append(acks, [ack |-> TRUE, number |-> Encode(i * MSS)])
    BY DEF SendAck
  <1>2. end \in Nat /\ end * MSS <= BufLen - 1
    <2>1. BufLen - 1 \in Nat
      BY TcpAssumption
    <2> QED
      BY <2>1, DivBounds, TcpAssumption
  <1> HIDE DEF end
  <1>3. i \in Nat /\ i <= end + 1
    BY <1>2
  <1>4. i * MSS <= end * MSS + MSS
    <2>1. i * MSS <= (end + 1) * MSS
      BY <1>2, <1>3, TcpAssumption
    <2> QED
      BY <1>2, <2>1, TcpAssumption
  <1>5. i * MSS \in Int /\ Place(i * MSS)
    BY <1>2, <1>3, <1>4, TcpAssumption DEF Place
  <1>6. AcksPlaced'
    <2> SUFFICES ASSUME NEW a \in 1 .. Len(acks'), acks'[a].ack
                 PROVE  \E n \in Int : Place(n) /\ acks'[a].number = Encode(n)
      BY DEF AcksPlaced, Place
    <2>1. CASE a = Len(acks) + 1
      <3>1. acks'[a].number = Encode(i * MSS)
        BY <1>0, <1>1, <2>1
      <3> QED
        BY <1>5, <3>1
    <2>2. CASE a # Len(acks) + 1
      <3>1. a \in 1 .. Len(acks) /\ acks'[a] = acks[a]
        BY <1>0, <1>1, <2>2
      <3> QED
        BY <3>1 DEF DataInv, AcksPlaced
    <2> QED
      BY <2>1, <2>2
  <1> QED
    BY <1>0, <1>6 DEF DataInv, SenderPlaced, DataIntact, SegmentRight, Place

LEMMA DataRest ==
  ASSUME TypeInv, DataInv, Deliver \/ LoseSegment \/ LoseAck \/ Stray \/ UNCHANGED vars
  PROVE  DataInv'
  <1>0. /\ wire \in Seq(Segment) /\ ring \in Seq(Segment)
        /\ acks \in Seq(Acknowledgement)
        /\ UNCHANGED <<s_mode, s_start, s_cfront, s_offset, r_bits, r_data>>
    BY DEF TypeInv, TypeOK, Deliver, LoseSegment, LoseAck, Stray, vars, s_vars, r_vars
  <1>1. ASSUME NEW a \in 1 .. Len(wire') PROVE SegmentRight(wire'[a])
    <2>1. \E b \in 1 .. Len(wire) : wire'[a] = wire[b]
      <3>1. CASE UNCHANGED wire
        BY <3>1
      <3>2. CASE wire # <<>> /\ wire' = Tail(wire)
        <4>1. a + 1 \in 1 .. Len(wire) /\ wire'[a] = wire[a + 1]
          BY <1>0, <3>2
        <4> QED
          BY <4>1
      <3> QED
        BY <3>1, <3>2 DEF Deliver, LoseSegment, LoseAck, Stray, vars
    <2> QED
      BY <2>1 DEF DataInv
  <1>2. ASSUME NEW a \in 1 .. Len(ring') PROVE SegmentRight(ring'[a])
    <2>1. CASE UNCHANGED ring
      BY <2>1 DEF DataInv
    <2>2. CASE wire # <<>> /\ ring' = Append(ring, Head(wire))
      <3>1. 1 \in 1 .. Len(wire) /\ Head(wire) = wire[1]
        BY <1>0, <2>2
      <3>2. (a \in 1 .. Len(ring) /\ ring'[a] = ring[a]) \/ ring'[a] = wire[1]
        BY <1>0, <2>2, <3>1
      <3> QED
        BY <3>1, <3>2 DEF DataInv
    <2> QED
      BY <2>1, <2>2 DEF Deliver, LoseSegment, LoseAck, Stray, vars
  <1>3. AcksPlaced'
    <2> SUFFICES ASSUME NEW a \in 1 .. Len(acks'), acks'[a].ack
                 PROVE  \E b \in 1 .. Len(acks) : acks'[a] = acks[b]
      BY DEF DataInv, AcksPlaced, Place
    <2>1. CASE UNCHANGED acks
      BY <2>1
    <2>2. CASE acks # <<>> /\ acks' = Tail(acks)
      <3>1. a + 1 \in 1 .. Len(acks) /\ acks'[a] = acks[a + 1]
        BY <1>0, <2>2
      <3> QED
        BY <3>1
    <2>3. CASE acks' = Append(acks, [ack |-> FALSE, number |-> 0])
      <3>1. a # Len(acks) + 1
        BY <1>0, <2>3
      <3>2. a \in 1 .. Len(acks) /\ acks'[a] = acks[a]
        BY <1>0, <2>3, <3>1
      <3> QED
        BY <3>2
    <2> QED
      BY <2>1, <2>2, <2>3 DEF Deliver, LoseSegment, LoseAck, Stray, vars
  <1> QED
    BY <1>0, <1>1, <1>2, <1>3 DEF DataInv, SenderPlaced, DataIntact, SegmentRight, Place

\* Whatever is lost, resent, sent from behind the window or acknowledged
\* late: where a bit is set the receiver's buffer holds the sender's bytes
\* of that place, when the transfer's numbers fit 16 bits.
THEOREM DataIntactAlways == ASSUME NumbersFit PROVE Spec => []DataIntact
  <1>1. TypeInv /\ DataInv /\ [Next]_vars => DataInv'
    BY NumbersFit, DataSendSegment, DataTakeAck, DataReadSegment, DataSendAck, DataRest
    DEF Next, Send, Recv
  <1>2. DataInv => DataIntact
    BY DEF DataInv
  <1> QED
    BY DataInit, <1>1, <1>2, TypeInvariant, PTL DEF Spec
===============================================================================
