----------------------------- MODULE IPv4_proofs -----------------------------
(***************************************************************************)
(* Theorems about IPv4, for every number and size of datagrams, every      *)
(* width of the id and every length of the rings: type correctness         *)
(* whatever is lost, exact delivery when nothing is, and, when frames are  *)
(* lost, silences are long and other hosts answer ARP requests, that what  *)
(* is handed up may be incomplete, but not out of order, and that its      *)
(* fragments are of one datagram.                                          *)
(***************************************************************************)
EXTENDS IPv4, SequenceContents, TLAPS

\* A call is under way only below the bound on datagrams.
IInvType == TypeOK /\ (total > 0 => serial < MaxDatagrams)

LEMMA IInvTypeInvariant == Spec => []IInvType
<1> USE IPv4Assumption
<1>1. Init => IInvType
  BY DEF Init, IInvType, TypeOK
<1>2. IInvType /\ [Next]_vars => IInvType'
  <2> SUFFICES ASSUME IInvType, [Next]_vars PROVE IInvType'
    OBVIOUS
  <2> USE DEF IInvType, TypeOK
  <2>0. \A x \in Nat : (x + 1) % IdMod \in 0 .. IdMod - 1
    OBVIOUS
  <2>1. ASSUME NEW n \in 1 .. MaxFrags, Call(n) PROVE IInvType'
    BY <2>1 DEF Call, receiver
  <2>2. ASSUME total > 0, Advance
        PROVE  /\ serial' \in 0 .. MaxDatagrams /\ total' \in 0 .. MaxFrags
               /\ nextPart' \in 1 .. MaxFrags /\ ip_packet_id' \in 0 .. IdMod - 1
               /\ total' > 0 => serial' < MaxDatagrams
    <3>1. serial \in Nat /\ serial < MaxDatagrams /\ ip_packet_id \in Nat
      BY <2>2
    <3>2. CASE nextPart < total
      BY <2>2, <3>1, <3>2 DEF Advance
    <3>3. CASE ~ (nextPart < total)
      BY <2>0, <2>2, <3>1, <3>3 DEF Advance
    <3> QED BY <3>2, <3>3
  <2>3. ASSUME SendFragment PROVE IInvType'
    <3>1. Frame \in [id : 0 .. IdMod - 1, part : Parts]
      BY <2>3 DEF SendFragment, Frame, Part, Parts
    <3>2. /\ link' \in Seq([id : 0 .. IdMod - 1, part : Parts])
          /\ Len(link') <= LinkSize
      BY <2>3, <3>1 DEF SendFragment
    <3> QED BY <2>2, <2>3, <3>2 DEF SendFragment, receiver
  <2>4. ASSUME SendToOther PROVE IInvType'
    BY <2>2, <2>4 DEF SendToOther, receiver
  <2>5. ASSUME GiveUp PROVE IInvType'
    BY <2>5 DEF GiveUp, receiver
  <2>6. ASSUME Learn PROVE IInvType'
    BY <2>6 DEF Learn, receiver
  <2>7. ASSUME Lose PROVE IInvType'
    BY <2>7 DEF Lose, receiver, sender
  <2>8. ASSUME Pause PROVE IInvType'
    BY <2>8 DEF Pause, sender
  <2>9. ASSUME Receive PROVE IInvType'
    <3>1. /\ link # <<>> /\ link' = Tail(link) /\ timer' = "recent"
          /\ UNCHANGED <<sender, lost, pauses, handed>>
      BY <2>9 DEF Receive, ReceiveLate, ReceiveMore, ReceiveLast, ReceiveOutOfStep, TakeFrame
    <3>2. /\ Head(link) \in [id : 0 .. IdMod - 1, part : Parts]
          /\ Tail(link) \in Seq([id : 0 .. IdMod - 1, part : Parts])
          /\ Len(Tail(link)) = Len(link) - 1
      <4> DEFINE Frames == [id : 0 .. IdMod - 1, part : Parts]
      <4>1. link \in Seq(Frames)
        OBVIOUS
      <4> HIDE DEF Frames
      <4>2. /\ Head(link) \in Frames /\ Tail(link) \in Seq(Frames)
            /\ Len(Tail(link)) = Len(link) - 1
        BY <3>1, <4>1, HeadTailProperties
      <4> QED BY <4>2 DEF Frames
    <3>3. link' \in Seq([id : 0 .. IdMod - 1, part : Parts]) /\ Len(link') <= LinkSize
      BY <3>1, <3>2
    <3>4. ip_id' \in 0 .. IdMod - 1
      <4>1. ip_id' = ip_id \/ ip_id' = (ip_id + 1) % IdMod
        BY <2>9 DEF Receive, ReceiveLate, ReceiveMore, ReceiveLast, ReceiveOutOfStep
      <4> QED BY <2>0, <4>1
    <3>5. Append(data_buffer, Head(link).part) \in Seq(Parts)
      BY <3>2
    <3>6. data_buffer' \in Seq(Parts)
      <4>1. \/ data_buffer' = data_buffer
            \/ data_buffer' = <<>>
            \/ data_buffer' = Append(data_buffer, Head(link).part)
        BY <2>9 DEF Receive, ReceiveLate, ReceiveMore, ReceiveLast, ReceiveOutOfStep
      <4>2. data_buffer \in Seq(Parts) /\ <<>> \in Seq(Parts)
        OBVIOUS
      <4> QED BY <3>5, <4>1, <4>2
    <3>7. pool' \in Seq(Seq(Parts)) /\ Len(pool') <= QueSize
      <4>1. CASE ReceiveLast
        <5> DEFINE d == Append(data_buffer, Head(link).part)
        <5>1. /\ pool' = Append(pool, d) /\ Len(pool) < QueSize
              /\ d \in Seq(Parts)
          BY <3>5, <4>1 DEF ReceiveLast
        <5> HIDE DEF d
        <5> QED BY <5>1
      <4>2. CASE pool' = pool
        BY <4>2
      <4> QED
        BY <2>9, <4>1, <4>2 DEF Receive, ReceiveLate, ReceiveMore, ReceiveOutOfStep
    <3> QED BY <3>1, <3>3, <3>4, <3>6, <3>7 DEF sender
  <2>10. ASSUME HandOut PROVE IInvType'
    BY <2>10 DEF HandOut, sender
  <2>11. CASE UNCHANGED vars
    BY <2>11 DEF vars, sender, receiver
  <2> QED
    BY <2>1, <2>3, <2>4, <2>5, <2>6, <2>7, <2>8, <2>9, <2>10, <2>11 DEF Next
<1> QED BY <1>1, <1>2, PTL DEF Spec

\* Every variable keeps its type and every queue its length.
THEOREM TypeCorrect == Spec => []TypeOK
BY IInvTypeInvariant, PTL DEF IInvType

------------------------------------------------------------------------------
(***************************************************************************)
(* Exact delivery.                                                         *)
(***************************************************************************)
\* Nothing is lost, no silence is long, and no other host answers for the
\* destination.
Lossless == MaxLoss = 0 /\ MaxPause = 0 /\ "other" \notin ArpOutcomes

\* Frame g is the one the sender makes after frame f.
Follows(f, g) ==
  IF MoreFragments(f)
    THEN /\ g.part = Part(f.part.serial, f.part.k + 1, f.part.n)
         /\ g.id = f.id
    ELSE /\ g.part.serial = f.part.serial + 1
         /\ g.part.k = 1
         /\ g.id = (f.id + 1) % IdMod

\* What the sender makes next follows frame f.
SenderFollows(f) ==
  IF MoreFragments(f)
    THEN /\ serial = f.part.serial /\ nextPart = f.part.k + 1 /\ total = f.part.n
         /\ ip_packet_id = f.id
    ELSE /\ serial = f.part.serial + 1
         /\ nextPart = 1
         /\ ip_packet_id = (f.id + 1) % IdMod

\* The number of the datagram the receiver is putting together.
Expected == Len(handed) + Len(pool)

\* Fragment k of n of datagram d, sent under this id, is what goes behind the
\* fragments the receiver has.
Wanted(d, k, n, id) ==
  /\ d = Expected
  /\ k = Len(data_buffer) + 1
  /\ id = ip_id
  /\ \A i \in 1 .. Len(data_buffer) : data_buffer[i] = Part(d, i, n)

SenderInv ==
  /\ nextPart > 1 => known /\ nextPart <= total
  /\ total > 0 => nextPart <= total

LinkInv ==
  /\ \A i \in 1 .. Len(link) : link[i].part.k <= link[i].part.n
  /\ \A i \in 1 .. Len(link) - 1 : Follows(link[i], link[i + 1])
  /\ link # <<>> => SenderFollows(link[Len(link)])

ReceiverInv ==
  /\ timer # "old"
  /\ link # <<>> => Wanted(link[1].part.serial, link[1].part.k,
                           link[1].part.n, link[1].id)
  /\ link = <<>> => Wanted(serial, nextPart, total, ip_packet_id)

DeliveredInv ==
  /\ ExactDelivery
  /\ \A i \in 1 .. Len(pool) :
       pool[i] = Whole(Len(handed) + i - 1, Len(pool[i]))

LosslessInv == SenderInv /\ LinkInv /\ ReceiverInv /\ DeliveredInv

Frames == [id : 0 .. IdMod - 1, part : Parts]

LEMMA LosslessInit == ASSUME Init PROVE LosslessInv
  BY IPv4Assumption DEF Init, LosslessInv, SenderInv, LinkInv, ReceiverInv,
     DeliveredInv, ExactDelivery, Wanted, Expected

\* The steps of the sender.
LEMMA LosslessSend ==
  ASSUME Lossless, IInvType, LosslessInv, SendFragment
  PROVE  LosslessInv'
<1> USE IPv4Assumption DEF IInvType
<1>1. /\ link \in Seq(Frames) /\ Frame \in Frames
      /\ link' = Append(link, Frame)
      /\ total > 0 /\ known' = TRUE /\ nextPart <= total
      /\ serial \in Nat /\ nextPart \in Nat /\ total \in Nat /\ ip_packet_id \in Nat
      /\ UNCHANGED <<ip_id, data_buffer, timer, pool, handed>>
  BY DEF SendFragment, Frame, Frames, Part, Parts, TypeOK, LosslessInv,
     SenderInv, receiver
<1>2. Advance
  BY DEF SendFragment
<1>3. /\ Frame.part = Part(serial, nextPart, total)
      /\ Frame.part.serial = serial /\ Frame.part.k = nextPart
      /\ Frame.part.n = total /\ Frame.id = ip_packet_id
  BY DEF Frame, Part
<1>4. SenderInv'
  BY <1>1, <1>2 DEF Advance, SenderInv
<1>5. ASSUME NEW f, f = Frame PROVE SenderFollows(f)'
  BY <1>1, <1>2, <1>3, <1>5 DEF Advance, SenderFollows, MoreFragments
<1>6. LinkInv'
  <2>1. /\ Len(link') = Len(link) + 1 /\ Len(link) \in Nat
        /\ \A i \in 1 .. Len(link) : link'[i] = link[i]
        /\ link'[Len(link) + 1] = Frame
        /\ link' # <<>>
    BY <1>1 
  <2>2. \A i \in 1 .. Len(link') : link'[i].part.k <= link'[i].part.n
    BY <1>1, <1>3, <2>1 DEF LosslessInv, LinkInv
  <2>3. ASSUME NEW i \in 1 .. Len(link') - 1 PROVE Follows(link'[i], link'[i + 1])
    <3>1. CASE i = Len(link)
      <4>1. link # <<>> /\ SenderFollows(link[i])
        BY <2>1, <3>1 DEF LosslessInv, LinkInv
      <4>2. Follows(link[i], Frame)
        BY <1>3, <4>1 DEF Follows, SenderFollows
      <4> QED BY <2>1, <3>1, <4>2
    <3>2. CASE i # Len(link)
      BY <2>1, <2>3, <3>2 DEF LosslessInv, LinkInv
    <3> QED BY <3>1, <3>2
  <2>4. SenderFollows(link[Len(link)])'
    BY <1>5, <2>1 DEF SenderFollows, MoreFragments
  <2> QED BY <2>2, <2>3, <2>4 DEF LinkInv, Follows, SenderFollows, MoreFragments
<1>7. ReceiverInv'
  <2>1. link' # <<>> /\ link'[1] = IF link = <<>> THEN Frame ELSE link[1]
    BY <1>1
  <2> QED
    BY <1>1, <1>3, <2>1 DEF LosslessInv, ReceiverInv, Wanted, Expected
<1>8. DeliveredInv'
  BY <1>1 DEF LosslessInv, DeliveredInv, ExactDelivery
<1> QED BY <1>4, <1>6, <1>7, <1>8 DEF LosslessInv

\* A step of the sender, or of the table, that puts nothing on the link.
LEMMA LosslessQuiet ==
  ASSUME IInvType, LosslessInv,
         UNCHANGED <<ip_packet_id, link, ip_id, data_buffer, timer, pool, handed>>,
         \/ (\E n \in 1 .. MaxFrags : Call(n))
         \/ GiveUp
         \/ Learn
  PROVE  LosslessInv'
<1> USE IPv4Assumption DEF IInvType, TypeOK
<1>1. /\ serial' = serial /\ nextPart' = nextPart
      /\ nextPart > 1 => total' = total
      /\ total' # total => nextPart = 1
      /\ total' > 0 => nextPart <= total'
      /\ known => known'
  BY DEF LosslessInv, SenderInv, Call, GiveUp, Learn
<1>2. SenderInv'
  BY <1>1 DEF LosslessInv, SenderInv
<1>3. ASSUME NEW f \in Frames, f.part.k <= f.part.n, SenderFollows(f)
      PROVE  SenderFollows(f)'
  BY <1>1, <1>3 DEF SenderFollows, MoreFragments, Frames, Parts
<1>4. LinkInv'
  <2>1. ASSUME link # <<>> PROVE SenderFollows(link[Len(link)])'
    <3>1. /\ link[Len(link)] \in Frames
          /\ link[Len(link)].part.k <= link[Len(link)].part.n
          /\ SenderFollows(link[Len(link)])
      <4>1. link \in Seq(Frames) /\ Len(link) \in 1 .. Len(link)
        BY <2>1 DEF Frames
      <4> QED BY <2>1, <4>1, ElementOfSeq DEF LosslessInv, LinkInv
    <3> QED BY <1>3, <3>1 DEF SenderFollows, MoreFragments
  <2> QED BY <2>1 DEF LosslessInv, LinkInv, Follows, MoreFragments
<1>5. ReceiverInv'
  <2>1. ASSUME link = <<>> PROVE Wanted(serial, nextPart, total, ip_packet_id)'
    <3>1. Wanted(serial, nextPart, total, ip_packet_id)
      BY <2>1 DEF LosslessInv, ReceiverInv
    <3>2. CASE total' = total
      BY <1>1, <3>1, <3>2 DEF Wanted, Expected
    <3>3. CASE nextPart = 1
      BY <1>1, <3>1, <3>3 DEF Wanted, Expected
    <3> QED BY <1>1, <3>2, <3>3
  <2> QED BY <2>1 DEF LosslessInv, ReceiverInv, Wanted, Expected
<1>6. DeliveredInv'
  BY DEF LosslessInv, DeliveredInv, ExactDelivery
<1> QED BY <1>2, <1>4, <1>5, <1>6 DEF LosslessInv

\* The fragments in the buffer and the last one make the datagram.
LEMMA WholeOf ==
  ASSUME NEW buf \in Seq(Parts), NEW p \in Parts,
         \A i \in 1 .. Len(buf) : buf[i] = Part(p.serial, i, p.n),
         p.k = Len(buf) + 1, p.n = p.k
  PROVE  Append(buf, p) = Whole(p.serial, Len(Append(buf, p)))
<1>1. /\ Append(buf, p) \in Seq(Parts) /\ Len(Append(buf, p)) = p.n
      /\ p.n \in Nat
  BY DEF Parts
<1>2. ASSUME NEW i \in 1 .. p.n PROVE Append(buf, p)[i] = Part(p.serial, i, p.n)
  <2>1. p = Part(p.serial, p.k, p.n)
    BY DEF Parts, Part
  <2> QED BY <1>1, <2>1
<1>3. Whole(p.serial, p.n) \in [1 .. p.n -> Parts]
  BY <1>1, <1>2, ElementOfSeq DEF Whole
<1>4. Whole(p.serial, p.n) \in Seq(Parts) /\ Len(Whole(p.serial, p.n)) = p.n
  BY <1>1, <1>3, SeqDef, LenProperties
<1>5. ASSUME NEW i \in 1 .. p.n PROVE Append(buf, p)[i] = Whole(p.serial, p.n)[i]
  BY <1>2 DEF Whole
<1> QED BY <1>1, <1>4, <1>5, SeqEqual

\* The steps of the receiver.
LEMMA LosslessReceive ==
  ASSUME IInvType, LosslessInv, Receive
  PROVE  LosslessInv'
<1> USE IPv4Assumption DEF IInvType
<1> DEFINE f == link[1]
<1>1. /\ link \in Seq(Frames) /\ link # <<>> /\ Len(link) \in Nat /\ Len(link) > 0
      /\ data_buffer \in Seq(Parts) /\ pool \in Seq(Seq(Parts)) /\ handed \in Seq(Seq(Parts))
      /\ serial \in Nat /\ nextPart \in Nat /\ total \in Nat /\ ip_packet_id \in Nat
  BY DEF Receive, ReceiveLate, ReceiveMore, ReceiveLast, ReceiveOutOfStep,
     TakeFrame, TypeOK, Frames
<1>2. /\ f \in Frames /\ Head(link) = f
      /\ link' \in Seq(Frames)
      /\ Len(link') = Len(link) - 1
      /\ \A i \in 1 .. Len(link) - 1 : link'[i] = link[i + 1]
  <2>1. link' = Tail(link)
    BY DEF Receive, ReceiveLate, ReceiveMore, ReceiveLast, ReceiveOutOfStep, TakeFrame
  <2> QED BY <1>1, <2>1, HeadTailProperties, ElementOfSeq
<1>3. /\ UNCHANGED <<serial, total, nextPart, ip_packet_id, known, handed>>
      /\ timer' = "recent"
  BY DEF Receive, ReceiveLate, ReceiveMore, ReceiveLast, ReceiveOutOfStep, TakeFrame, sender
<1>4. f.part \in Parts /\ f.part = Part(f.part.serial, f.part.k, f.part.n)
  BY <1>2 DEF Frames, Parts, Part
<1>5. /\ Wanted(f.part.serial, f.part.k, f.part.n, f.id)
      /\ f.part.k <= f.part.n
      /\ Len(link) > 1 => Follows(f, link[2])
      /\ Len(link) = 1 => SenderFollows(f)
  BY <1>1 DEF LosslessInv, ReceiverInv, LinkInv
<1>6. SenderInv'
  BY <1>3 DEF LosslessInv, SenderInv
<1>7. LinkInv'
  <2>1. \A i \in 1 .. Len(link') : link'[i].part.k <= link'[i].part.n
    BY <1>1, <1>2 DEF LosslessInv, LinkInv
  <2>2. ASSUME NEW i \in 1 .. Len(link') - 1 PROVE Follows(link'[i], link'[i + 1])
    <3>1. /\ i + 1 \in 1 .. Len(link) - 1
          /\ link'[i] = link[i + 1] /\ link'[i + 1] = link[(i + 1) + 1]
      BY <1>1, <1>2
    <3> QED BY <3>1 DEF LosslessInv, LinkInv
  <2>3. link' # <<>> => link'[Len(link')] = link[Len(link)]
    BY <1>1, <1>2
  <2> QED
    BY <1>1, <1>3, <2>1, <2>2, <2>3
    DEF LosslessInv, LinkInv, Follows, SenderFollows, MoreFragments
<1>8. link' # <<>> => Len(link) > 1 /\ link'[1] = link[2]
  BY <1>1, <1>2
<1>9. link' = <<>> => Len(link) = 1
  BY <1>1, <1>2
<1>10. CASE ReceiveMore
  <2>1. /\ MoreFragments(f) /\ data_buffer' = Append(data_buffer, f.part)
        /\ UNCHANGED <<ip_id, pool>>
    BY <1>2, <1>10 DEF ReceiveMore
  <2>2. /\ Len(data_buffer') = Len(data_buffer) + 1
        /\ \A i \in 1 .. Len(data_buffer') :
             data_buffer'[i] = Part(f.part.serial, i, f.part.n)
    BY <1>1, <1>4, <1>5, <2>1 DEF Wanted
  <2>3. ASSUME NEW d, NEW k, NEW n, NEW id,
               d = f.part.serial, k = f.part.k + 1, n = f.part.n, id = f.id
        PROVE  Wanted(d, k, n, id)'
    BY <1>1, <1>3, <1>4, <1>5, <2>1, <2>2, <2>3 DEF Wanted, Expected, Parts
  <2>4. ReceiverInv'
    <3>1. ASSUME link' # <<>>
          PROVE  /\ link'[1].part = Part(f.part.serial, f.part.k + 1, f.part.n)
                 /\ link'[1].id = f.id
      BY <1>5, <1>8, <2>1, <3>1 DEF Follows
    <3>2. ASSUME link' = <<>>
          PROVE  /\ serial' = f.part.serial /\ nextPart' = f.part.k + 1
                 /\ total' = f.part.n /\ ip_packet_id' = f.id
      BY <1>3, <1>5, <1>9, <2>1, <3>2 DEF SenderFollows
    <3> QED BY <1>3, <2>3, <3>1, <3>2 DEF ReceiverInv, Wanted, Expected, Part
  <2>5. DeliveredInv'
    BY <1>3, <2>1 DEF LosslessInv, DeliveredInv, ExactDelivery
  <2> QED BY <1>6, <1>7, <2>4, <2>5 DEF LosslessInv
<1>11. CASE ReceiveLast
  <2> DEFINE new == Append(data_buffer, f.part)
  <2>1. /\ ~ MoreFragments(f) /\ data_buffer' = <<>>
        /\ ip_id' = (ip_id + 1) % IdMod /\ pool' = Append(pool, new)
    BY <1>2, <1>11 DEF ReceiveLast
  <2>2. f.part.k = f.part.n /\ f.part.k = Len(data_buffer) + 1
        /\ f.part.serial = Expected /\ f.id = ip_id
        /\ \A i \in 1 .. Len(data_buffer) : data_buffer[i] = Part(f.part.serial, i, f.part.n)
    BY <1>4, <1>5, <2>1 DEF MoreFragments, Wanted, Parts
  <2>3. new = Whole(Expected, Len(new)) /\ new \in Seq(Parts)
    <3> HIDE DEF f
    <3>1. new = Whole(f.part.serial, Len(new))
      BY <1>1, <1>4, <2>2, WholeOf
    <3> QED BY <1>1, <1>4, <2>2, <3>1
  <2> HIDE DEF new
  <2>4. Expected' = Expected + 1 /\ Expected \in Nat
    BY <1>1, <1>3, <2>1, <2>3 DEF Expected
  <2>5. ReceiverInv'
    <3>1. ASSUME link' # <<>>
          PROVE  /\ link'[1].part.serial = Expected' /\ link'[1].part.k = 1
                 /\ link'[1].id = ip_id'
      BY <1>5, <1>8, <2>1, <2>2, <2>4, <3>1 DEF Follows
    <3>2. ASSUME link' = <<>>
          PROVE  /\ serial' = Expected' /\ nextPart' = 1 /\ ip_packet_id' = ip_id'
      BY <1>3, <1>5, <1>9, <2>1, <2>2, <2>4, <3>2 DEF SenderFollows
    <3>3. Len(data_buffer') = 0
      BY <2>1
    <3> QED BY <1>3, <3>1, <3>2, <3>3 DEF ReceiverInv, Wanted
  <2>6. DeliveredInv'
    <3>1. /\ Len(pool') = Len(pool) + 1 /\ Len(pool) \in Nat
          /\ \A i \in 1 .. Len(pool) : pool'[i] = pool[i]
          /\ pool'[Len(pool) + 1] = new
      BY <1>1, <2>1, <2>3
    <3>2. ASSUME NEW i \in 1 .. Len(pool')
          PROVE  pool'[i] = Whole(Len(handed) + i - 1, Len(pool'[i]))
      <4>1. CASE i = Len(pool) + 1
        <5>1. Len(handed) + i - 1 = Expected
          BY <1>1, <3>1, <4>1 DEF Expected
        <5> QED BY <2>3, <3>1, <4>1, <5>1
      <4>2. CASE i # Len(pool) + 1
        <5>1. i \in 1 .. Len(pool)
          BY <3>1, <4>2
        <5> QED BY <3>1, <5>1, <1>3 DEF LosslessInv, DeliveredInv
      <4> QED BY <4>1, <4>2
    <3> QED BY <1>3, <3>2 DEF LosslessInv, DeliveredInv, ExactDelivery
  <2> QED BY <1>6, <1>7, <2>5, <2>6 DEF LosslessInv
<1> QED
  BY <1>2, <1>5, <1>10, <1>11
  DEF Receive, ReceiveLate, ReceiveOutOfStep, LosslessInv, ReceiverInv, Wanted

\* thread_ip_handout.
LEMMA LosslessHandOut ==
  ASSUME IInvType, LosslessInv, HandOut PROVE LosslessInv'
<1>1. /\ pool \in Seq(Seq(Parts)) /\ handed \in Seq(Seq(Parts)) /\ pool # <<>>
      /\ handed' = Append(handed, Head(pool)) /\ pool' = Tail(pool)
      /\ UNCHANGED <<serial, total, nextPart, ip_packet_id, known, link,
                     ip_id, data_buffer, timer>>
  BY DEF HandOut, sender, IInvType, TypeOK
<1>2. /\ Len(pool) \in Nat /\ Len(pool) > 0 /\ Len(handed) \in Nat
      /\ Head(pool) = pool[1]
      /\ Len(pool') = Len(pool) - 1
      /\ \A i \in 1 .. Len(pool) - 1 : pool'[i] = pool[i + 1]
  BY <1>1, HeadTailProperties
<1>3. /\ Len(handed') = Len(handed) + 1
      /\ \A i \in 1 .. Len(handed) : handed'[i] = handed[i]
      /\ handed'[Len(handed) + 1] = pool[1]
  <2> DEFINE d == Head(pool)
  <2>1. handed' = Append(handed, d) /\ d \in Seq(Parts) /\ d = pool[1]
    BY <1>1, <1>2, HeadTailProperties
  <2> HIDE DEF d
  <2> QED BY <1>1, <2>1
<1>4. Expected' = Expected
  BY <1>2, <1>3 DEF Expected
<1>5. ExactDelivery'
  <2>1. ASSUME NEW i \in 1 .. Len(handed') PROVE handed'[i] = Whole(i - 1, Len(handed'[i]))
    <3>1. CASE i = Len(handed) + 1
      <4>1. pool[1] = Whole(Len(handed) + 1 - 1, Len(pool[1]))
        BY <1>2 DEF LosslessInv, DeliveredInv
      <4> QED BY <1>3, <3>1, <4>1
    <3>2. CASE i \in 1 .. Len(handed)
      BY <1>3, <3>2 DEF LosslessInv, DeliveredInv, ExactDelivery
    <3> QED BY <1>2, <1>3, <3>1, <3>2
  <2> QED BY <2>1 DEF ExactDelivery
<1>6. ASSUME NEW i \in 1 .. Len(pool')
      PROVE  pool'[i] = Whole(Len(handed') + i - 1, Len(pool'[i]))
  <2>1. i + 1 \in 1 .. Len(pool) /\ pool'[i] = pool[i + 1]
    BY <1>2
  <2>2. pool[i + 1] = Whole(Len(handed) + (i + 1) - 1, Len(pool[i + 1]))
    BY <2>1 DEF LosslessInv, DeliveredInv
  <2>3. Len(handed) + (i + 1) - 1 = Len(handed') + i - 1
    BY <1>2, <1>3
  <2> QED BY <2>1, <2>2, <2>3
<1>7. SenderInv' /\ LinkInv' /\ ReceiverInv'
  BY <1>1, <1>4
  DEF LosslessInv, SenderInv, LinkInv, ReceiverInv, Wanted, Follows,
      SenderFollows, MoreFragments
<1> QED BY <1>5, <1>6, <1>7 DEF LosslessInv, DeliveredInv

LEMMA LosslessInvariant == ASSUME Lossless PROVE Spec => []LosslessInv
<1>1. Init => LosslessInv
  BY LosslessInit
<1>2. IInvType /\ LosslessInv /\ [Next]_vars => LosslessInv'
  <2> SUFFICES ASSUME IInvType, LosslessInv, [Next]_vars PROVE LosslessInv'
    OBVIOUS
  <2>1. CASE SendFragment
    BY <2>1, LosslessSend
  <2>2. CASE (\E n \in 1 .. MaxFrags : Call(n)) \/ GiveUp \/ Learn
    BY <2>2, LosslessQuiet DEF Call, GiveUp, Learn, LosslessInv, SenderInv, receiver
  <2>3. CASE Receive
    BY <2>3, LosslessReceive
  <2>4. CASE HandOut
    BY <2>4, LosslessHandOut
  <2>5. CASE SendToOther \/ Lose \/ Pause
    BY <2>5 DEF Lossless, SendToOther, Lose, Pause, IInvType, TypeOK
  <2>6. CASE UNCHANGED vars
    BY <2>6
    DEF vars, sender, receiver, LosslessInv, SenderInv, LinkInv, ReceiverInv,
        DeliveredInv, ExactDelivery, Wanted, Expected, Follows, SenderFollows,
        MoreFragments
  <2> QED BY <2>1, <2>2, <2>3, <2>4, <2>5, <2>6 DEF Next
<1> QED BY <1>1, <1>2, IInvTypeInvariant, PTL DEF Spec

\* When no frame is lost and no silence is long, what thread_ip_handout hands
\* to the transport protocols is what they gave to network_ipv4_send: every
\* datagram whole, once, in order, although the receiver ignores offsets and
\* the ids wrap.
THEOREM ExactDeliveryLossless == ASSUME Lossless PROVE Spec => []ExactDelivery
BY LosslessInvariant, PTL DEF LosslessInv, DeliveredInv

(***************************************************************************)
(* What arrives when frames are lost: order.                               *)
(***************************************************************************)
\* Part x leaves its sender before part y.
Before(x, y) ==
  \/ x.serial < y.serial
  \/ x.serial = y.serial /\ x.n = y.n /\ x.k < y.k

PartOrder == {p \in Parts \X Parts : Before(p[1], p[2])}
FrameOrder == {p \in Frames \X Frames : Before(p[1].part, p[2].part)}
DatagramOrder ==
  {p \in Seq(Parts) \X Seq(Parts) :
     \A x \in In(p[1]), y \in In(p[2]) : Before(x, y)}

\* The parts that have left their sender.
SentParts ==
  {x \in Parts :
     /\ x.k <= x.n
     /\ \/ x.serial < serial
        \/ x.serial = serial /\ total > 0 /\ x.n = total /\ x.k < nextPart}

\* The datagrams the receiver has put together.
Built == handed \o pool

\* Of the parts in S, those in the buffer b and on the link l are in the order
\* in which they were sent, the buffer's first.
Arriving(l, b, S) ==
  /\ \A f \in In(l) : f.part \in S
  /\ In(b) \subseteq S
  /\ Ordered(FrameOrder, l)
  /\ Ordered(PartOrder, b)
  /\ \A x \in In(b), f \in In(l) : Before(x, f.part)

\* A datagram that was put together ends with a last fragment.
Closed(u) ==
  /\ u # <<>>
  /\ Ordered(PartOrder, u)
  /\ u[Len(u)].k = u[Len(u)].n

\* The datagrams t that were put together were sent in that order, before all
\* that is in the buffer and on the link.
PutTogether(l, b, t, S) ==
  /\ \A u \in In(t) : Closed(u) /\ In(u) \subseteq S
  /\ Ordered(DatagramOrder, t)
  /\ \A u \in In(t) : \A x \in In(u) :
       /\ \A y \in In(b) : Before(x, y)
       /\ \A f \in In(l) : Before(x, f.part)

InOrder(l, b, t, S) == Arriving(l, b, S) /\ PutTogether(l, b, t, S)

OrderInv ==
  /\ total > 0 => nextPart <= total
  /\ InOrder(link, data_buffer, Built, SentParts)

LEMMA OrderTypes ==
  ASSUME IInvType
  PROVE  /\ link \in Seq(Frames) /\ data_buffer \in Seq(Parts)
         /\ handed \in Seq(Seq(Parts)) /\ pool \in Seq(Seq(Parts))
         /\ Built \in Seq(Seq(Parts))
  <1>1. /\ link \in Seq(Frames) /\ data_buffer \in Seq(Parts)
        /\ handed \in Seq(Seq(Parts)) /\ pool \in Seq(Seq(Parts))
    BY DEF IInvType, TypeOK, Frames
  <1>2. Built \in Seq(Seq(Parts))
    BY <1>1, InConcat DEF Built
  <1> QED
    BY <1>1, <1>2

LEMMA InType ==
  ASSUME NEW S, NEW s \in Seq(S)
  PROVE  In(s) \subseteq S
  BY ElementOfSeq, LenProperties DEF In

LEMMA PartType ==
  /\ \A f \in Frames : f.part \in Parts /\ f.id \in 0 .. IdMod - 1
  /\ \A x \in Parts : x.serial \in Nat /\ x.k \in Nat \ {0} /\ x.n \in Nat \ {0}
  BY IPv4Assumption DEF Frames, Parts

(***************************************************************************)
(* What happens to the link, the buffer and the datagrams keeps the order. *)
(***************************************************************************)
\* A frame whose part comes after all that was sent is put on the link.
LEMMA OrderPut ==
  ASSUME NEW l \in Seq(Frames), NEW b \in Seq(Parts), NEW t \in Seq(Seq(Parts)),
         NEW S, NEW T, InOrder(l, b, t, S), S \subseteq T,
         NEW f \in Frames, f.part \in T, \A x \in S : Before(x, f.part)
  PROVE  InOrder(Append(l, f), b, t, T)
  <1>1. /\ In(Append(l, f)) = In(l) \cup {f}
        /\ In(l) \subseteq Frames
    BY InAppend, InType
  <1>2. Ordered(FrameOrder, Append(l, f))
    <2>1. \A g \in In(l) : <<g, f>> \in FrameOrder
      BY <1>1 DEF FrameOrder, InOrder, Arriving
    <2> QED
      BY <2>1, OrderedAppend DEF InOrder, Arriving
  <1>3. Arriving(Append(l, f), b, T)
    BY <1>1, <1>2 DEF InOrder, Arriving
  <1>4. PutTogether(Append(l, f), b, t, T)
    BY <1>1 DEF InOrder, PutTogether
  <1> QED
    BY <1>3, <1>4 DEF InOrder

\* More was sent.
LEMMA OrderGrow ==
  ASSUME NEW l, NEW b, NEW t, NEW S, NEW T, InOrder(l, b, t, S), S \subseteq T
  PROVE  InOrder(l, b, t, T)
  BY DEF InOrder, Arriving, PutTogether

\* The first frame of the link goes.
LEMMA OrderDrop ==
  ASSUME NEW l \in Seq(Frames), l # <<>>, NEW b, NEW t, NEW S, InOrder(l, b, t, S)
  PROVE  InOrder(Tail(l), b, t, S)
  <1>1. In(Tail(l)) \subseteq In(l)
    BY InTail
  <1>2. Ordered(FrameOrder, Tail(l))
    BY OrderedTail DEF InOrder, Arriving
  <1> QED
    BY <1>1, <1>2 DEF InOrder, Arriving, PutTogether

\* The first frame of the link goes into the buffer.
LEMMA OrderTake ==
  ASSUME NEW l \in Seq(Frames), l # <<>>, NEW b \in Seq(Parts),
         NEW t \in Seq(Seq(Parts)), NEW S, InOrder(l, b, t, S)
  PROVE  InOrder(Tail(l), Append(b, Head(l).part), t, S)
  <1> DEFINE x == Head(l).part
  <1>1. /\ Head(l) \in Frames /\ Head(l) \in In(l)
        /\ Tail(l) \in Seq(Frames) /\ In(Tail(l)) \subseteq In(l)
    BY InTail
  <1>2. x \in Parts /\ x \in S /\ In(b) \subseteq Parts
    BY <1>1, PartType, InType DEF InOrder, Arriving
  <1>3. InOrder(Tail(l), b, t, S)
    BY OrderDrop
  <1>4. /\ \A y \in In(b) : Before(y, x)
        /\ \A u \in In(t) : \A y \in In(u) : Before(y, x)
    BY <1>1 DEF InOrder, Arriving, PutTogether
  <1>5. \A f \in In(Tail(l)) : Before(x, f.part)
    <2>1. \A f \in In(Tail(l)) : <<Head(l), f>> \in FrameOrder
      BY OrderedTail DEF InOrder, Arriving
    <2> QED
      BY <2>1 DEF FrameOrder
  <1> HIDE DEF x
  <1>6. In(Append(b, x)) = In(b) \cup {x}
    BY <1>2, InAppend
  <1>7. Ordered(PartOrder, Append(b, x))
    <2>1. \A y \in In(b) : <<y, x>> \in PartOrder
      BY <1>2, <1>4 DEF PartOrder
    <2> QED
      BY <1>2, <2>1, OrderedAppend DEF InOrder, Arriving
  <1>8. Arriving(Tail(l), Append(b, x), S)
    BY <1>2, <1>3, <1>5, <1>6, <1>7 DEF InOrder, Arriving
  <1>9. PutTogether(Tail(l), Append(b, x), t, S)
    BY <1>3, <1>4, <1>6 DEF InOrder, PutTogether
  <1> QED
    BY <1>8, <1>9 DEF InOrder, x

\* The buffer is cleared.
LEMMA OrderClear ==
  ASSUME NEW l, NEW b, NEW t, NEW S, InOrder(l, b, t, S)
  PROVE  InOrder(l, <<>>, t, S)
  BY EmptyIn, OrderedEmpty DEF InOrder, Arriving, PutTogether

\* The buffer is closed: it becomes the last datagram put together.
LEMMA OrderClose ==
  ASSUME NEW l \in Seq(Frames), NEW b \in Seq(Parts), NEW t \in Seq(Seq(Parts)),
         NEW S, InOrder(l, b, t, S), b # <<>>, b[Len(b)].k = b[Len(b)].n
  PROVE  InOrder(l, <<>>, Append(t, b), S)
  <1>1. /\ In(Append(t, b)) = In(t) \cup {b}
        /\ In(t) \subseteq Seq(Parts)
    BY InAppend, InType
  <1>2. Closed(b) /\ In(b) \subseteq S
    BY DEF Closed, InOrder, Arriving
  <1>3. Ordered(DatagramOrder, Append(t, b))
    <2>1. \A u \in In(t) : <<u, b>> \in DatagramOrder
      BY <1>1 DEF DatagramOrder, InOrder, PutTogether
    <2> QED
      BY <2>1, OrderedAppend DEF InOrder, PutTogether
  <1>4. \A x \in In(b), f \in In(l) : Before(x, f.part)
    BY DEF InOrder, Arriving
  <1>5. PutTogether(l, <<>>, Append(t, b), S)
    BY <1>1, <1>2, <1>3, <1>4, EmptyIn DEF InOrder, PutTogether
  <1>6. Arriving(l, <<>>, S)
    BY EmptyIn, OrderedEmpty DEF InOrder, Arriving
  <1> QED
    BY <1>5, <1>6 DEF InOrder

(***************************************************************************)
(* The actions.                                                            *)
(***************************************************************************)
\* What was sent stays sent.
LEMMA SentKept ==
  ASSUME IInvType, OrderInv, [Next]_vars
  PROVE  /\ SentParts \subseteq SentParts'
         /\ (total > 0 => nextPart <= total)'
  <1>1. /\ serial \in Nat /\ total \in Nat /\ nextPart \in Nat \ {0}
        /\ total > 0 => nextPart <= total
    BY IPv4Assumption DEF IInvType, TypeOK, OrderInv
  <1>2. ASSUME NEW n \in 1 .. MaxFrags, Call(n)
        PROVE  /\ SentParts \subseteq SentParts'
               /\ (total > 0 => nextPart <= total)'
    BY <1>1, <1>2, PartType, IPv4Assumption DEF Call, SentParts
  <1>3. ASSUME total > 0, Advance
        PROVE  /\ SentParts \subseteq SentParts'
               /\ (total > 0 => nextPart <= total)'
    <2>1. CASE nextPart < total
      BY <1>1, <1>3, <2>1, PartType DEF Advance, SentParts
    <2>2. CASE ~ (nextPart < total)
      BY <1>1, <1>3, <2>2, PartType DEF Advance, SentParts
    <2> QED
      BY <2>1, <2>2
  <1>4. CASE SendFragment \/ SendToOther
    BY <1>3, <1>4 DEF SendFragment, SendToOther
  <1>5. CASE GiveUp
    <2>1. total > 0 /\ total' = 0 /\ serial' = (IF nextPart = 1 THEN serial ELSE serial + 1)
      BY <1>5 DEF GiveUp
    <2> QED
      BY <1>1, <2>1, PartType DEF SentParts
  <1>6. CASE Learn \/ Lose \/ Pause \/ Receive \/ HandOut \/ UNCHANGED vars
    <2>1. UNCHANGED <<serial, total, nextPart>>
      BY <1>6
      DEF Learn, Lose, Pause, Receive, ReceiveLate, ReceiveMore, ReceiveLast,
          ReceiveOutOfStep, TakeFrame, HandOut, vars, sender
    <2> QED
      BY <1>1, <2>1 DEF SentParts
  <1> QED
    BY <1>2, <1>4, <1>5, <1>6 DEF Next

\* The frame that SendFragment makes holds a part that comes after all that
\* were sent.
LEMMA FrameIsNext ==
  ASSUME IInvType, OrderInv, total > 0, Advance
  PROVE  /\ Frame \in Frames
         /\ Frame.part \in SentParts'
         /\ \A x \in SentParts : Before(x, Frame.part)
  <1>1. /\ serial \in 0 .. MaxDatagrams /\ total \in 1 .. MaxFrags
        /\ nextPart \in 1 .. MaxFrags /\ nextPart <= total
        /\ ip_packet_id \in 0 .. IdMod - 1
    BY IPv4Assumption DEF IInvType, TypeOK, OrderInv
  <1>2. Frame \in Frames
    BY <1>1 DEF Frame, Frames, Part, Parts
  <1> DEFINE x == Frame.part
  <1>3. x \in Parts /\ x.serial = serial /\ x.k = nextPart /\ x.n = total
    BY <1>2, PartType DEF Frame, Part
  <1> HIDE DEF x
  <1>4. x \in SentParts'
    BY <1>1, <1>3, IPv4Assumption DEF Advance, SentParts
  <1>5. \A y \in SentParts : Before(y, x)
    BY <1>1, <1>3 DEF SentParts, Before
  <1> QED
    BY <1>2, <1>4, <1>5 DEF x

\* Every receive takes the first frame of the link; what it does with it is
\* one of the steps above.
LEMMA OrderReceive ==
  ASSUME IInvType, OrderInv, Receive
  PROVE  InOrder(link', data_buffer', Built', SentParts)
  <1>1. /\ link # <<>> /\ link' = Tail(link) /\ handed' = handed
    BY DEF Receive, ReceiveLate, ReceiveMore, ReceiveLast, ReceiveOutOfStep, TakeFrame
  <1>2. /\ link \in Seq(Frames) /\ data_buffer \in Seq(Parts)
        /\ handed \in Seq(Seq(Parts)) /\ pool \in Seq(Seq(Parts))
        /\ Built \in Seq(Seq(Parts))
    BY OrderTypes
  <1> DEFINE x == Head(link).part
             b == Append(data_buffer, x)
  <1>3. Tail(link) \in Seq(Frames) /\ Head(link) \in Frames /\ Head(link) \in In(link)
    BY <1>1, <1>2, InTail
  <1>4. InOrder(link, data_buffer, Built, SentParts)
    BY DEF OrderInv
  <1>5. x \in Parts /\ x \in SentParts
    BY <1>3, <1>4, PartType DEF InOrder, Arriving
  <1>6. InOrder(Tail(link), data_buffer, Built, SentParts)
    BY <1>1, <1>2, <1>4, OrderDrop
  <1>7. InOrder(Tail(link), b, Built, SentParts)
    BY <1>1, <1>2, <1>4, OrderTake
  <1>8. CASE ReceiveLate
    BY <1>1, <1>6, <1>8 DEF ReceiveLate, Built
  <1>9. CASE ReceiveMore
    BY <1>1, <1>7, <1>9 DEF ReceiveMore, Built
  <1>10. CASE ReceiveOutOfStep
    <2>1. InOrder(Tail(link), <<>>, Built, SentParts)
      BY <1>6, OrderClear
    <2> QED
      BY <1>1, <1>10, <2>1 DEF ReceiveOutOfStep, Built
  <1>11. CASE ReceiveLast
    <2>1. /\ pool' = Append(pool, b) /\ data_buffer' = <<>>
          /\ ~ (x.k < x.n)
      BY <1>11 DEF ReceiveLast, MoreFragments
    <2> HIDE DEF x
    <2>2. x.k = x.n
      BY <1>5, <2>1, PartType DEF SentParts
    <2>3. b \in Seq(Parts) /\ b # <<>> /\ b[Len(b)] = x
      BY <1>2, <1>5, InAppend, AppendLast
    <2>4. Built' = Append(Built, b)
      <3> HIDE DEF b
      <3> QED
        BY <1>1, <1>2, <2>1, <2>3, AppendBoth DEF Built
    <2> HIDE DEF b
    <2>5. InOrder(Tail(link), <<>>, Append(Built, b), SentParts)
      BY <1>2, <1>3, <1>7, <2>2, <2>3, OrderClose
    <2> QED
      BY <1>1, <2>1, <2>4, <2>5
  <1> QED
    BY <1>8, <1>9, <1>10, <1>11 DEF Receive

LEMMA OrderStep == IInvType /\ OrderInv /\ [Next]_vars => OrderInv'
  <1> SUFFICES ASSUME IInvType, OrderInv, [Next]_vars PROVE OrderInv'
    OBVIOUS
  <1>1. /\ SentParts \subseteq SentParts'
        /\ (total > 0 => nextPart <= total)'
    BY SentKept
  <1>2. /\ link \in Seq(Frames) /\ data_buffer \in Seq(Parts)
        /\ handed \in Seq(Seq(Parts)) /\ pool \in Seq(Seq(Parts))
        /\ Built \in Seq(Seq(Parts))
    BY OrderTypes
  <1>3. InOrder(link, data_buffer, Built, SentParts)
    BY DEF OrderInv
  <1>4. InOrder(link', data_buffer', Built', SentParts')
    <2>1. CASE SendFragment
      <3>1. /\ total > 0 /\ Advance /\ link' = Append(link, Frame)
            /\ data_buffer' = data_buffer /\ Built' = Built
        BY <2>1 DEF SendFragment, receiver, Built
      <3>2. /\ Frame \in Frames
            /\ Frame.part \in SentParts'
            /\ \A x \in SentParts : Before(x, Frame.part)
        BY <3>1, FrameIsNext
      <3> QED
        BY <1>1, <1>2, <1>3, <3>1, <3>2, OrderPut
    <2>2. CASE Receive
      BY <1>1, <2>2, OrderReceive, OrderGrow
    <2>3. CASE Lose
      <3>1. /\ link # <<>> /\ link' = Tail(link)
            /\ data_buffer' = data_buffer /\ Built' = Built
        BY <2>3 DEF Lose, receiver, Built
      <3>2. InOrder(Tail(link), data_buffer, Built, SentParts)
        BY <1>2, <1>3, <3>1, OrderDrop
      <3> QED
        BY <1>1, <3>1, <3>2, OrderGrow
    <2>4. CASE HandOut
      <3>1. /\ pool # <<>> /\ handed' = Append(handed, Head(pool)) /\ pool' = Tail(pool)
            /\ link' = link /\ data_buffer' = data_buffer
        BY <2>4 DEF HandOut
      <3>2. Built' = Built
        BY <1>2, <3>1, MoveHead DEF Built
      <3> QED
        BY <1>1, <1>3, <3>1, <3>2, OrderGrow
    <2>5. CASE \/ \E n \in 1 .. MaxFrags : Call(n)
               \/ SendToOther \/ GiveUp \/ Learn \/ Pause \/ UNCHANGED vars
      <3>1. link' = link /\ data_buffer' = data_buffer /\ Built' = Built
        BY <2>5
        DEF Call, SendToOther, GiveUp, Learn, Pause, vars, receiver, Built
      <3> QED
        BY <1>1, <1>3, <3>1, OrderGrow
    <2> QED
      BY <2>1, <2>2, <2>3, <2>4, <2>5 DEF Next
  <1> QED
    BY <1>1, <1>4 DEF OrderInv

LEMMA OrderInit == Init => OrderInv
  <1> SUFFICES ASSUME Init PROVE OrderInv
    OBVIOUS
  <1>1. link = <<>> /\ data_buffer = <<>> /\ Built = <<>> /\ ~ (total > 0)
    BY DEF Init, Built
  <1> QED
    BY <1>1, EmptyIn, OrderedEmpty DEF OrderInv, InOrder, Arriving, PutTogether

LEMMA OrderInvariant == Spec => []OrderInv
  BY OrderInit, OrderStep, IInvTypeInvariant, PTL DEF Spec

(***************************************************************************)
(* What thread_ip_handout hands up.                                        *)
(***************************************************************************)
\* A datagram handed up was put together, and so were two of them in order.
LEMMA HandedUp ==
  ASSUME IInvType, OrderInv
  PROVE  /\ \A i \in 1 .. Len(handed) :
              /\ handed[i] \in Seq(Parts) /\ handed[i] \in In(Built)
              /\ Closed(handed[i]) /\ In(handed[i]) \subseteq SentParts
         /\ \A i, j \in 1 .. Len(handed) : i < j =>
              \A x \in In(handed[i]), y \in In(handed[j]) : Before(x, y)
  <1>1. /\ handed \in Seq(Seq(Parts)) /\ pool \in Seq(Seq(Parts))
        /\ Built \in Seq(Seq(Parts))
    BY OrderTypes
  <1>2. /\ Len(handed) \in Nat /\ Len(Built) \in Nat /\ Len(handed) <= Len(Built)
        /\ DOMAIN Built = 1 .. Len(Built)
        /\ \A i \in 1 .. Len(handed) : Built[i] = handed[i]
    BY <1>1, ConcatProperties, LenProperties DEF Built
  <1>3. \A i \in 1 .. Len(handed) : handed[i] \in In(Built)
    BY <1>2 DEF In
  <1>4. \A i, j \in 1 .. Len(handed) : i < j => <<handed[i], handed[j]>> \in DatagramOrder
    BY <1>2 DEF OrderInv, InOrder, PutTogether, Ordered
  <1>5. \A i, j \in 1 .. Len(handed) : i < j =>
          \A x \in In(handed[i]), y \in In(handed[j]) : Before(x, y)
    BY <1>4 DEF DatagramOrder
  <1>6. \A i \in 1 .. Len(handed) : handed[i] \in Seq(Parts)
    BY <1>1, ElementOfSeq
  <1> QED
    BY <1>3, <1>5, <1>6 DEF OrderInv, InOrder, PutTogether

LEMMA OrderGivesInOrderOnce == IInvType /\ OrderInv => InOrderOnce
  <1> SUFFICES ASSUME IInvType, OrderInv,
                      NEW i \in 1 .. Len(handed), NEW j \in 1 .. Len(handed), i < j
               PROVE  handed[i][1].serial < handed[j][1].serial
    BY DEF InOrderOnce
  <1> DEFINE u == handed[i]
             v == handed[j]
             m == Len(u)
  <1>1. /\ u \in Seq(Parts) /\ Closed(u) /\ v \in Seq(Parts) /\ Closed(v)
        /\ In(v) \subseteq SentParts
        /\ \A x \in In(u), y \in In(v) : Before(x, y)
    BY HandedUp
  <1> HIDE DEF u, v
  <1>2. /\ m \in Nat /\ m >= 1 /\ DOMAIN u = 1 .. m /\ DOMAIN v = 1 .. Len(v)
        /\ Len(v) \in Nat /\ Len(v) >= 1
    BY <1>1, LenProperties, EmptySeq DEF Closed
  <1> HIDE DEF m
  <1>3. /\ u[1] \in In(u) /\ u[m] \in In(u) /\ v[1] \in In(v)
        /\ In(u) \subseteq Parts /\ In(v) \subseteq Parts
    BY <1>1, <1>2, InType DEF In
  <1>4. m = 1 \/ Before(u[1], u[m])
    <2>1. CASE 1 < m
      <3>1. <<u[1], u[m]>> \in PartOrder
        BY <1>1, <1>2, <2>1 DEF Closed, Ordered
      <3> QED
        BY <3>1 DEF PartOrder
    <2> QED
      BY <1>2, <2>1
  <1>5. u[1].serial <= u[m].serial
    BY <1>3, <1>4, PartType DEF Before
  <1>6. u[m].k = u[m].n /\ v[1].k <= v[1].n /\ Before(u[m], v[1])
    BY <1>1, <1>3 DEF Closed, SentParts, m
  <1>7. u[m].serial < v[1].serial
    BY <1>3, <1>6, PartType DEF Before
  <1>8. u[1].serial < v[1].serial
    BY <1>3, <1>5, <1>7, PartType
  <1> QED
    BY <1>8 DEF u, v

\* Whatever is lost and however long the line is silent, no datagram is handed
\* up twice or after a later one.
THEOREM InOrderOnceAlways == Spec => []InOrderOnce
  BY IInvTypeInvariant, OrderInvariant, OrderGivesInOrderOnce, PTL

(***************************************************************************)
(* Ids.  A frame's id is as far behind ip_packet_id as its datagram is     *)
(* behind the sender's, modulo the width of the id: so frames of one id    *)
(* that are about at the same time are of one datagram, if there are not   *)
(* more datagrams than ids.                                                *)
(***************************************************************************)
FewerThanIds == MaxDatagrams <= IdMod

\* Datagram d was sent under this id, if s is being sent under the id now.
Fits(id, d, s, now) == id + (s - d) \in {now, now + IdMod}

OneDatagram(u) == \A x, y \in In(u) : x.serial = y.serial

\* While the receiver's address is unknown nothing has reached it: ip_packet_id
\* may stay behind when a call gives up.
IdsInv ==
  /\ known \/ (link = <<>> /\ data_buffer = <<>>)
  /\ \A f \in In(link) : Fits(f.id, f.part.serial, serial, ip_packet_id)
  /\ \A x \in In(data_buffer) : Fits(ip_id, x.serial, serial, ip_packet_id)
  /\ \A u \in In(Built) : OneDatagram(u)

\* Stepping an id wraps it from the last to the first.
LEMMA WrapId ==
  ASSUME NEW a \in 0 .. IdMod - 1
  PROVE  (a + 1) % IdMod = IF a = IdMod - 1 THEN 0 ELSE a + 1
  BY IPv4Assumption

\* What was sent under an id still was when the sender has gone on.
LEMMA FitsKept ==
  ASSUME FewerThanIds, IInvType, total > 0, Advance,
         NEW id \in 0 .. IdMod - 1, NEW d \in 0 .. serial, Fits(id, d, serial, ip_packet_id)
  PROVE  Fits(id, d, serial', ip_packet_id')
  <1>1. /\ serial \in Nat /\ serial < MaxDatagrams /\ ip_packet_id \in 0 .. IdMod - 1
        /\ IdMod \in Nat \ {0} /\ MaxDatagrams \in Nat /\ MaxDatagrams <= IdMod
    BY IPv4Assumption DEF IInvType, TypeOK, FewerThanIds
  <1>2. CASE nextPart < total
    BY <1>2 DEF Advance, Fits
  <1>3. CASE ~ (nextPart < total)
    <2>1. /\ serial' = serial + 1
          /\ ip_packet_id' = IF ip_packet_id = IdMod - 1 THEN 0 ELSE ip_packet_id + 1
      BY <1>1, <1>3, WrapId DEF Advance
    <2>2. id + (serial - d) = ip_packet_id \/ id + (serial - d) = ip_packet_id + IdMod
      BY DEF Fits
    <2>3. \/ id + (serial' - d) = ip_packet_id'
          \/ id + (serial' - d) = ip_packet_id' + IdMod
      BY <1>1, <2>1, <2>2
    <2> QED
      BY <2>3 DEF Fits
  <1> QED
    BY <1>2, <1>3

\* Two parts sent under one id are of one datagram.
LEMMA SameId ==
  ASSUME FewerThanIds, IInvType, NEW id \in 0 .. IdMod - 1,
         NEW x \in SentParts, NEW y \in SentParts,
         Fits(id, x.serial, serial, ip_packet_id),
         Fits(id, y.serial, serial, ip_packet_id)
  PROVE  x.serial = y.serial
  <1>1. /\ serial \in Nat /\ total \in Nat /\ serial <= MaxDatagrams
        /\ total > 0 => serial < MaxDatagrams
        /\ IdMod \in Nat \ {0} /\ MaxDatagrams \in Nat /\ MaxDatagrams <= IdMod
        /\ ip_packet_id \in 0 .. IdMod - 1
    BY IPv4Assumption DEF IInvType, TypeOK, FewerThanIds
  <1>2. \A z \in SentParts : z.serial \in 0 .. serial /\ z.serial < MaxDatagrams
    <2> SUFFICES ASSUME NEW z \in SentParts
                 PROVE  z.serial \in 0 .. serial /\ z.serial < MaxDatagrams
      OBVIOUS
    <2> DEFINE c == z.serial
    <2>1. c \in Nat /\ (c < serial \/ (c = serial /\ total > 0))
      BY PartType DEF SentParts
    <2> HIDE DEF c
    <2>2. c \in 0 .. serial /\ c < MaxDatagrams
      BY <1>1, <2>1
    <2> QED
      BY <2>2 DEF c
  <1> DEFINE a == x.serial
             b == y.serial
  <1>3. /\ a \in 0 .. serial /\ a < MaxDatagrams
        /\ b \in 0 .. serial /\ b < MaxDatagrams
    BY <1>2
  <1>4. /\ id + (serial - a) = ip_packet_id \/ id + (serial - a) = ip_packet_id + IdMod
        /\ id + (serial - b) = ip_packet_id \/ id + (serial - b) = ip_packet_id + IdMod
    BY DEF Fits
  <1> HIDE DEF a, b
  <1>5. a = b
    BY <1>1, <1>3, <1>4
  <1> QED
    BY <1>5 DEF a, b

(***************************************************************************)
(* The actions keep the ids.                                               *)
(***************************************************************************)
\* The sender goes on, and puts on the link at most its frame.
LEMMA IdsSend ==
  ASSUME FewerThanIds, IInvType, OrderInv, IdsInv,
         SendFragment \/ SendToOther
  PROVE  IdsInv'
  <1>1. /\ total > 0 /\ Advance
        /\ ip_id' = ip_id /\ data_buffer' = data_buffer /\ Built' = Built
    BY DEF SendFragment, SendToOther, receiver, Built
  <1>2. /\ link \in Seq(Frames) /\ In(link) \subseteq Frames
        /\ data_buffer \in Seq(Parts) /\ In(data_buffer) \subseteq Parts
        /\ ip_id \in 0 .. IdMod - 1
    BY OrderTypes, InType DEF IInvType, TypeOK
  <1>3. \A x \in SentParts : x.serial \in 0 .. serial
    <2> SUFFICES ASSUME NEW z \in SentParts PROVE z.serial \in 0 .. serial
      OBVIOUS
    <2>1. /\ serial \in Nat /\ z.serial \in Nat
          /\ z.serial < serial \/ z.serial = serial
      BY PartType, IPv4Assumption DEF SentParts, IInvType, TypeOK
    <2> QED
      BY <2>1
  <1>4. /\ \A f \in In(link) : f.id \in 0 .. IdMod - 1 /\ f.part.serial \in 0 .. serial
        /\ \A x \in In(data_buffer) : x.serial \in 0 .. serial
    BY <1>2, <1>3, PartType DEF OrderInv, InOrder, Arriving
  <1>5. /\ \A f \in In(link) : Fits(f.id, f.part.serial, serial', ip_packet_id')
        /\ \A x \in In(data_buffer) : Fits(ip_id, x.serial, serial', ip_packet_id')
    BY <1>1, <1>2, <1>4, FitsKept DEF IdsInv
  <1>6. \A u \in In(Built') : OneDatagram(u)
    BY <1>1 DEF IdsInv
  <1>7. CASE SendToOther
    BY <1>1, <1>5, <1>6, <1>7 DEF SendToOther, IdsInv
  <1>8. CASE SendFragment
    <2>1. known' = TRUE /\ link' = Append(link, Frame)
      BY <1>8 DEF SendFragment
    <2>2. Frame \in Frames /\ Frame.id = ip_packet_id /\ Frame.part.serial = serial
      BY <1>1, FrameIsNext DEF Frame, Part
    <2>3. In(link') = In(link) \cup {Frame}
      BY <1>2, <2>1, <2>2, InAppend
    <2>4. /\ serial \in 0 .. serial /\ ip_packet_id \in 0 .. IdMod - 1
          /\ Fits(ip_packet_id, serial, serial, ip_packet_id)
      BY IPv4Assumption DEF IInvType, TypeOK, Fits
    <2>5. Fits(ip_packet_id, serial, serial', ip_packet_id')
      BY <1>1, <2>4, FitsKept
    <2> QED
      BY <1>1, <1>5, <1>6, <2>1, <2>2, <2>3, <2>5 DEF IdsInv
  <1> QED
    BY <1>7, <1>8

\* The receiver takes a frame.  What it adds to the buffer was sent under
\* ip_id, and so was what is in it.
LEMMA IdsReceive ==
  ASSUME FewerThanIds, IInvType, OrderInv, IdsInv, Receive
  PROVE  IdsInv'
  <1>1. /\ link # <<>> /\ link' = Tail(link)
        /\ UNCHANGED <<serial, total, nextPart, ip_packet_id, known, handed>>
    BY DEF Receive, ReceiveLate, ReceiveMore, ReceiveLast, ReceiveOutOfStep, TakeFrame,
           sender
  <1>2. /\ link \in Seq(Frames) /\ data_buffer \in Seq(Parts)
        /\ handed \in Seq(Seq(Parts)) /\ pool \in Seq(Seq(Parts))
        /\ Built \in Seq(Seq(Parts))
    BY OrderTypes
  <1>3. ip_id \in 0 .. IdMod - 1
    BY DEF IInvType, TypeOK
  <1> DEFINE f == Head(link)
             x == Head(link).part
             b == Append(data_buffer, x)
  <1>4. /\ f \in Frames /\ f \in In(link)
        /\ In(Tail(link)) \subseteq In(link)
    BY <1>1, <1>2, InTail
  <1>5. /\ x \in Parts /\ x \in SentParts /\ In(data_buffer) \subseteq SentParts
        /\ Fits(f.id, x.serial, serial, ip_packet_id)
    BY <1>4, PartType DEF OrderInv, InOrder, Arriving, IdsInv
  <1>6. /\ known'
        /\ \A g \in In(link') : Fits(g.id, g.part.serial, serial', ip_packet_id')
    BY <1>1, <1>4 DEF IdsInv
  <1>7. b \in Seq(Parts) /\ In(b) = In(data_buffer) \cup {x}
    <2> HIDE DEF x
    <2> QED
      BY <1>2, <1>5, InAppend
  <1>8. ASSUME f.id = ip_id
        PROVE  /\ In(b) \subseteq SentParts
               /\ \A y \in In(b) : Fits(ip_id, y.serial, serial, ip_packet_id)
    <2> HIDE DEF f, x, b
    <2> QED
      BY <1>5, <1>7, <1>8 DEF IdsInv
  <1>9. CASE ReceiveLate
    BY <1>1, <1>6, <1>9 DEF ReceiveLate, IdsInv, Built
  <1>10. CASE ReceiveOutOfStep
    <2>1. data_buffer' = <<>> /\ Built' = Built
      BY <1>1, <1>10 DEF ReceiveOutOfStep, Built
    <2> QED
      BY <1>6, <2>1, EmptyIn DEF IdsInv
  <1>11. CASE ReceiveMore
    <2>1. f.id = ip_id /\ data_buffer' = b /\ ip_id' = ip_id /\ Built' = Built
      BY <1>1, <1>11 DEF ReceiveMore, Built
    <2> HIDE DEF f, b
    <2> QED
      BY <1>1, <1>6, <1>8, <2>1 DEF IdsInv
  <1>12. CASE ReceiveLast
    <2>1. f.id = ip_id /\ data_buffer' = <<>> /\ pool' = Append(pool, b)
      BY <1>12 DEF ReceiveLast
    <2> HIDE DEF f, b
    <2>2. OneDatagram(b)
      BY <1>3, <1>8, <2>1, SameId DEF OneDatagram
    <2>3. Built' = Append(Built, b)
      BY <1>1, <1>2, <1>7, <2>1, AppendBoth DEF Built
    <2>4. In(Built') = In(Built) \cup {b}
      BY <1>2, <1>7, <2>3, InAppend
    <2> QED
      BY <1>6, <2>1, <2>2, <2>4, EmptyIn DEF IdsInv
  <1> QED
    BY <1>9, <1>10, <1>11, <1>12 DEF Receive

LEMMA IdsStep ==
  ASSUME FewerThanIds
  PROVE  IInvType /\ OrderInv /\ IdsInv /\ [Next]_vars => IdsInv'
  <1> SUFFICES ASSUME IInvType, OrderInv, IdsInv, [Next]_vars PROVE IdsInv'
    OBVIOUS
  <1>1. /\ link \in Seq(Frames)
        /\ handed \in Seq(Seq(Parts)) /\ pool \in Seq(Seq(Parts))
    BY OrderTypes
  <1>2. CASE SendFragment \/ SendToOther
    BY <1>2, IdsSend
  <1>3. CASE Receive
    BY <1>3, IdsReceive
  <1>4. CASE GiveUp
    <2>1. /\ ~ known /\ known' = known /\ link' = link /\ data_buffer' = data_buffer
          /\ Built' = Built
      BY <1>4 DEF GiveUp, receiver, Built
    <2> QED
      BY <2>1, EmptyIn DEF IdsInv
  <1>5. CASE Lose
    <2>1. /\ link # <<>> /\ link' = Tail(link)
          /\ UNCHANGED <<serial, ip_packet_id, known, ip_id, data_buffer>>
          /\ Built' = Built
      BY <1>5 DEF Lose, sender, receiver, Built
    <2>2. In(Tail(link)) \subseteq In(link)
      BY <1>1, <2>1, InTail
    <2> QED
      BY <2>1, <2>2 DEF IdsInv
  <1>6. CASE HandOut
    <2>1. /\ pool # <<>> /\ handed' = Append(handed, Head(pool)) /\ pool' = Tail(pool)
          /\ UNCHANGED <<serial, ip_packet_id, known, link, ip_id, data_buffer>>
      BY <1>6 DEF HandOut, sender
    <2>2. Built' = Built
      BY <1>1, <2>1, MoveHead DEF Built
    <2> QED
      BY <2>1, <2>2 DEF IdsInv
  <1>7. CASE \/ \E n \in 1 .. MaxFrags : Call(n)
             \/ Learn \/ Pause \/ UNCHANGED vars
    <2>1. /\ UNCHANGED <<serial, ip_packet_id, link, ip_id, data_buffer>>
          /\ Built' = Built
          /\ known => known'
      BY <1>7 DEF Call, Learn, Pause, vars, sender, receiver, Built
    <2> QED
      BY <2>1 DEF IdsInv
  <1> QED
    BY <1>2, <1>3, <1>4, <1>5, <1>6, <1>7 DEF Next

LEMMA IdsInvariant == ASSUME FewerThanIds PROVE Spec => []IdsInv
  <1>1. Init => IdsInv
    <2> SUFFICES ASSUME Init PROVE IdsInv
      OBVIOUS
    <2>1. link = <<>> /\ data_buffer = <<>> /\ Built = <<>>
      BY DEF Init, Built
    <2> QED
      BY <2>1, EmptyIn DEF IdsInv
  <1> QED
    BY <1>1, IdsStep, IInvTypeInvariant, OrderInvariant, PTL DEF Spec

LEMMA IdsGiveNoMixing == IInvType /\ OrderInv /\ IdsInv => NoMixing
  <1> SUFFICES ASSUME IInvType, OrderInv, IdsInv, NEW i \in 1 .. Len(handed)
               PROVE  /\ \A a, b \in 1 .. Len(handed[i]) :
                           /\ handed[i][a].serial = handed[i][b].serial
                           /\ a < b => handed[i][a].k < handed[i][b].k
                      /\ handed[i][Len(handed[i])].k = handed[i][Len(handed[i])].n
    BY DEF NoMixing
  <1> DEFINE u == handed[i]
  <1>1. /\ u \in Seq(Parts) /\ Closed(u) /\ OneDatagram(u)
    BY HandedUp DEF IdsInv
  <1> HIDE DEF u
  <1>2. DOMAIN u = 1 .. Len(u)
    BY <1>1, LenProperties
  <1>3. ASSUME NEW a \in 1 .. Len(u), NEW b \in 1 .. Len(u)
        PROVE  /\ u[a].serial = u[b].serial
               /\ a < b => u[a].k < u[b].k
    <2>1. u[a].serial = u[b].serial
      BY <1>1, <1>2 DEF OneDatagram, In
    <2>2. u[a] \in Parts /\ u[b] \in Parts
      BY <1>1, ElementOfSeq
    <2>3. ASSUME a < b PROVE u[a].k < u[b].k
      <3>1. <<u[a], u[b]>> \in PartOrder
        BY <1>1, <1>2, <2>3 DEF Closed, Ordered
      <3>2. Before(u[a], u[b])
        BY <3>1 DEF PartOrder
      <3> QED
        BY <2>1, <2>2, <3>2, PartType DEF Before
    <2> QED
      BY <2>1, <2>3
  <1> QED
    BY <1>1, <1>3 DEF Closed, u

\* If there are not more datagrams than ids, what is handed up has fragments
\* of one datagram only, in order and once each, the last one included,
\* although the receiver looks at no offset.
THEOREM NoMixingAlways == ASSUME FewerThanIds PROVE Spec => []NoMixing
  BY IInvTypeInvariant, OrderInvariant, IdsInvariant, IdsGiveNoMixing, PTL

(***************************************************************************)
(* How far a receiver is behind.                                           *)
(***************************************************************************)
LEMMA ModSmall ==
  ASSUME NEW M \in Nat \ {0}, NEW x \in 0 .. M - 1
  PROVE  x % M = x
  OBVIOUS

LEMMA ModBelow ==
  ASSUME NEW M \in Nat \ {0}, NEW x \in 0 - M .. 0 - 1
  PROVE  x % M = x + M
  OBVIOUS

\* The difference of two ids does not change when both move on.
LEMMA GapOfNext ==
  ASSUME NEW a \in 0 .. IdMod - 1, NEW b \in 0 .. IdMod - 1,
         NEW p, p = (a + 1) % IdMod, NEW q, q = (b + 1) % IdMod
  PROVE  (p - q) % IdMod = (a - b) % IdMod
  <1>1. IdMod \in Nat \ {0}
    BY IPv4Assumption
  <1>2. /\ p = IF a = IdMod - 1 THEN 0 ELSE a + 1
        /\ q = IF b = IdMod - 1 THEN 0 ELSE b + 1
    BY WrapId
  <1> DEFINE M == IdMod
  <1>3. M \in Nat \ {0} /\ a \in 0 .. M - 1 /\ b \in 0 .. M - 1
    BY <1>1
  <1> HIDE DEF M
  <1>4. CASE a # M - 1 /\ b # M - 1
    BY <1>2, <1>3, <1>4 DEF M
  <1>5. CASE a = M - 1 /\ b = M - 1
    BY <1>2, <1>3, <1>5 DEF M
  <1>6. CASE a = M - 1 /\ b # M - 1
    <2> DEFINE x == 0 - (b + 1)
               y == M - 1 - b
    <2>1. /\ x \in 0 - M .. 0 - 1 /\ y \in 0 .. M - 1 /\ x + M = y
          /\ p - q = x /\ a - b = y
      BY <1>2, <1>3, <1>6 DEF M
    <2> HIDE DEF x, y
    <2>2. x % M = y /\ y % M = y
      BY <1>3, <2>1, ModBelow, ModSmall
    <2> QED
      BY <2>1, <2>2 DEF M
  <1>7. CASE a # M - 1 /\ b = M - 1
    <2> DEFINE x == a - (M - 1)
               y == a + 1
    <2>1. /\ x \in 0 - M .. 0 - 1 /\ y \in 0 .. M - 1 /\ x + M = y
          /\ p - q = y /\ a - b = x
      BY <1>2, <1>3, <1>7 DEF M
    <2> HIDE DEF x, y
    <2>2. x % M = y /\ y % M = y
      BY <1>3, <2>1, ModBelow, ModSmall
    <2> QED
      BY <2>1, <2>2 DEF M
  <1> QED
    BY <1>4, <1>5, <1>6, <1>7

\* A frame that is not a fragment moves ip_id on, whether it is taken or not.
LEMMA GapStep ==
  ASSUME IInvType, OrderInv, Receive, timer # "old", Len(link) > 1,
         link[1].part.n = 1, link[2].id = (link[1].id + 1) % IdMod
  PROVE  Gap(link'[1], ip_id') = Gap(link[1], ip_id)
  <1>1. link \in Seq(Frames) /\ ip_id \in 0 .. IdMod - 1
    BY OrderTypes DEF IInvType, TypeOK
  <1>2. /\ Len(link) \in Nat /\ link # <<>> /\ Head(link) = link[1]
        /\ link[1] \in Frames /\ link[1] \in In(link)
        /\ Tail(link)[1] = link[2]
    <2>1. link # <<>> /\ Len(link) \in Nat
      BY <1>1, LenProperties, EmptySeq
    <2>2. Len(Tail(link)) = Len(link) - 1 /\ Tail(link)[1] = link[2] /\ Head(link) = link[1]
      BY <1>1, <2>1, HeadTailProperties
    <2> QED
      BY <1>1, <2>1, <2>2, InTail
  <1>3. /\ ~ MoreFragments(Head(link)) /\ link' = Tail(link)
        /\ ip_id' = (ip_id + 1) % IdMod
    <2>1. ~ MoreFragments(Head(link))
      BY <1>2, PartType DEF MoreFragments
    <2> QED
      BY <2>1 DEF Receive, ReceiveLate, ReceiveMore, ReceiveLast, ReceiveOutOfStep, TakeFrame
  <1>4. link[1].id \in 0 .. IdMod - 1
    BY <1>2, PartType
  <1> DEFINE a == link[1].id
  <1>5. link'[1] = link[2] /\ link[2].id = (a + 1) % IdMod
    BY <1>2, <1>3
  <1>6. a \in 0 .. IdMod - 1
    BY <1>4
  <1> DEFINE p == link'[1].id
             q == ip_id'
  <1>7. p = (a + 1) % IdMod /\ q = (ip_id + 1) % IdMod
    BY <1>3, <1>5
  <1> HIDE DEF a, p, q
  <1>8. (p - q) % IdMod = (a - ip_id) % IdMod
    BY <1>1, <1>6, <1>7, GapOfNext
  <1> QED
    BY <1>8 DEF Gap, a, p, q

\* A receiver that has fallen behind the sender's ids never catches up by
\* receiving unfragmented datagrams, whatever the width of the ids.
THEOREM GapPersistsAlways == Spec => GapPersists
  <1>1. IInvType /\ OrderInv /\ [Next]_vars =>
          [/\ Receive /\ timer # "old" /\ Len(link) > 1
           /\ link[1].part.n = 1
           /\ link[2].id = (link[1].id + 1) % IdMod
           => Gap(link'[1], ip_id') = Gap(link[1], ip_id)]_vars
    BY GapStep
  <1> QED
    BY <1>1, IInvTypeInvariant, OrderInvariant, PTL DEF Spec, GapPersists
==============================================================================
