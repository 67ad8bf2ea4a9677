--------------------------- MODULE TcpSession_proofs ---------------------------
(***************************************************************************)
(* Theorems about TcpSession, for any number of clients, with every size   *)
(* of buffer, window, ring and request queue, any number of calls and any  *)
(* number of lost and stray segments: accept connects the two sides it     *)
(* should, a request is in one place, the numbers stay in their windows,   *)
(* and what recv has in its buffer is explained.                           *)
(***************************************************************************)
EXTENDS TcpSession, SequenceContents, FiniteSetTheorems, TLAPS

(***************************************************************************)
(* Types, as far as the proof needs them.                                  *)
(***************************************************************************)
Segs ==
  [from : Clients, flags : SUBSET {"SYN", "ACK"}, seq : Int, number : Int,
   data : [call : Int, at : Int]]

ClientRecords ==
  [at : {"start", "connect", "send", "wait", "done"}, init : Nat, seq : Int,
   serverInit : Int, call : Int, start : Int, front : Int]

ServerRecords ==
  [at : {"accept", "accepting", "recv", "acknowledge", "done"},
   peer : Clients \cup {Nobody}, init : Int, clientInit : Int, call : Int, start : Int]

Types ==
  /\ client \in [Clients -> ClientRecords]
  /\ \A c \in Clients : client[c].start < BufLen
  /\ toServer \in [Clients -> Seq(Segs)]
  /\ toClient \in [Clients -> Seq(Segs)]
  /\ ring \in Seq(Segs)
  /\ listener \in [at : {"look", "return", "queue"}, syn : Seq(Segs)]
  /\ requests \in Seq(Segs)
  /\ server \in ServerRecords
  /\ server.at # "accept" => server.peer \in Clients

LEMMA InSegs ==
  ASSUME NEW s \in Seq(Segs)
  PROVE  In(s) \subseteq Segs
  BY ElementOfSeq, LenProperties DEF In

LEMMA SegmentType ==
  ASSUME NEW c \in Clients, NEW flags \in SUBSET {"SYN", "ACK"}, NEW seq \in Int,
         NEW number \in Int, NEW data \in [call : Int, at : Int]
  PROVE  Segment(c, flags, seq, number, data) \in Segs
  BY DEF Segment, Segs

LEMMA NoDataType == NoData \in [call : Int, at : Int]
  BY DEF NoData

LEMMA Sizes == BufLen \in Nat \ {0} /\ Window \in Nat \ {0} /\ Seqs \subseteq Nat
  BY SessionAssumption

\* One segment taken from the head of one of the queues, or put behind it.
LEMMA QueueTail ==
  ASSUME NEW q \in [Clients -> Seq(Segs)], NEW c \in Clients, q[c] # <<>>
  PROVE  [q EXCEPT ![c] = Tail(@)] \in [Clients -> Seq(Segs)]
  BY InTail

LEMMA QueueAppend ==
  ASSUME NEW q \in [Clients -> Seq(Segs)], NEW c \in Clients, NEW seg \in Segs
  PROVE  [q EXCEPT ![c] = Append(@, seg)] \in [Clients -> Seq(Segs)]
  BY InAppend

(***************************************************************************)
(* Types.                                                                  *)
(***************************************************************************)
LEMMA InitTypes == Init => Types
  <1> SUFFICES ASSUME Init PROVE Types
    OBVIOUS
  <1>1. <<>> \in Seq(Segs)
    BY EmptySeq
  <1> QED
    BY <1>1, Sizes DEF Init, Types, ClientRecords, ServerRecords

\* A function on 1 .. n is a sequence of what its values are in.
LEMMA SequenceOf ==
  ASSUME NEW S, NEW n \in Nat, NEW w, w = [i \in 1 .. n |-> w[i]],
         \A i \in 1 .. n : w[i] \in S
  PROVE  w \in Seq(S)
  <1>1. w \in [1 .. n -> S]
    OBVIOUS
  <1> QED
    BY <1>1, SeqDef

\* The segments of a window have their types, and no flags.
LEMMA WindowType ==
  ASSUME Types, NEW c \in Clients
  PROVE  LET me == client[c]
             offset(i) == IF i = 1 THEN me.front ELSE me.start + i - 1
             window == [i \in 1 .. WinEnd(me.start) - me.start |->
                          Segment(c, {}, me.seq + offset(i), 0,
                                  [call |-> me.call, at |-> offset(i)])]
         IN  /\ window \in Seq(Segs)
             /\ \A seg \in In(window) : seg.flags = {}
  <1> DEFINE me == client[c]
             offset(i) == IF i = 1 THEN me.front ELSE me.start + i - 1
             n == WinEnd(me.start) - me.start
             piece(i) == Segment(c, {}, me.seq + offset(i), 0,
                                 [call |-> me.call, at |-> offset(i)])
             window == [i \in 1 .. n |-> piece(i)]
  <1>1. /\ me.start \in Int /\ me.start < BufLen /\ me.front \in Int
        /\ me.seq \in Int /\ me.call \in Int
    BY DEF Types, ClientRecords
  <1>2. n \in Nat
    BY <1>1, Sizes DEF WinEnd
  <1>3. \A i \in 1 .. n : piece(i) \in Segs /\ piece(i).flags = {}
    <2> TAKE i \in 1 .. n
    <2>1. offset(i) \in Int /\ me.seq + offset(i) \in Int
      BY <1>1
    <2>2. piece(i) \in Segs
      BY <2>1, <1>1, SegmentType
    <2> QED
      BY <2>2 DEF Segment
  <1> HIDE DEF n, piece
  <1>4. /\ DOMAIN window = 1 .. n
        /\ \A i \in 1 .. n : window[i] = piece(i)
        /\ window = [i \in 1 .. n |-> window[i]]
    OBVIOUS
  <1> HIDE DEF window
  <1>5. \A i \in 1 .. n : window[i] \in Segs /\ window[i].flags = {}
    BY <1>3, <1>4
  <1>6. window \in Seq(Segs)
    BY <1>2, <1>4, <1>5, SequenceOf
  <1>7. \A seg \in In(window) : seg.flags = {}
    BY <1>4, <1>5 DEF In
  <1> QED
    BY <1>6, <1>7 DEF window, n, piece

\* The window of SendWindow, as WindowType takes it.
LEMMA WindowStep ==
  ASSUME Types, NEW c \in Clients, SendWindow(c)
  PROVE  \E window \in Seq(Segs) :
           /\ \A seg \in In(window) : seg.flags = {}
           /\ toServer' = [toServer EXCEPT ![c] = @ \o window]
  <1> DEFINE me == client[c]
             offset(i) == IF i = 1 THEN me.front ELSE me.start + i - 1
             window == [i \in 1 .. WinEnd(me.start) - me.start |->
                          Segment(c, {}, me.seq + offset(i), 0,
                                  [call |-> me.call, at |-> offset(i)])]
  <1>1. window \in Seq(Segs) /\ \A seg \in In(window) : seg.flags = {}
    BY WindowType, Zenon
  <1>2. toServer' = [toServer EXCEPT ![c] = @ \o window]
    BY DEF SendWindow
  <1> QED
    BY <1>1, <1>2
\* A client's record replaced by another of its type.
LEMMA ClientUpdate ==
  ASSUME Types, NEW c \in Clients, NEW r \in ClientRecords, r.start < BufLen
  PROVE  /\ [client EXCEPT ![c] = r] \in [Clients -> ClientRecords]
         /\ \A d \in Clients : [client EXCEPT ![c] = r][d].start < BufLen
  BY DEF Types

\* A thread's segment leads to one of a right type on the other side.
LEMMA TypesStep == Types /\ [Next]_vars => Types'
  <1> SUFFICES ASSUME Types, [Next]_vars PROVE Types'
    OBVIOUS
  <1>0. <<>> \in Seq(Segs)
    BY EmptySeq
  <1>1. ASSUME NEW c \in Clients, Connect(c) PROVE Types'
    <2>1. PICK n \in Seqs :
            /\ client' = [client EXCEPT ![c].at = "connect", ![c].init = n, ![c].seq = n + 1]
            /\ toServer' = [toServer EXCEPT ![c] =
                              Append(@, Segment(c, {"SYN"}, n, 0, NoData))]
      BY <1>1 DEF Connect
    <2>2. n \in Nat /\ Segment(c, {"SYN"}, n, 0, NoData) \in Segs
      BY Sizes, NoDataType, SegmentType
    <2>3. toServer' \in [Clients -> Seq(Segs)]
      BY <2>1, <2>2, QueueAppend DEF Types
    <2>4. /\ client' \in [Clients -> ClientRecords]
          /\ \A d \in Clients : client'[d].start < BufLen
      <3> DEFINE r == [client[c] EXCEPT !.at = "connect", !.init = n, !.seq = n + 1]
      <3>0. client[c] \in ClientRecords /\ client[c].start < BufLen
        BY DEF Types
      <3>1. r \in ClientRecords /\ r.start < BufLen
        <4> DEFINE me == client[c]
                   next == n + 1
        <4>1. next \in Int /\ me \in ClientRecords /\ me.start < BufLen
          BY <2>2, <3>0
        <4> HIDE DEF me, next
        <4>2. LET q == [me EXCEPT !.at = "connect", !.init = n, !.seq = next]
              IN  q \in ClientRecords /\ q.start < BufLen
          BY <2>2, <4>1 DEF ClientRecords
        <4> QED
          BY <4>2 DEF me, next
      <3>2. client' = [client EXCEPT ![c] = r]
        BY <2>1 DEF Types
      <3> QED
        BY <3>1, <3>2, ClientUpdate
    <2> QED
      BY <1>1, <2>3, <2>4 DEF Types, Connect
  <1>2. ASSUME NEW c \in Clients, ConnectTake(c) PROVE Types'
    <2> DEFINE seg == Head(toClient[c])
    <2>1. seg \in Segs /\ toClient' \in [Clients -> Seq(Segs)]
      BY <1>2, InTail, QueueTail DEF ConnectTake, Types
    <2>2. seg.seq \in Int
      BY <2>1 DEF Segs
    <2>3. client[c].seq \in Int
      BY DEF Types, ClientRecords
    <2>4. Segment(c, {"ACK"}, client[c].seq, seg.seq + 1, NoData) \in Segs
      BY <2>2, <2>3, NoDataType, SegmentType
    <2>5. toServer' \in [Clients -> Seq(Segs)]
      <3> DEFINE ack == Segment(c, {"ACK"}, client[c].seq, seg.seq + 1, NoData)
      <3>1. \/ toServer' = [toServer EXCEPT ![c] = Append(@, ack)]
            \/ toServer' = toServer
        BY <1>2 DEF ConnectTake
      <3>2. ack \in Segs /\ toServer \in [Clients -> Seq(Segs)]
        BY <2>4 DEF Types
      <3> HIDE DEF ack
      <3>3. [toServer EXCEPT ![c] = Append(@, ack)] \in [Clients -> Seq(Segs)]
        BY <3>2, QueueAppend
      <3> QED
        BY <3>1, <3>2, <3>3
    <2>6. /\ client' \in [Clients -> ClientRecords]
          /\ \A d \in Clients : client'[d].start < BufLen
      <3> DEFINE r == [client[c] EXCEPT !.at = "send", !.serverInit = seg.seq, !.call = 1]
      <3>0. client[c] \in ClientRecords /\ client[c].start < BufLen
        BY DEF Types
      <3>1. r \in ClientRecords /\ r.start < BufLen
        <4> DEFINE me == client[c]
                   one == 1
                   n == seg.seq
        <4>1. one \in Int /\ n \in Int /\ me \in ClientRecords /\ me.start < BufLen
          BY <2>2, <3>0
        <4> HIDE DEF me, one, n
        <4>2. LET q == [me EXCEPT !.at = "send", !.serverInit = n, !.call = one]
              IN  q \in ClientRecords /\ q.start < BufLen
          BY <4>1 DEF ClientRecords
        <4> QED
          BY <4>2 DEF me, one, n
      <3>2. client' = [client EXCEPT ![c] = r] \/ client' = client
        BY <1>2 DEF ConnectTake, Types
      <3> HIDE DEF r
      <3>3. CASE client' = [client EXCEPT ![c] = r]
        BY <3>1, <3>3, ClientUpdate
      <3>4. CASE client' = client
        BY <3>4 DEF Types
      <3> QED
        BY <3>2, <3>3, <3>4
    <2> QED
      BY <1>2, <2>1, <2>5, <2>6 DEF ConnectTake, Types
  <1>3. ASSUME NEW c \in Clients, SendWindow(c) PROVE Types'
    <2>1. PICK window \in Seq(Segs) : toServer' = [toServer EXCEPT ![c] = @ \o window]
      BY <1>3, WindowStep
    <2>2. toServer' \in [Clients -> Seq(Segs)]
      BY <2>1, InConcat DEF Types
    <2>3. WinEnd(client[c].start) \in Int
      BY Sizes DEF WinEnd, Types, ClientRecords
    <2>4. /\ client' \in [Clients -> ClientRecords]
          /\ \A d \in Clients : client'[d].start < BufLen
      <3> DEFINE r == [client[c] EXCEPT !.at = "wait", !.front = WinEnd(client[c].start)]
      <3>1. r \in ClientRecords /\ r.start < BufLen
        BY <2>3 DEF Types, ClientRecords
      <3>2. client' = [client EXCEPT ![c] = r]
        BY <1>3 DEF SendWindow, Types
      <3> QED
        BY <3>1, <3>2, ClientUpdate
    <2> QED
      BY <1>3, <2>2, <2>4 DEF SendWindow, Types
  <1>4. ASSUME NEW c \in Clients, SendTake(c) PROVE Types'
    <2> DEFINE me    == client[c]
               seg   == Head(toClient[c])
               start == seg.number - me.seq
    <2>1. seg \in Segs /\ toClient' \in [Clients -> Seq(Segs)]
      BY <1>4, InTail, QueueTail DEF SendTake, Types
    <2>2. me \in ClientRecords /\ me.start < BufLen /\ seg.number \in Int
      BY <2>1 DEF Types, Segs
    <2>3. me.seq \in Int /\ me.call \in Int /\ start \in Int
      BY <2>2 DEF ClientRecords
    <2>4. PICK r : /\ client' = [client EXCEPT ![c] = r]
                   /\ r \in ClientRecords /\ r.start < BufLen
      <3>1. CASE "ACK" \notin seg.flags
        <4> DEFINE r == [me EXCEPT !.at = "send"]
        <4>1. client' = [client EXCEPT ![c] = r]
          BY <3>1, <1>4 DEF SendTake
        <4>2. r \in ClientRecords /\ r.start < BufLen
          BY <2>2 DEF ClientRecords
        <4> QED
          BY <4>1, <4>2
      <3>2. CASE "ACK" \in seg.flags /\ start < BufLen
        <4> DEFINE r == [me EXCEPT !.at = "send", !.start = start, !.front = start]
        <4>1. client' = [client EXCEPT ![c] = r]
          BY <3>2, <1>4 DEF SendTake
        <4>2. r \in ClientRecords /\ r.start < BufLen
          <5> HIDE DEF me, start
          <5> QED
            BY <3>2, <2>2, <2>3 DEF ClientRecords
        <4> QED
          BY <4>1, <4>2
      <3>3. CASE "ACK" \in seg.flags /\ ~ (start < BufLen)
        <4> DEFINE r == [me EXCEPT !.at = IF me.call < Calls THEN "send" ELSE "done",
                                   !.call = IF me.call < Calls THEN me.call + 1 ELSE me.call,
                                   !.seq = me.seq + BufLen, !.start = 0, !.front = 0]
        <4>1. client' = [client EXCEPT ![c] = r]
          BY <3>3, <1>4 DEF SendTake
        <4>2. r \in ClientRecords /\ r.start < BufLen
          <5> DEFINE at == IF me.call < Calls THEN "send" ELSE "done"
                     call == IF me.call < Calls THEN me.call + 1 ELSE me.call
                     seq == me.seq + BufLen
          <5>1. at \in {"send", "done"} /\ call \in Int /\ seq \in Int /\ 0 < BufLen
            BY <2>3, Sizes
          <5> HIDE DEF me, at, call, seq
          <5> DEFINE zero == 0
                     q == [me EXCEPT !.at = at, !.call = call, !.seq = seq, !.start = zero,
                                     !.front = zero]
          <5>2. q \in ClientRecords /\ q.start = zero
            <6>1. zero \in Int
              OBVIOUS
            <6> HIDE DEF zero
            <6> QED
              BY <2>2, <5>1, <6>1 DEF ClientRecords
          <5> QED
            BY <5>1, <5>2 DEF at, call, seq
        <4> QED
          BY <4>1, <4>2
      <3> QED
        BY <3>1, <3>2, <3>3
    <2>5. /\ client' \in [Clients -> ClientRecords]
          /\ \A d \in Clients : client'[d].start < BufLen
      BY <2>4 DEF Types
    <2> QED
      BY <1>4, <2>1, <2>5 DEF SendTake, Types
  <1>5. ASSUME Look PROVE Types'
    <2>1. CASE "SYN" \in Head(ring).flags
      <3>1. ring # <<>>
        <4>1. Len(ring) > 0
          BY <1>5, LenProperties DEF Look, Full, Types
        <4> QED
          BY <4>1, EmptySeq
      <3>2. Tail(ring) \in Seq(Segs) /\ Head(ring) \in Segs
        BY <3>1, InTail DEF Types
      <3>3. <<Head(ring)>> \in Seq(Segs)
        BY <3>2
      <3>4. /\ listener' = [at |-> "queue", syn |-> <<Head(ring)>>]
            /\ ring' = Tail(ring)
        BY <1>5, <2>1 DEF Look
      <3>5. listener' \in [at : {"look", "return", "queue"}, syn : Seq(Segs)]
        <4> DEFINE syn == <<Head(ring)>>
        <4>1. syn \in Seq(Segs)
          BY <3>3
        <4> HIDE DEF syn
        <4> QED
          BY <3>4, <4>1 DEF syn
      <3> QED
        BY <1>5, <3>2, <3>4, <3>5 DEF Look, Types
    <2>2. CASE "SYN" \notin Head(ring).flags
      BY <1>5, <2>2 DEF Look, Types
    <2> QED
      BY <2>1, <2>2
  <1>6. ASSUME ReturnCount PROVE Types'
    BY <1>6 DEF ReturnCount, Types
  <1>7. ASSUME QueueRequest PROVE Types'
    <2>1. requests \o listener.syn \in Seq(Segs)
      BY InConcat DEF Types
    <2> QED
      BY <1>7, <1>0, <2>1 DEF QueueRequest, Types
  <1>8. ASSUME AcceptRequest PROVE Types'
    <2> DEFINE syn == Head(requests)
    <2>1. syn \in Segs /\ Tail(requests) \in Seq(Segs)
      BY <1>8, InTail DEF AcceptRequest, Types
    <2>2. syn.from \in Clients /\ syn.seq \in Int
      BY <2>1 DEF Segs
    <2>3. PICK n \in Seqs :
            /\ server' = [server EXCEPT !.at = "accepting", !.peer = syn.from, !.init = n,
                                        !.clientInit = syn.seq]
            /\ toClient' = [toClient EXCEPT ![syn.from] = Append(@,
                 Segment(syn.from, {"SYN", "ACK"}, n, syn.seq + 1, NoData))]
      BY <1>8 DEF AcceptRequest
    <2>4. n \in Int
      BY Sizes
    <2>5. Segment(syn.from, {"SYN", "ACK"}, n, syn.seq + 1, NoData) \in Segs
      BY <2>2, <2>4, NoDataType, SegmentType
    <2>6. toClient' \in [Clients -> Seq(Segs)]
      BY <2>2, <2>3, <2>5, QueueAppend DEF Types
    <2>7. server' \in ServerRecords /\ server'.peer \in Clients
      BY <2>2, <2>3, <2>4 DEF Types, ServerRecords
    <2> QED
      BY <1>8, <2>1, <2>6, <2>7 DEF AcceptRequest, Types
  <1>9. Full > 0 => ring # <<>> /\ Tail(ring) \in Seq(Segs)
    <2>1. Full > 0 => Len(ring) > 0
      BY LenProperties DEF Full, Types
    <2> QED
      BY <2>1, EmptySeq, InTail DEF Types
  <1>10. ASSUME AcceptTake PROVE Types'
    <2>1. /\ server \in ServerRecords /\ server.peer \in Clients
          /\ server.init \in Int /\ server.clientInit \in Int
      BY <1>10 DEF AcceptTake, Types, ServerRecords
    <2>2. server' = server \/ server' = [server EXCEPT !.at = "recv", !.call = 1]
      BY <1>10 DEF AcceptTake
    <2>3. server' \in ServerRecords /\ server'.peer \in Clients
      <3> DEFINE one == 1
                 r == [server EXCEPT !.at = "recv", !.call = one]
      <3>1. r \in ServerRecords /\ r.peer = server.peer
        <4>1. one \in Int
          OBVIOUS
        <4> HIDE DEF one
        <4> QED
          BY <2>1, <4>1 DEF ServerRecords
      <3>2. server' = server \/ server' = r
        BY <2>2
      <3> HIDE DEF r
      <3> QED
        BY <2>1, <3>1, <3>2
    <2> QED
      BY <1>9, <1>10, <2>3 DEF AcceptTake, Types
  <1>11. ASSUME RecvTake PROVE Types'
    BY <1>9, <1>11 DEF RecvTake, Types, ServerRecords
  <1>12. ASSUME Acknowledge PROVE Types'
    <2> DEFINE over(next) == next >= BufLen
               last == server.call = Calls
    <2>1. PICK next \in 0 .. BufLen :
           /\ toClient' = [toClient EXCEPT ![server.peer] = Append(@,
                Segment(server.peer, {"ACK"}, server.init + 1,
                        server.clientInit + 1 + next, NoData))]
           /\ server' = [server EXCEPT
                !.at = IF over(next) /\ last THEN "done" ELSE "recv",
                !.call = IF over(next) /\ ~ last THEN @ + 1 ELSE @,
                !.start = IF over(next) THEN 0 ELSE next]
      BY <1>12 DEF Acknowledge
    <2>2. next \in Int /\ server.peer \in Clients /\ server \in ServerRecords
      BY <1>12, Sizes DEF Acknowledge, Types
    <2>3. server.init + 1 \in Int /\ server.clientInit + 1 + next \in Int
      BY <2>2 DEF ServerRecords
    <2>4. toClient' \in [Clients -> Seq(Segs)]
      BY <2>1, <2>2, <2>3, NoDataType, SegmentType, QueueAppend DEF Types
    <2>5. server' \in ServerRecords /\ server'.peer \in Clients
      <3> DEFINE at == IF over(next) /\ last THEN "done" ELSE "recv"
                 call == IF over(next) /\ ~ last THEN server.call + 1 ELSE server.call
                 start == IF over(next) THEN 0 ELSE next
      <3>1. /\ at \in {"recv", "done"} /\ call \in Int /\ start \in Int
            /\ server.init \in Int /\ server.clientInit \in Int
        BY <2>2 DEF ServerRecords
      <3>2. server' = [server EXCEPT !.at = at, !.call = call, !.start = start]
        BY <2>1
      <3> HIDE DEF at, call, start
      <3> QED
        BY <2>2, <3>1, <3>2 DEF ServerRecords
    <2> QED
      BY <1>12, <2>4, <2>5 DEF Acknowledge, Types
  <1>13. ASSUME NEW c \in Clients, Deliver(c) PROVE Types'
    <2>1. /\ Head(toServer[c]) \in Segs
          /\ toServer' \in [Clients -> Seq(Segs)]
      BY <1>13, InTail, QueueTail DEF Deliver, Types
    <2>2. ring' \in Seq(Segs)
      BY <1>13, <2>1, InAppend DEF Deliver, Types
    <2> QED
      BY <1>13, <2>1, <2>2 DEF Deliver, Types
  <1>14. ASSUME NEW c \in Clients, LoseToServer(c) PROVE Types'
    <2>1. toServer' \in [Clients -> Seq(Segs)]
      BY <1>14, QueueTail DEF LoseToServer, Types
    <2> QED
      BY <1>14, <2>1 DEF LoseToServer, Types
  <1>15. ASSUME NEW c \in Clients, LoseToClient(c) PROVE Types'
    <2>1. toClient' \in [Clients -> Seq(Segs)]
      BY <1>15, QueueTail DEF LoseToClient, Types
    <2> QED
      BY <1>15, <2>1 DEF LoseToClient, Types
  <1>16. ASSUME NEW c \in Clients, Stray(c) PROVE Types'
    <2>1. toClient' \in [Clients -> Seq(Segs)]
      BY <1>16, NoDataType, SegmentType, QueueAppend DEF Stray, Types
    <2> QED
      BY <1>16, <2>1 DEF Stray, Types
  <1>17. CASE UNCHANGED vars
    BY <1>17 DEF vars, Types
  <1> QED
    BY <1>1, <1>2, <1>3, <1>4, <1>5, <1>6, <1>7, <1>8, <1>10, <1>11, <1>12, <1>13, <1>14,
       <1>15, <1>16, <1>17
    DEF Next, ClientStep, Listener, ServerMain, ServerTake

(***************************************************************************)
(* What the segments on their way say is true: a segment with SYN carries  *)
(* the initial number of a client that called connect, one with ACK was    *)
(* sent by a client that returned from it, and an answer with both flags   *)
(* is the one accept sent.                                                 *)
(***************************************************************************)
Connected == {"send", "wait", "done"}

Carried(seg) ==
  /\ "SYN" \in seg.flags => client[seg.from].at # "start" /\ client[seg.from].init = seg.seq
  /\ "ACK" \in seg.flags => client[seg.from].at \in Connected

Answered(c, seg) ==
  {"SYN", "ACK"} \subseteq seg.flags =>
    server.at # "accept" /\ server.peer = c /\ server.init = seg.seq

SegmentsTrue ==
  /\ \A c \in Clients : \A seg \in In(toServer[c]) : Carried(seg)
  /\ \A seg \in In(ring) : Carried(seg)

RequestsTrue ==
  /\ \A seg \in In(listener.syn) : "SYN" \in seg.flags /\ Carried(seg)
  /\ \A seg \in In(requests) : "SYN" \in seg.flags /\ Carried(seg)

AnswersTrue == \A c \in Clients : \A seg \in In(toClient[c]) : Answered(c, seg)

PeerTrue ==
  server.at # "accept" =>
    client[server.peer].at # "start" /\ client[server.peer].init = server.clientInit

ClientsTrue ==
  \A c \in Clients : client[c].at \in Connected =>
    server.at # "accept" /\ server.peer = c /\ client[c].serverInit = server.init

Accepted ==
  server.at \in {"recv", "acknowledge", "done"} => client[server.peer].at \in Connected

IInv ==
  /\ Types
  /\ SegmentsTrue
  /\ RequestsTrue
  /\ AnswersTrue
  /\ PeerTrue
  /\ ClientsTrue
  /\ Accepted

(***************************************************************************)
(* A client keeps what it has said, and the server whom it has accepted.   *)
(***************************************************************************)
Keeps(c) ==
  /\ client[c].at # "start" => client'[c].at # "start" /\ client'[c].init = client[c].init
  /\ client[c].at \in Connected =>
       client'[c].at \in Connected /\ client'[c].serverInit = client[c].serverInit

LEMMA ClientsKeep == Types /\ [Next]_vars => \A c \in Clients : Keeps(c)
  <1> SUFFICES ASSUME Types, [Next]_vars, NEW d \in Clients PROVE Keeps(d)
    OBVIOUS
  <1>0. client \in [Clients -> ClientRecords]
    BY DEF Types
  <1>1. ASSUME NEW c \in Clients, Connect(c) PROVE Keeps(d)
    BY <1>0, <1>1 DEF Connect, Keeps, Connected, ClientRecords
  <1>2. ASSUME NEW c \in Clients, ConnectTake(c) PROVE Keeps(d)
    <2> DEFINE n == Head(toClient[c]).seq
               one == 1
               r == [client[c] EXCEPT !.at = "send", !.serverInit = n, !.call = one]
    <2>1. client[c] \in ClientRecords /\ client[c].at = "connect"
      BY <1>0, <1>2 DEF ConnectTake
    <2>2. client' = [client EXCEPT ![c] = r] \/ client' = client
      BY <1>2 DEF ConnectTake
    <2> HIDE DEF n, one
    <2>3. r.at = "send" /\ r.init = client[c].init
      BY <2>1 DEF ClientRecords
    <2> HIDE DEF r
    <2>4. CASE client' = client
      BY <2>4 DEF Keeps
    <2>5. CASE client' = [client EXCEPT ![c] = r]
      BY <1>0, <2>1, <2>3, <2>5 DEF Keeps, Connected
    <2> QED
      BY <2>2, <2>4, <2>5
  <1>3. ASSUME NEW c \in Clients, SendWindow(c) PROVE Keeps(d)
    BY <1>0, <1>3 DEF SendWindow, Keeps, Connected, ClientRecords
  <1>4. ASSUME NEW c \in Clients, SendTake(c) PROVE Keeps(d)
    <2> DEFINE me    == client[c]
               seg   == Head(toClient[c])
               start == seg.number - me.seq
    <2>1. client[c] \in ClientRecords /\ client[c].at = "wait"
      BY <1>0, <1>4 DEF SendTake
    <2>2. PICK r : /\ client' = [client EXCEPT ![c] = r]
                   /\ r.at \in {"send", "done"} /\ r.init = client[c].init
                   /\ r.serverInit = client[c].serverInit
      <3>1. CASE "ACK" \notin seg.flags
        <4> DEFINE r == [me EXCEPT !.at = "send"]
        <4>1. client' = [client EXCEPT ![c] = r]
          BY <3>1, <1>4 DEF SendTake
        <4>2. r.at = "send" /\ r.init = me.init /\ r.serverInit = me.serverInit
          BY <2>1 DEF ClientRecords
        <4> QED
          BY <4>1, <4>2
      <3>2. CASE "ACK" \in seg.flags /\ start < BufLen
        <4> DEFINE r == [me EXCEPT !.at = "send", !.start = start, !.front = start]
        <4>1. client' = [client EXCEPT ![c] = r]
          BY <3>2, <1>4 DEF SendTake
        <4> HIDE DEF start
        <4>2. r.at = "send" /\ r.init = me.init /\ r.serverInit = me.serverInit
          BY <2>1 DEF ClientRecords
        <4> QED
          BY <4>1, <4>2
      <3>3. CASE "ACK" \in seg.flags /\ ~ (start < BufLen)
        <4> DEFINE at == IF me.call < Calls THEN "send" ELSE "done"
                   call == IF me.call < Calls THEN me.call + 1 ELSE me.call
                   seq == me.seq + BufLen
                   r == [me EXCEPT !.at = at, !.call = call, !.seq = seq, !.start = 0,
                                   !.front = 0]
        <4>1. client' = [client EXCEPT ![c] = r]
          BY <3>3, <1>4 DEF SendTake
        <4>2. at \in {"send", "done"}
          OBVIOUS
        <4> HIDE DEF at, call, seq
        <4>3. r.at = at /\ r.init = me.init /\ r.serverInit = me.serverInit
          BY <2>1 DEF ClientRecords
        <4> QED
          BY <4>1, <4>2, <4>3
      <3> QED
        BY <3>1, <3>2, <3>3
    <2> QED
      BY <2>1, <2>2, <1>0 DEF Keeps, Connected
  <1>5. CASE client' = client
    BY <1>5 DEF Keeps
  <1>6. (\A c \in Clients : ~ (Connect(c) \/ ClientStep(c))) => client' = client
    BY DEF Next, vars, ClientStep, Listener, ServerMain, ServerTake, Look, ReturnCount,
           QueueRequest, AcceptRequest, AcceptTake, RecvTake, Acknowledge, Deliver,
           LoseToServer, LoseToClient, Stray
  <1> QED
    BY <1>1, <1>2, <1>3, <1>4, <1>5, <1>6 DEF ClientStep

ServerKeeps ==
  server.at # "accept" =>
    /\ server'.at # "accept" /\ server'.peer = server.peer
    /\ server'.init = server.init /\ server'.clientInit = server.clientInit

LEMMA ServerKept == Types /\ [Next]_vars => ServerKeeps
  <1> SUFFICES ASSUME Types, [Next]_vars PROVE ServerKeeps
    OBVIOUS
  <1>0. server \in ServerRecords
    BY DEF Types
  <1>1. CASE AcceptRequest
    BY <1>1 DEF AcceptRequest, ServerKeeps
  <1>2. CASE AcceptTake
    BY <1>0, <1>2 DEF AcceptTake, ServerKeeps, ServerRecords
  <1>3. CASE RecvTake
    BY <1>0, <1>3 DEF RecvTake, ServerKeeps, ServerRecords
  <1>4. CASE Acknowledge
    BY <1>0, <1>4 DEF Acknowledge, ServerKeeps, ServerRecords
  <1>5. CASE server' = server
    BY <1>5 DEF ServerKeeps
  <1>6. ~ ServerMain => server' = server
    BY DEF Next, vars, ClientStep, Listener, Look, ReturnCount,
           QueueRequest, Connect, ConnectTake, SendWindow, SendTake, Deliver,
           LoseToServer, LoseToClient, Stray
  <1> QED
    BY <1>1, <1>2, <1>3, <1>4, <1>5, <1>6 DEF ServerMain, ServerTake

(***************************************************************************)
(* Where a segment in a queue has come from.                               *)
(***************************************************************************)
\* To the server: it was there, or it is what connect or send puts there.
LEMMA ToServerMoves ==
  Types /\ [Next]_vars =>
    \A c \in Clients : \A seg \in In(toServer'[c]) : seg \in In(toServer[c]) \/ Carried(seg)'
  <1> SUFFICES ASSUME Types, [Next]_vars, NEW d \in Clients, NEW seg \in In(toServer'[d]),
                      seg \notin In(toServer[d])
               PROVE  Carried(seg)'
    OBVIOUS
  <1>0. /\ client \in [Clients -> ClientRecords]
        /\ toServer \in [Clients -> Seq(Segs)] /\ toClient \in [Clients -> Seq(Segs)]
    BY DEF Types
  <1>1. ASSUME NEW c \in Clients, Connect(c) PROVE Carried(seg)'
    <2>1. PICK n \in Seqs :
            /\ client' = [client EXCEPT ![c].at = "connect", ![c].init = n, ![c].seq = n + 1]
            /\ toServer' = [toServer EXCEPT ![c] =
                              Append(@, Segment(c, {"SYN"}, n, 0, NoData))]
      BY <1>1 DEF Connect
    <2> DEFINE syn == Segment(c, {"SYN"}, n, 0, NoData)
    <2>2. syn \in Segs
      BY Sizes, NoDataType, SegmentType
    <2>3. In(Append(toServer[c], syn)) = In(toServer[c]) \cup {syn}
      BY <1>0, <2>2, InAppend
    <2>4. seg = syn
      BY <1>0, <2>1, <2>3
    <2>5. seg.flags = {"SYN"} /\ seg.from = c /\ seg.seq = n
      BY <2>4 DEF Segment
    <2>6. client'[c].at = "connect" /\ client'[c].init = n
      BY <1>0, <2>1 DEF ClientRecords
    <2> QED
      BY <2>5, <2>6 DEF Carried
  <1>2. ASSUME NEW c \in Clients, ConnectTake(c) PROVE Carried(seg)'
    <2> DEFINE answer == Head(toClient[c])
               number == answer.seq + 1
               sent == client[c].seq
               ack == Segment(c, {"ACK"}, sent, number, NoData)
    <2>1. answer \in Segs
      BY <1>0, <1>2, InTail DEF ConnectTake
    <2>2. number \in Int /\ sent \in Int
      <3>1. client[c] \in ClientRecords
        BY <1>0
      <3> HIDE DEF answer
      <3> QED
        BY <2>1, <3>1 DEF Segs, ClientRecords
    <2>3. /\ toServer' = [toServer EXCEPT ![c] = Append(@, ack)]
          /\ client'[c].at = "send"
      <3>1. toServer' # toServer
        OBVIOUS
      <3>2. {"SYN", "ACK"} \subseteq answer.flags
        BY <1>2, <3>1 DEF ConnectTake
      <3>3. toServer' = [toServer EXCEPT ![c] = Append(@, ack)]
        BY <1>2, <3>2 DEF ConnectTake
      <3>4. client' = [client EXCEPT ![c].at = "send", ![c].serverInit = answer.seq,
                                     ![c].call = 1]
        BY <1>2, <3>2 DEF ConnectTake
      <3> HIDE DEF answer
      <3>5. client'[c].at = "send"
        BY <1>0, <3>4 DEF ClientRecords
      <3> QED
        BY <3>3, <3>5
    <2> HIDE DEF number, sent
    <2>4. ack \in Segs
      BY <2>2, NoDataType, SegmentType
    <2>5. In(Append(toServer[c], ack)) = In(toServer[c]) \cup {ack}
      BY <1>0, <2>4, InAppend
    <2>6. seg = ack
      BY <1>0, <2>3, <2>5
    <2>7. seg.flags = {"ACK"} /\ seg.from = c
      BY <2>6 DEF Segment
    <2> QED
      BY <2>3, <2>7 DEF Carried, Connected
  <1>3. ASSUME NEW c \in Clients, SendWindow(c) PROVE Carried(seg)'
    <2>1. PICK window \in Seq(Segs) :
            /\ \A piece \in In(window) : piece.flags = {}
            /\ toServer' = [toServer EXCEPT ![c] = @ \o window]
      BY <1>3, WindowStep
    <2>2. In(toServer[c] \o window) \subseteq In(toServer[c]) \cup In(window)
      BY <1>0, InConcat
    <2>3. seg.flags = {}
      BY <1>0, <2>1, <2>2
    <2> QED
      BY <2>3 DEF Carried
  <1>4. ASSUME NEW c \in Clients, Deliver(c) \/ LoseToServer(c) PROVE FALSE
    <2>1. toServer[c] # <<>> /\ toServer' = [toServer EXCEPT ![c] = Tail(@)]
      BY <1>4 DEF Deliver, LoseToServer
    <2>2. In(Tail(toServer[c])) \subseteq In(toServer[c])
      BY <1>0, <2>1, InTail
    <2> QED
      BY <1>0, <2>1, <2>2
  <1>5. toServer' # toServer
    OBVIOUS
  <1> QED
    BY <1>1, <1>2, <1>3, <1>4, <1>5
    DEF Next, vars, ClientStep, Listener, ServerMain, ServerTake, Look, ReturnCount,
        QueueRequest, AcceptRequest, AcceptTake, RecvTake, Acknowledge, SendTake,
        LoseToClient, Stray

\* To the ring: it was there, or it was on its way from a client.
LEMMA RingMoves ==
  Types /\ [Next]_vars =>
    \A seg \in In(ring') :
      seg \in In(ring) \/ \E c \in Clients : seg \in In(toServer[c])
  <1> SUFFICES ASSUME Types, [Next]_vars, NEW seg \in In(ring'), seg \notin In(ring)
               PROVE  \E c \in Clients : seg \in In(toServer[c])
    OBVIOUS
  <1>0. ring \in Seq(Segs) /\ toServer \in [Clients -> Seq(Segs)]
    BY DEF Types
  <1>1. ASSUME NEW c \in Clients, Deliver(c) PROVE seg \in In(toServer[c])
    <2> DEFINE first == Head(toServer[c])
    <2>1. first \in In(toServer[c]) /\ first \in Segs
      BY <1>0, <1>1, InTail DEF Deliver
    <2>2. In(Append(ring, first)) = In(ring) \cup {first}
      BY <1>0, <2>1, InAppend
    <2> QED
      BY <1>1, <2>1, <2>2 DEF Deliver
  <1>2. ring' # Tail(ring)
    <2>1. CASE ring = <<>>
      <3>1. Tail(ring) = <<>>
        BY <2>1
      <3> QED
        BY <2>1, <3>1, EmptyIn
    <2>2. CASE ring # <<>>
      BY <1>0, <2>2, InTail
    <2> QED
      BY <2>1, <2>2
  <1>3. ring' # ring
    OBVIOUS
  <1>4. \E c \in Clients : Deliver(c)
    BY <1>2, <1>3
    DEF Next, vars, ClientStep, Listener, ServerMain, ServerTake, Look, ReturnCount,
        QueueRequest, AcceptRequest, AcceptTake, RecvTake, Acknowledge, SendTake,
        LoseToClient, LoseToServer, Stray, Connect, ConnectTake, SendWindow
  <1> QED
    BY <1>1, <1>4

\* To the listener and the request queue: it was in one of them, or it was a
\* SYN in the ring.
Requested == In(listener.syn) \cup In(requests)

LEMMA RequestMoves ==
  Types /\ [Next]_vars =>
    \A seg \in Requested' :
      seg \in Requested \/ (seg \in In(ring) /\ "SYN" \in seg.flags)
  <1> SUFFICES ASSUME Types, [Next]_vars, NEW seg \in Requested', seg \notin Requested
               PROVE  seg \in In(ring) /\ "SYN" \in seg.flags
    OBVIOUS
  <1>0. /\ ring \in Seq(Segs) /\ requests \in Seq(Segs)
        /\ listener \in [at : {"look", "return", "queue"}, syn : Seq(Segs)]
    BY DEF Types
  <1>1. ASSUME Look PROVE seg \in In(ring) /\ "SYN" \in seg.flags
    <2>1. "SYN" \in Head(ring).flags /\ listener'.syn = <<Head(ring)>>
      <3>1. listener'.syn # listener.syn
        BY <1>1 DEF Look, Requested
      <3>2. CASE "SYN" \notin Head(ring).flags
        BY <1>0, <1>1, <3>1, <3>2 DEF Look
      <3> QED
        BY <1>1, <3>2 DEF Look
    <2>2. seg = Head(ring)
      BY <1>1, <2>1, InOne DEF Look, Requested
    <2>3. ring # <<>>
      <3>1. Len(ring) > 0
        BY <1>0, <1>1, LenProperties DEF Look, Full
      <3> QED
        BY <3>1, EmptySeq
    <2> QED
      BY <1>0, <2>1, <2>2, <2>3, InTail
  <1>2. ASSUME ReturnCount PROVE FALSE
    BY <1>0, <1>2 DEF ReturnCount, Requested
  <1>3. ASSUME QueueRequest PROVE FALSE
    <2>1. In(requests \o listener.syn) \subseteq Requested
      BY <1>0, InConcat DEF Requested
    <2> QED
      BY <1>3, <2>1, EmptyIn DEF QueueRequest, Requested
  <1>4. ASSUME AcceptRequest PROVE FALSE
    <2>1. In(Tail(requests)) \subseteq In(requests)
      BY <1>0, <1>4, InTail DEF AcceptRequest
    <2> QED
      BY <1>4, <2>1 DEF AcceptRequest, Requested
  <1>5. ~ (listener' = listener /\ requests' = requests)
    BY DEF Requested
  <1> QED
    BY <1>1, <1>2, <1>3, <1>4, <1>5
    DEF Next, vars, ClientStep, Listener, ServerMain, ServerTake, Deliver,
        AcceptTake, RecvTake, Acknowledge, SendTake,
        LoseToClient, LoseToServer, Stray, Connect, ConnectTake, SendWindow

\* To a client: it was there, it is accept's answer, or it has not both flags.
LEMMA AnswerMoves ==
  Types /\ [Next]_vars =>
    \A c \in Clients : \A seg \in In(toClient'[c]) :
      seg \in In(toClient[c]) \/ Answered(c, seg)'
  <1> SUFFICES ASSUME Types, [Next]_vars, NEW d \in Clients, NEW seg \in In(toClient'[d]),
                      seg \notin In(toClient[d])
               PROVE  Answered(d, seg)'
    OBVIOUS
  <1>0. toClient \in [Clients -> Seq(Segs)] /\ server \in ServerRecords
    BY DEF Types
  <1>1. ASSUME AcceptRequest PROVE Answered(d, seg)'
    <2> DEFINE syn == Head(requests)
    <2>1. syn \in Segs
      BY <1>1, InTail DEF AcceptRequest, Types
    <2>2. syn.from \in Clients /\ syn.seq \in Int
      BY <2>1 DEF Segs
    <2>3. PICK n \in Seqs :
            /\ server' = [server EXCEPT !.at = "accepting", !.peer = syn.from, !.init = n,
                                        !.clientInit = syn.seq]
            /\ toClient' = [toClient EXCEPT ![syn.from] = Append(@,
                 Segment(syn.from, {"SYN", "ACK"}, n, syn.seq + 1, NoData))]
      BY <1>1 DEF AcceptRequest
    <2> DEFINE answer == Segment(syn.from, {"SYN", "ACK"}, n, syn.seq + 1, NoData)
    <2>4. answer \in Segs
      BY <2>2, Sizes, NoDataType, SegmentType
    <2>5. In(Append(toClient[syn.from], answer)) = In(toClient[syn.from]) \cup {answer}
      BY <1>0, <2>2, <2>4, InAppend
    <2>6. seg = answer /\ d = syn.from
      BY <1>0, <2>2, <2>3, <2>5
    <2>7. seg.seq = n
      BY <2>6 DEF Segment
    <2>8. server'.at = "accepting" /\ server'.peer = d /\ server'.init = n
      <3> HIDE DEF syn
      <3> QED
        BY <1>0, <2>3, <2>6 DEF ServerRecords
    <2> QED
      BY <2>7, <2>8 DEF Answered
  <1>2. ASSUME Acknowledge PROVE Answered(d, seg)'
    <2>1. PICK next \in 0 .. BufLen :
            toClient' = [toClient EXCEPT ![server.peer] = Append(@,
              Segment(server.peer, {"ACK"}, server.init + 1,
                      server.clientInit + 1 + next, NoData))]
      BY <1>2 DEF Acknowledge
    <2> DEFINE seq == server.init + 1
               number == server.clientInit + 1 + next
               ack == Segment(server.peer, {"ACK"}, seq, number, NoData)
    <2>2. server.peer \in Clients
      BY <1>2 DEF Acknowledge, Types
    <2>3. seq \in Int /\ number \in Int
      BY <1>0, Sizes DEF ServerRecords
    <2>4. toClient' = [toClient EXCEPT ![server.peer] = Append(@, ack)]
      BY <2>1
    <2> HIDE DEF seq, number
    <2>5. ack \in Segs
      BY <2>2, <2>3, NoDataType, SegmentType
    <2>6. In(Append(toClient[server.peer], ack)) = In(toClient[server.peer]) \cup {ack}
      BY <1>0, <2>2, <2>5, InAppend
    <2>7. seg = ack
      BY <1>0, <2>2, <2>4, <2>6
    <2>8. seg.flags = {"ACK"}
      BY <2>7 DEF Segment
    <2> QED
      BY <2>8 DEF Answered
  <1>3. ASSUME NEW c \in Clients, Stray(c) PROVE Answered(d, seg)'
    <2> DEFINE stray == Segment(c, {}, 0, 0, NoData)
    <2>1. stray \in Segs
      BY NoDataType, SegmentType
    <2>2. In(Append(toClient[c], stray)) = In(toClient[c]) \cup {stray}
      BY <1>0, <2>1, InAppend
    <2>3. seg = stray
      BY <1>0, <1>3, <2>2 DEF Stray
    <2>4. seg.flags = {}
      BY <2>3 DEF Segment
    <2> QED
      BY <2>4 DEF Answered
  <1>4. ASSUME NEW c \in Clients, ConnectTake(c) \/ SendTake(c) \/ LoseToClient(c)
        PROVE  FALSE
    <2>1. toClient[c] # <<>> /\ toClient' = [toClient EXCEPT ![c] = Tail(@)]
      BY <1>4 DEF ConnectTake, SendTake, LoseToClient
    <2>2. In(Tail(toClient[c])) \subseteq In(toClient[c])
      BY <1>0, <2>1, InTail
    <2> QED
      BY <1>0, <2>1, <2>2
  <1>5. toClient' # toClient
    OBVIOUS
  <1> QED
    BY <1>1, <1>2, <1>3, <1>4, <1>5
    DEF Next, vars, ClientStep, Listener, ServerMain, ServerTake, Look, ReturnCount,
        QueueRequest, AcceptTake, RecvTake, Connect, SendWindow, Deliver, LoseToServer

(***************************************************************************)
(* The invariant.                                                          *)
(***************************************************************************)
LEMMA InitInv == Init => IInv
  <1> SUFFICES ASSUME Init PROVE IInv
    OBVIOUS
  <1>1. Types
    BY InitTypes
  <1>2. SegmentsTrue /\ RequestsTrue /\ AnswersTrue
    BY EmptyIn DEF Init, SegmentsTrue, RequestsTrue, AnswersTrue
  <1>3. PeerTrue /\ ClientsTrue /\ Accepted
    BY DEF Init, PeerTrue, ClientsTrue, Accepted, Connected
  <1> QED
    BY <1>1, <1>2, <1>3 DEF IInv

\* What was true of a segment stays true.
LEMMA KeepCarried ==
  ASSUME NEW seg \in Segs, \A c \in Clients : Keeps(c), Carried(seg)
  PROVE  Carried(seg)'
  <1>1. seg.from \in Clients
    BY DEF Segs
  <1> QED
    BY <1>1 DEF Carried, Keeps

\* A client that has returned from connect had returned before, or returns
\* with the answer that accept sent to it.
LEMMA WhoConnects ==
  ASSUME IInv, [Next]_vars, NEW c \in Clients, client'[c].at \in Connected,
         client[c].at \notin Connected
  PROVE  server.at # "accept" /\ server.peer = c /\ client'[c].serverInit = server.init
  <1>0. client \in [Clients -> ClientRecords] /\ toClient \in [Clients -> Seq(Segs)]
    BY DEF IInv, Types
  <1>1. ASSUME NEW d \in Clients, Connect(d) PROVE FALSE
    BY <1>0, <1>1 DEF Connect, ClientRecords, Connected
  <1>2. ASSUME NEW d \in Clients, SendWindow(d) \/ SendTake(d) PROVE FALSE
    BY <1>0, <1>2 DEF SendWindow, SendTake, Connected
  <1>3. ASSUME NEW d \in Clients, ConnectTake(d)
        PROVE  server.at # "accept" /\ server.peer = c
                 /\ client'[c].serverInit = server.init
    <2> DEFINE seg == Head(toClient[d])
               n == seg.seq
               one == 1
    <2>1. c = d
      BY <1>0, <1>3 DEF ConnectTake
    <2>2. {"SYN", "ACK"} \subseteq seg.flags
      BY <1>3 DEF ConnectTake
    <2>3. client' = [client EXCEPT ![d].at = "send", ![d].serverInit = n, ![d].call = one]
      BY <1>3, <2>2 DEF ConnectTake
    <2>4. seg \in In(toClient[d])
      BY <1>0, <1>3, InTail DEF ConnectTake
    <2>5. server.at # "accept" /\ server.peer = d /\ server.init = n
      BY <2>2, <2>4 DEF IInv, AnswersTrue, Answered
    <2> HIDE DEF seg, n, one
    <2>6. client'[d].serverInit = n
      BY <1>0, <2>3 DEF ClientRecords
    <2> QED
      BY <2>1, <2>5, <2>6
  <1>4. client' # client
    OBVIOUS
  <1> QED
    BY <1>1, <1>2, <1>3, <1>4
    DEF Next, vars, ClientStep, Listener, ServerMain, ServerTake, Look, ReturnCount,
        QueueRequest, AcceptRequest, AcceptTake, RecvTake, Acknowledge, Deliver,
        LoseToServer, LoseToClient, Stray

\* accept answers a client that has asked, and knows its number.
LEMMA WhoIsAnswered ==
  ASSUME IInv, [Next]_vars, server.at = "accept", server'.at # "accept"
  PROVE  /\ server'.at = "accepting"
         /\ client'[server'.peer].at # "start"
         /\ client'[server'.peer].init = server'.clientInit
  <1>0. requests \in Seq(Segs) /\ server \in ServerRecords
    BY DEF IInv, Types
  <1>1. AcceptRequest
    BY DEF Next, vars, ClientStep, Listener, ServerMain, ServerTake, Look, ReturnCount,
           QueueRequest, AcceptTake, RecvTake, Acknowledge, Deliver, LoseToServer,
           LoseToClient, Stray, Connect, ConnectTake, SendWindow, SendTake
  <1> DEFINE syn == Head(requests)
             from == syn.from
             seq == syn.seq
  <1>2. syn \in In(requests)
    BY <1>0, <1>1, InTail DEF AcceptRequest
  <1>3. client[from].at # "start" /\ client[from].init = seq
    BY <1>2 DEF IInv, RequestsTrue, Carried
  <1>4. PICK n : server' = [server EXCEPT !.at = "accepting", !.peer = from, !.init = n,
                                          !.clientInit = seq]
    BY <1>1 DEF AcceptRequest
  <1>5. client' = client
    BY <1>1 DEF AcceptRequest
  <1> HIDE DEF syn, from, seq
  <1>6. server'.at = "accepting" /\ server'.peer = from /\ server'.clientInit = seq
    BY <1>0, <1>4 DEF ServerRecords
  <1> QED
    BY <1>3, <1>5, <1>6

\* accept returns when a client that has returned from connect has sent an
\* acknowledgement, and that can only be its peer.
LEMMA WhoIsAccepted ==
  ASSUME IInv, [Next]_vars, server.at = "accepting", server'.at # "accepting"
  PROVE  client[server.peer].at \in Connected
  <1>0. /\ ring \in Seq(Segs) /\ server \in ServerRecords
    BY DEF IInv, Types
  <1>1. AcceptTake
    BY DEF Next, vars, ClientStep, Listener, ServerMain, ServerTake, Look, ReturnCount,
           QueueRequest, AcceptRequest, RecvTake, Acknowledge, Deliver, LoseToServer,
           LoseToClient, Stray, Connect, ConnectTake, SendWindow, SendTake
  <1>2. "ACK" \in Head(ring).flags
    BY <1>1 DEF AcceptTake
  <1>3. ring # <<>>
    <2>1. Len(ring) > 0
      BY <1>0, <1>1, LenProperties DEF AcceptTake, Full, IInv, Types
    <2> QED
      BY <2>1, EmptySeq
  <1>4. Head(ring) \in In(ring) /\ Head(ring) \in Segs
    BY <1>0, <1>3, InTail
  <1>5. client[Head(ring).from].at \in Connected
    BY <1>2, <1>4 DEF IInv, SegmentsTrue, Carried
  <1>6. server.peer = Head(ring).from
    BY <1>4, <1>5 DEF IInv, ClientsTrue, Segs
  <1> QED
    BY <1>5, <1>6

LEMMA StepInv == IInv /\ [Next]_vars => IInv'
  <1> SUFFICES ASSUME IInv, [Next]_vars PROVE IInv'
    OBVIOUS
  <1>1. Types /\ Types'
    BY TypesStep DEF IInv
  <1>2. (\A c \in Clients : Keeps(c)) /\ ServerKeeps
    BY <1>1, ClientsKeep, ServerKept
  <1>3. SegmentsTrue'
    <2>1. ASSUME NEW c \in Clients, NEW seg \in In(toServer[c]) PROVE Carried(seg)'
      <3>1. seg \in Segs
        BY <1>1, InSegs DEF Types
      <3> QED
        BY <2>1, <3>1, <1>2, KeepCarried DEF IInv, SegmentsTrue
    <2>2. ASSUME NEW seg \in In(ring) PROVE Carried(seg)'
      <3>1. seg \in Segs
        BY <1>1, InSegs DEF Types
      <3> QED
        BY <2>2, <3>1, <1>2, KeepCarried DEF IInv, SegmentsTrue
    <2> QED
      BY <1>1, <2>1, <2>2, ToServerMoves, RingMoves DEF SegmentsTrue
  <1>4. RequestsTrue'
    <2>1. ASSUME NEW seg \in Requested PROVE "SYN" \in seg.flags /\ Carried(seg)'
      <3>1. seg \in Segs
        BY <1>1, InSegs DEF Types, Requested
      <3> QED
        BY <2>1, <3>1, <1>2, KeepCarried DEF IInv, RequestsTrue, Requested
    <2>2. ASSUME NEW seg \in In(ring) PROVE Carried(seg)'
      <3>1. seg \in Segs
        BY <1>1, InSegs DEF Types
      <3> QED
        BY <2>2, <3>1, <1>2, KeepCarried DEF IInv, SegmentsTrue
    <2>3. \A seg \in Requested' : "SYN" \in seg.flags /\ Carried(seg)'
      BY <1>1, <2>1, <2>2, RequestMoves
    <2> QED
      BY <2>3 DEF RequestsTrue, Requested
  <1>5. AnswersTrue'
    <2>1. ASSUME NEW c \in Clients, NEW seg \in In(toClient[c]) PROVE Answered(c, seg)'
      BY <2>1, <1>2 DEF IInv, AnswersTrue, Answered, ServerKeeps
    <2> QED
      BY <1>1, <2>1, AnswerMoves DEF AnswersTrue
  <1>6. PeerTrue'
    <2>1. CASE server.at = "accept"
      BY <2>1, WhoIsAnswered DEF PeerTrue
    <2>2. CASE server.at # "accept"
      <3>1. server.peer \in Clients
        BY <2>2, <1>1 DEF Types
      <3> QED
        BY <2>2, <3>1, <1>2 DEF IInv, PeerTrue, Keeps, ServerKeeps
    <2> QED
      BY <2>1, <2>2
  <1>7. ClientsTrue'
    <2> SUFFICES ASSUME NEW c \in Clients, client'[c].at \in Connected
                 PROVE  server'.at # "accept" /\ server'.peer = c
                          /\ client'[c].serverInit = server'.init
      BY DEF ClientsTrue
    <2>1. CASE client[c].at \in Connected
      BY <2>1, <1>2 DEF IInv, ClientsTrue, Keeps, ServerKeeps
    <2>2. CASE client[c].at \notin Connected
      BY <2>2, <1>2, WhoConnects DEF ServerKeeps
    <2> QED
      BY <2>1, <2>2
  <1>8. Accepted'
    <2> SUFFICES ASSUME server'.at \in {"recv", "acknowledge", "done"}
                 PROVE  client'[server'.peer].at \in Connected
      BY DEF Accepted
    <2>1. server.at # "accept"
      BY WhoIsAnswered
    <2>2. server.peer \in Clients /\ server'.peer = server.peer
      BY <2>1, <1>1, <1>2 DEF Types, ServerKeeps
    <2>3. client[server.peer].at \in Connected
      <3>1. CASE server.at = "accepting"
        BY <3>1, WhoIsAccepted
      <3>2. CASE server.at # "accepting"
        BY <2>1, <3>2, <1>1 DEF IInv, Accepted, Types, ServerRecords
      <3> QED
        BY <3>1, <3>2
    <2> QED
      BY <2>2, <2>3, <1>2 DEF Keeps
  <1> QED
    BY <1>1, <1>3, <1>4, <1>5, <1>6, <1>7, <1>8 DEF IInv

\* accept never returns before its client has returned from connect, and then
\* each side holds the other's initial number: for any clients, buffers,
\* windows, rings and request queues, whatever other clients send and whatever
\* is lost.
THEOREM BothConnectedAlways == Spec => []BothConnected
  <1>1. IInv => BothConnected
    <2> SUFFICES ASSUME IInv, server.at \in {"recv", "acknowledge", "done"}
                 PROVE  LET peer == client[server.peer]
                        IN  /\ peer.at \in {"send", "wait", "done"}
                            /\ peer.init = server.clientInit /\ peer.serverInit = server.init
      BY DEF BothConnected
    <2>1. server.peer \in Clients /\ server.at # "accept"
      BY DEF IInv, Types
    <2> QED
      BY <2>1 DEF IInv, Accepted, PeerTrue, ClientsTrue, Connected
  <1>2. IInv /\ [Next]_vars => IInv'
    BY StepInv
  <1> QED
    BY <1>1, <1>2, InitInv, PTL DEF Spec

(***************************************************************************)
(* Numbers, and who sends what.  A client that has not returned from       *)
(* connect sends its SYN and nothing else; a segment of data carries the   *)
(* number of its place; an acknowledgement names a place before which      *)
(* every bit is set, and those on their way to a client rise.              *)
(***************************************************************************)
Sent(c, seg) ==
  /\ seg \in Segments /\ seg.from = c
  /\ seg.flags # {} => seg.data = NoData
  /\ seg.flags = {} =>
       /\ client[c].at \in Connected /\ seg.data.call >= 1
       /\ seg.data.call = 1 => seg.seq = client[c].init + 1 + seg.data.at
       /\ seg.data.call > 1 => seg.seq >= client[c].init + 1 + BufLen

SentTrue ==
  /\ \A c \in Clients : \A seg \in In(toServer[c]) : Sent(c, seg)
  /\ \A seg \in In(ring) : Sent(seg.from, seg)
  /\ \A seg \in Requested : seg \in Segments

Returned(c, seg) ==
  /\ seg \in Segments
  /\ "ACK" \in seg.flags =>
       /\ server.at # "accept" /\ server.peer = c
       /\ seg.number >= server.clientInit + 1
       /\ seg.number <= server.clientInit + 1 + BufLen
       /\ client[c].seq <= seg.number
       /\ \A j \in 0 .. BufLen - 1 : j < seg.number - (server.clientInit + 1) => j \in bits

ReturnedTrue == \A c \in Clients : \A seg \in In(toClient[c]) : Returned(c, seg)

Rises == {p \in Segs \X Segs :
            "ACK" \in p[1].flags /\ "ACK" \in p[2].flags => p[1].number <= p[2].number}

RisingTrue == \A c \in Clients : Ordered(Rises, toClient[c])

Place(c) ==
  /\ client[c].start \in 0 .. BufLen - 1 /\ client[c].front \in 0 .. BufLen
  /\ client[c].call \in 0 .. Calls
  /\ client[c].at = "connect" => client[c].seq = client[c].init + 1
  /\ client[c].at \in Connected =>
       /\ client[c].call >= 1
       /\ \/ client[c].seq = client[c].init + 1 /\ client[c].call = 1
          \/ /\ client[c].seq = client[c].init + 1 + BufLen
             /\ client[c].call > 1 \/ client[c].at = "done"
             /\ bits = 0 .. BufLen - 1

PlacesTrue == \A c \in Clients : Place(c)

ListenerTrue ==
  /\ listener.at # "queue" => listener.syn = <<>>
  /\ listener.at = "queue" => \E seg \in Segs : listener.syn = <<seg>>
  /\ listener.at = "return" => Len(ring) > 0
  /\ Len(ring) <= RingSize /\ Len(requests) <= MaxRequests

ServerTrue ==
  /\ server.init \in Nat /\ server.clientInit \in Nat
  /\ server.start \in 0 .. BufLen - 1
  /\ bits \subseteq 0 .. BufLen - 1
  /\ DOMAIN stored = 0 .. BufLen - 1
  /\ server.at = "accept" => server.peer = Nobody
  /\ server.at \in {"accept", "accepting"} => bits = {}
  /\ server.at \in {"recv", "acknowledge", "done"} => server.call >= 1

NInv ==
  /\ SentTrue
  /\ ReturnedTrue
  /\ RisingTrue
  /\ PlacesTrue
  /\ ListenerTrue
  /\ ServerTrue

LEMMA MoreSizes ==
  /\ RingSize \in Nat \ {0} /\ MaxRequests \in Nat \ {0} /\ Calls \in Nat \ {0}
  /\ Nobody \notin Clients
  BY SessionAssumption

LEMMA SegmentsInSegs == Segments \subseteq Segs
  BY Sizes, MoreSizes DEF Segments, Segs

LEMMA SegmentTyped ==
  ASSUME NEW c \in Clients, NEW flags \in SUBSET {"SYN", "ACK"}, NEW seq \in Nat,
         NEW number \in Nat, NEW call \in 0 .. Calls, NEW at \in 0 .. BufLen
  PROVE  Segment(c, flags, seq, number, [call |-> call, at |-> at]) \in Segments
  BY DEF Segment, Segments

LEMMA EmptySegmentTyped ==
  ASSUME NEW c \in Clients, NEW flags \in SUBSET {"SYN", "ACK"}, NEW seq \in Nat,
         NEW number \in Nat
  PROVE  Segment(c, flags, seq, number, NoData) \in Segments
  <1>1. NoData \in [call : 0 .. Calls, at : 0 .. BufLen]
    BY Sizes, MoreSizes DEF NoData
  <1> QED
    BY <1>1 DEF Segment, Segments

\* What a client has sent stays true of it.
LEMMA KeepSent ==
  ASSUME NEW c \in Clients, NEW seg, Keeps(c), Sent(c, seg)
  PROVE  Sent(c, seg)'
  BY DEF Sent, Keeps, Connected

\* What a client's record says.
LEMMA ClientTypes ==
  ASSUME Types, NEW c \in Clients
  PROVE  /\ client[c].init \in Nat /\ client[c].seq \in Int /\ client[c].serverInit \in Int
         /\ client[c].call \in Int /\ client[c].start \in Int /\ client[c].front \in Int
         /\ client[c].at \in {"start", "connect", "send", "wait", "done"}
         /\ client[c] \in ClientRecords
  BY DEF Types, ClientRecords

\* A window's segments carry their places.
LEMMA WindowSent ==
  ASSUME Types, NEW c \in Clients, Place(c), SendWindow(c)
  PROVE  \E window \in Seq(Segs) :
           /\ \A seg \in In(window) : seg.flags = {} /\ Sent(c, seg)
           /\ toServer' = [toServer EXCEPT ![c] = @ \o window]
  <1> DEFINE me == client[c]
             offset(i) == IF i = 1 THEN me.front ELSE me.start + i - 1
             n == WinEnd(me.start) - me.start
             piece(i) == Segment(c, {}, me.seq + offset(i), 0,
                                 [call |-> me.call, at |-> offset(i)])
             window == [i \in 1 .. n |-> piece(i)]
  <1>1. /\ me.start \in 0 .. BufLen - 1 /\ me.front \in 0 .. BufLen
        /\ me.seq \in Nat /\ me.call \in 0 .. Calls /\ me.call >= 1
        /\ me.init \in Nat /\ me.at \in Connected
        /\ \/ me.seq = me.init + 1 /\ me.call = 1
           \/ me.seq = me.init + 1 + BufLen /\ me.call > 1
    BY Sizes, ClientTypes DEF Place, SendWindow, Connected
  <1>2. window \in Seq(Segs) /\ \A seg \in In(window) : seg.flags = {}
    BY WindowType, Zenon
  <1>3. \A i \in 1 .. n : Sent(c, piece(i))
    <2> TAKE i \in 1 .. n
    <2>1. offset(i) \in 0 .. BufLen
      BY <1>1, Sizes DEF WinEnd
    <2>2. me.seq + offset(i) \in Nat
      BY <1>1, <2>1, Sizes
    <2> DEFINE at == offset(i)
               seq == me.seq + offset(i)
               call == me.call
    <2>3. /\ at \in 0 .. BufLen /\ seq \in Nat /\ call \in 0 .. Calls /\ call >= 1
          /\ call = 1 => seq = me.init + 1 + at
          /\ call > 1 => seq >= me.init + 1 + BufLen
      BY <1>1, <2>1, <2>2, Sizes
    <2> HIDE DEF at, seq, call
    <2> DEFINE seg == Segment(c, {}, seq, 0, [call |-> call, at |-> at])
    <2>4. seg \in Segments
      BY <2>3, SegmentTyped
    <2>5. seg.flags = {} /\ seg.from = c /\ seg.seq = seq /\ seg.data.call = call
            /\ seg.data.at = at
      BY DEF Segment
    <2> HIDE DEF seg
    <2>6. Sent(c, seg)
      BY <1>1, <2>3, <2>4, <2>5 DEF Sent
    <2> QED
      BY <2>6 DEF seg, seq, at, call
  <1>4. \A seg \in In(window) : Sent(c, seg)
    <2> HIDE DEF piece, n
    <2> QED
      BY <1>3 DEF In
  <1>5. toServer' = [toServer EXCEPT ![c] = @ \o window]
    BY DEF SendWindow
  <1> QED
    BY <1>2, <1>4, <1>5

\* A segment on its way to the server was there, or is what connect or send
\* puts there.
LEMMA NewlySent ==
  ASSUME IInv, NInv, [Next]_vars
  PROVE  \A c \in Clients : \A seg \in In(toServer'[c]) :
           seg \in In(toServer[c]) \/ Sent(c, seg)'
  <1> SUFFICES ASSUME NEW d \in Clients, NEW seg \in In(toServer'[d]),
                      seg \notin In(toServer[d])
               PROVE  Sent(d, seg)'
    OBVIOUS
  <1>0. /\ Types /\ client \in [Clients -> ClientRecords]
        /\ toServer \in [Clients -> Seq(Segs)] /\ toClient \in [Clients -> Seq(Segs)]
    BY DEF IInv, Types
  <1>1. ASSUME NEW c \in Clients, Connect(c) PROVE Sent(d, seg)'
    <2>1. PICK n \in Seqs :
            toServer' = [toServer EXCEPT ![c] = Append(@, Segment(c, {"SYN"}, n, 0, NoData))]
      BY <1>1 DEF Connect
    <2> DEFINE syn == Segment(c, {"SYN"}, n, 0, NoData)
    <2>2. n \in Nat
      BY Sizes
    <2>3. syn \in Segments /\ syn \in Segs
      BY <2>2, EmptySegmentTyped, SegmentsInSegs
    <2>4. In(Append(toServer[c], syn)) = In(toServer[c]) \cup {syn}
      BY <1>0, <2>3, InAppend
    <2>5. seg = syn /\ d = c
      BY <1>0, <2>1, <2>4
    <2>6. seg.flags = {"SYN"} /\ seg.from = d /\ seg.data = NoData
      BY <2>5 DEF Segment
    <2> QED
      BY <2>3, <2>5, <2>6 DEF Sent
  <1>2. ASSUME NEW c \in Clients, ConnectTake(c) PROVE Sent(d, seg)'
    <2> DEFINE answer == Head(toClient[c])
               number == answer.seq + 1
               sent == client[c].seq
               ack == Segment(c, {"ACK"}, sent, number, NoData)
    <2>1. answer \in Segments
      <3>1. answer \in In(toClient[c])
        BY <1>0, <1>2, InTail DEF ConnectTake
      <3> QED
        BY <3>1 DEF NInv, ReturnedTrue, Returned
    <2>2. number \in Nat /\ sent \in Nat
      <3>1. sent = client[c].init + 1 /\ client[c].init \in Nat
        BY <1>0, <1>2, ClientTypes DEF ConnectTake, NInv, PlacesTrue, Place
      <3>2. answer.seq \in Nat
        BY <2>1 DEF Segments
      <3> QED
        BY <3>1, <3>2
    <2>3. toServer' = [toServer EXCEPT ![c] = Append(@, ack)]
      BY <1>2 DEF ConnectTake
    <2> HIDE DEF number, sent
    <2>4. ack \in Segments /\ ack \in Segs
      BY <2>2, EmptySegmentTyped, SegmentsInSegs
    <2>5. In(Append(toServer[c], ack)) = In(toServer[c]) \cup {ack}
      BY <1>0, <2>4, InAppend
    <2>6. seg = ack /\ d = c
      BY <1>0, <2>3, <2>5
    <2>7. seg.flags = {"ACK"} /\ seg.from = d /\ seg.data = NoData
      BY <2>6 DEF Segment
    <2> QED
      BY <2>4, <2>6, <2>7 DEF Sent
  <1>3. ASSUME NEW c \in Clients, SendWindow(c) PROVE Sent(d, seg)'
    <2>0. Place(c)
      BY DEF NInv, PlacesTrue
    <2>1. PICK window \in Seq(Segs) :
            /\ \A piece \in In(window) : piece.flags = {} /\ Sent(c, piece)
            /\ toServer' = [toServer EXCEPT ![c] = @ \o window]
      BY <1>0, <1>3, <2>0, WindowSent
    <2>2. In(toServer[c] \o window) \subseteq In(toServer[c]) \cup In(window)
      BY <1>0, InConcat
    <2>3. seg \in In(window) /\ d = c
      BY <1>0, <2>1, <2>2
    <2>4. Keeps(d)
      BY <1>0, ClientsKeep
    <2> QED
      BY <2>1, <2>3, <2>4, KeepSent
  <1>4. ASSUME NEW c \in Clients, Deliver(c) \/ LoseToServer(c) PROVE FALSE
    <2>1. toServer[c] # <<>> /\ toServer' = [toServer EXCEPT ![c] = Tail(@)]
      BY <1>4 DEF Deliver, LoseToServer
    <2>2. In(Tail(toServer[c])) \subseteq In(toServer[c])
      BY <1>0, <2>1, InTail
    <2> QED
      BY <1>0, <2>1, <2>2
  <1>5. toServer' # toServer
    OBVIOUS
  <1> QED
    BY <1>1, <1>2, <1>3, <1>4, <1>5
    DEF Next, vars, ClientStep, Listener, ServerMain, ServerTake, Look, ReturnCount,
        QueueRequest, AcceptRequest, AcceptTake, RecvTake, Acknowledge, SendTake,
        LoseToClient, Stray

LEMMA SentStep ==
  ASSUME IInv, NInv, [Next]_vars
  PROVE  SentTrue'
  <1>0. Types /\ (\A c \in Clients : Keeps(c)) /\ SentTrue
    BY ClientsKeep DEF IInv, NInv
  <1>1. ASSUME NEW c \in Clients, NEW seg \in In(toServer[c]) PROVE Sent(c, seg)'
    BY <1>0, KeepSent DEF SentTrue
  <1>2. ASSUME NEW c \in Clients, NEW seg \in In(toServer[c]) PROVE Sent(seg.from, seg)'
    <2>1. seg.from = c
      BY <1>0 DEF SentTrue, Sent
    <2> QED
      BY <1>1, <2>1
  <1>3. ASSUME NEW seg \in In(ring) PROVE Sent(seg.from, seg)'
    <2>1. seg.from \in Clients
      BY <1>0, InSegs DEF Types, Segs
    <2> QED
      BY <1>0, <2>1, KeepSent DEF SentTrue
  <1>4. \A c \in Clients : \A seg \in In(toServer'[c]) : Sent(c, seg)'
    BY <1>1, NewlySent
  <1>5. \A seg \in In(ring') : Sent(seg.from, seg)'
    BY <1>0, <1>2, <1>3, RingMoves
  <1>6. \A seg \in Requested' : seg \in Segments
    BY <1>0, RequestMoves DEF SentTrue, Sent
  <1> QED
    BY <1>4, <1>5, <1>6 DEF SentTrue

\* The server's record.
LEMMA ServerTypes ==
  ASSUME Types
  PROVE  /\ server \in ServerRecords
         /\ server.init \in Int /\ server.clientInit \in Int /\ server.call \in Int
         /\ server.start \in Int
         /\ server.at \in {"accept", "accepting", "recv", "acknowledge", "done"}
  BY DEF Types, ServerRecords

\* What accept and recv send.
LEMMA NewlyReturned ==
  ASSUME IInv, NInv, [Next]_vars
  PROVE  \A c \in Clients : \A seg \in In(toClient'[c]) :
           seg \in In(toClient[c]) \/ Returned(c, seg)'
  <1> SUFFICES ASSUME NEW d \in Clients, NEW seg \in In(toClient'[d]),
                      seg \notin In(toClient[d])
               PROVE  Returned(d, seg)'
    OBVIOUS
  <1>0. /\ Types /\ client \in [Clients -> ClientRecords]
        /\ toServer \in [Clients -> Seq(Segs)] /\ toClient \in [Clients -> Seq(Segs)]
    BY DEF IInv, Types
  <1>1. ASSUME AcceptRequest PROVE Returned(d, seg)'
    <2> DEFINE syn == Head(requests)
               from == syn.from
               seq == syn.seq
               number == seq + 1
    <2>1. requests \in Seq(Segs) /\ requests # <<>>
      BY <1>0, <1>1 DEF AcceptRequest, Types
    <2>2. syn \in In(requests) /\ syn \in Requested
      BY <2>1, InTail DEF Requested
    <2>3. syn \in Segments
      BY <2>2 DEF NInv, SentTrue
    <2>4. from \in Clients /\ seq \in Nat /\ number \in Nat
      BY <2>3 DEF Segments
    <2>5. client[from].at # "start" /\ client[from].init = seq
      BY <2>2 DEF IInv, RequestsTrue, Carried
    <2>6. client[from].at \notin Connected
      BY <1>1, <2>4 DEF IInv, ClientsTrue, AcceptRequest
    <2>7. client[from].seq = number
      <3>1. client[from].at = "connect"
        BY <1>0, <2>4, <2>5, <2>6, ClientTypes DEF Connected
      <3> QED
        BY <2>4, <2>5, <3>1 DEF NInv, PlacesTrue, Place
    <2>8. PICK n \in Seqs :
            /\ server' = [server EXCEPT !.at = "accepting", !.peer = from, !.init = n,
                                        !.clientInit = seq]
            /\ toClient' = [toClient EXCEPT ![from] = Append(@,
                 Segment(from, {"SYN", "ACK"}, n, number, NoData))]
            /\ client' = client
      BY <1>1 DEF AcceptRequest
    <2> HIDE DEF syn, from, seq
    <2> DEFINE answer == Segment(from, {"SYN", "ACK"}, n, number, NoData)
    <2>9. number = seq + 1
      OBVIOUS
    <2> HIDE DEF number
    <2>10. answer \in Segments /\ answer \in Segs
      BY <2>4, Sizes, EmptySegmentTyped, SegmentsInSegs
    <2>11. In(Append(toClient[from], answer)) = In(toClient[from]) \cup {answer}
      BY <1>0, <2>4, <2>10, InAppend
    <2>12. seg = answer /\ d = from
      BY <1>0, <2>4, <2>8, <2>11
    <2>13. seg.number = number
      BY <2>12 DEF Segment
    <2>14. server'.at = "accepting" /\ server'.peer = d /\ server'.clientInit = seq
      BY <1>0, <2>8, <2>12, ServerTypes DEF ServerRecords
    <2>15. client'[d].seq = number
      BY <2>7, <2>8, <2>12
    <2>16. /\ seg.number >= server'.clientInit + 1
           /\ seg.number <= server'.clientInit + 1 + BufLen
           /\ ~ \E j \in 0 .. BufLen - 1 : j < seg.number - (server'.clientInit + 1)
      BY <2>4, <2>9, <2>13, <2>14, Sizes
    <2> QED
      BY <2>4, <2>10, <2>12, <2>13, <2>14, <2>15, <2>16 DEF Returned
  <1>2. ASSUME Acknowledge PROVE Returned(d, seg)'
    <2>1. PICK next \in 0 .. BufLen :
            /\ next \notin bits /\ \A j \in 0 .. next - 1 : j \in bits
            /\ toClient' = [toClient EXCEPT ![server.peer] = Append(@,
                 Segment(server.peer, {"ACK"}, server.init + 1,
                         server.clientInit + 1 + next, NoData))]
      BY <1>2 DEF Acknowledge
    <2> DEFINE seq == server.init + 1
               number == server.clientInit + 1 + next
               peer == server.peer
               ack == Segment(peer, {"ACK"}, seq, number, NoData)
    <2>2. peer \in Clients /\ server.at = "acknowledge"
      BY <1>0, <1>2 DEF Acknowledge, Types
    <2>3. seq \in Nat /\ number \in Nat /\ server.clientInit \in Nat
      BY Sizes DEF NInv, ServerTrue
    <2>4. toClient' = [toClient EXCEPT ![peer] = Append(@, ack)]
      BY <2>1
    <2>5. number = server.clientInit + 1 + next
      OBVIOUS
    <2> HIDE DEF seq, number
    <2>6. ack \in Segments /\ ack \in Segs
      BY <2>2, <2>3, EmptySegmentTyped, SegmentsInSegs
    <2>7. In(Append(toClient[peer], ack)) = In(toClient[peer]) \cup {ack}
      BY <1>0, <2>2, <2>6, InAppend
    <2>8. seg = ack /\ d = peer
      BY <1>0, <2>2, <2>4, <2>7
    <2>9. seg.number = number
      BY <2>8 DEF Segment
    <2>10. server'.at # "accept" /\ server'.peer = d /\ server'.clientInit = server.clientInit
      BY <1>0, <2>2, <2>8, ServerKept DEF ServerKeeps
    <2>11. client' = client /\ bits' = bits
      BY <1>2 DEF Acknowledge
    <2>12. client[d].seq <= number
      <3>1. client[d].at \in Connected /\ client[d].init = server.clientInit
        BY <2>2, <2>8 DEF IInv, Accepted, PeerTrue
      <3>2. \/ client[d].seq = client[d].init + 1
            \/ client[d].seq = client[d].init + 1 + BufLen /\ bits = 0 .. BufLen - 1
        BY <3>1 DEF NInv, PlacesTrue, Place
      <3>3. bits = 0 .. BufLen - 1 => next = BufLen
        BY <2>1, Sizes
      <3> QED
        BY <2>3, <2>5, <3>1, <3>2, <3>3, Sizes
    <2>13. /\ seg.number >= server'.clientInit + 1
           /\ seg.number <= server'.clientInit + 1 + BufLen
      BY <2>3, <2>5, <2>9, <2>10, Sizes
    <2>14. \A j \in 0 .. BufLen - 1 : j < seg.number - (server'.clientInit + 1) => j \in bits'
      <3>1. seg.number - (server'.clientInit + 1) = next
        BY <2>3, <2>5, <2>9, <2>10, Sizes
      <3> QED
        BY <2>1, <2>11, <3>1, Sizes
    <2> QED
      BY <2>6, <2>8, <2>9, <2>10, <2>11, <2>12, <2>13, <2>14 DEF Returned
  <1>3. ASSUME NEW c \in Clients, Stray(c) PROVE Returned(d, seg)'
    <2> DEFINE stray == Segment(c, {}, 0, 0, NoData)
    <2>1. stray \in Segments /\ stray \in Segs
      BY EmptySegmentTyped, SegmentsInSegs
    <2>2. In(Append(toClient[c], stray)) = In(toClient[c]) \cup {stray}
      BY <1>0, <2>1, InAppend
    <2>3. seg = stray
      BY <1>0, <1>3, <2>2 DEF Stray
    <2>4. seg.flags = {}
      BY <2>3 DEF Segment
    <2> QED
      BY <2>1, <2>3, <2>4 DEF Returned
  <1>4. ASSUME NEW c \in Clients, ConnectTake(c) \/ SendTake(c) \/ LoseToClient(c)
        PROVE  FALSE
    <2>1. toClient[c] # <<>> /\ toClient' = [toClient EXCEPT ![c] = Tail(@)]
      BY <1>4 DEF ConnectTake, SendTake, LoseToClient
    <2>2. In(Tail(toClient[c])) \subseteq In(toClient[c])
      BY <1>0, <2>1, InTail
    <2> QED
      BY <1>0, <2>1, <2>2
  <1>5. toClient' # toClient
    OBVIOUS
  <1> QED
    BY <1>1, <1>2, <1>3, <1>4, <1>5
    DEF Next, vars, ClientStep, Listener, ServerMain, ServerTake, Look, ReturnCount,
        QueueRequest, AcceptTake, RecvTake, Connect, SendWindow, Deliver, LoseToServer

\* Bits are only set.
LEMMA BitsKept == Types /\ [Next]_vars => bits \subseteq bits'
  BY DEF Next, vars, ClientStep, Listener, ServerMain, ServerTake, Look, ReturnCount,
         QueueRequest, AcceptRequest, AcceptTake, RecvTake, Acknowledge, Deliver,
         LoseToServer, LoseToClient, Stray, Connect, ConnectTake, SendWindow, SendTake

\* What an acknowledgement says to the client that takes it: the place where
\* the window starts is not negative, and when it is the end the call was the
\* first, every bit is set and the number is the next call's.
LEMMA Acknowledged ==
  ASSUME IInv, NInv, NEW c \in Clients, client[c].at = "wait",
         NEW seg \in In(toClient[c]), "ACK" \in seg.flags
  PROVE  /\ seg.number \in Nat /\ seg.number - client[c].seq >= 0
         /\ seg.number - client[c].seq >= BufLen =>
              /\ client[c].seq = client[c].init + 1 /\ client[c].call = 1
              /\ seg.number = client[c].init + 1 + BufLen
              /\ 0 .. BufLen - 1 \subseteq bits
  <1>1. Returned(c, seg) /\ Place(c)
    BY DEF NInv, ReturnedTrue, PlacesTrue
  <1>2. /\ server.at # "accept" /\ server.peer = c
        /\ client[c].init = server.clientInit
    BY <1>1 DEF Returned, IInv, PeerTrue
  <1>3. seg.number \in Nat
    BY <1>1 DEF Returned, Segments
  <1>4. client[c].init \in Nat /\ client[c].seq \in Int /\ BufLen \in Nat \ {0}
    BY Sizes, ClientTypes DEF IInv
  <1>5. /\ client[c].seq <= seg.number
        /\ seg.number <= client[c].init + 1 + BufLen
        /\ \A j \in 0 .. BufLen - 1 : j < seg.number - (client[c].init + 1) => j \in bits
    BY <1>1, <1>2 DEF Returned
  <1>6. \/ client[c].seq = client[c].init + 1 /\ client[c].call = 1
        \/ client[c].seq = client[c].init + 1 + BufLen
    BY <1>1 DEF Place, Connected
  <1> QED
    BY <1>3, <1>4, <1>5, <1>6

(***************************************************************************)
(* The three ways out of the wait for an acknowledgement: the same window  *)
(* again, the next window, the end of the call.                            *)
(***************************************************************************)
Again(c) == client'[c] = [client[c] EXCEPT !.at = "send"]

Onward(c) ==
  \E start \in 0 .. BufLen - 1 :
    client'[c] = [client[c] EXCEPT !.at = "send", !.start = start, !.front = start]

Finished(c) ==
  \E call \in 1 .. Calls, at \in {"send", "done"}, seq \in Nat :
    /\ call > 1 \/ at = "done"
    /\ seq = client[c].init + 1 + BufLen
    /\ client'[c] = [client[c] EXCEPT !.at = at, !.call = call, !.seq = seq,
                                      !.start = 0, !.front = 0]

LastAcknowledged(c, seg) ==
  /\ "ACK" \in seg.flags /\ seg.number = client[c].init + 1 + BufLen
  /\ client[c].seq = client[c].init + 1 /\ client[c].call = 1
  /\ 0 .. BufLen - 1 \subseteq bits

LEMMA SendTakeCases ==
  ASSUME IInv, NInv, NEW c \in Clients, SendTake(c)
  PROVE  /\ Head(toClient[c]) \in In(toClient[c])
         /\ client' = [client EXCEPT ![c] = client'[c]]
         /\ \/ Again(c)
            \/ Onward(c)
            \/ Finished(c) /\ LastAcknowledged(c, Head(toClient[c]))
  <1> DEFINE me == client[c]
             seg == Head(toClient[c])
             start == seg.number - me.seq
             at == IF me.call < Calls THEN "send" ELSE "done"
             call == IF me.call < Calls THEN me.call + 1 ELSE me.call
             seq == me.seq + BufLen
             same == [me EXCEPT !.at = "send"]
             moved == [me EXCEPT !.at = "send", !.start = start, !.front = start]
             over == [me EXCEPT !.at = at, !.call = call, !.seq = seq, !.start = 0,
                                !.front = 0]
  <1>0. /\ client \in [Clients -> ClientRecords] /\ toClient \in [Clients -> Seq(Segs)]
        /\ me.init \in Nat
    BY ClientTypes DEF IInv, Types
  <1>1. seg \in In(toClient[c]) /\ me.at = "wait"
    BY <1>0, InTail DEF SendTake
  <1>2. client' = [client EXCEPT ![c] =
          CASE "ACK" \notin seg.flags -> same
            [] "ACK" \in seg.flags /\ start < BufLen -> moved
            [] OTHER -> over]
    BY DEF SendTake
  <1> HIDE DEF same, moved, over
  <1>3. client' = [client EXCEPT ![c] = client'[c]]
    BY <1>0, <1>2
  <1>4. CASE "ACK" \notin seg.flags
    <2>1. client'[c] = same
      BY <1>0, <1>2, <1>4
    <2> QED
      BY <1>1, <1>3, <2>1 DEF same, Again
  <1>5. CASE "ACK" \in seg.flags /\ start < BufLen
    <2>1. client'[c] = moved
      BY <1>0, <1>2, <1>5
    <2>2. start \in 0 .. BufLen - 1
      BY <1>1, <1>5, Acknowledged, ClientTypes, Sizes DEF IInv
    <2> QED
      BY <1>1, <1>3, <2>1, <2>2 DEF moved, Onward
  <1>6. CASE "ACK" \in seg.flags /\ ~ (start < BufLen)
    <2>1. client'[c] = over
      BY <1>0, <1>2, <1>6
    <2>2. start >= BufLen
      BY <1>1, <1>6, Acknowledged, ClientTypes, Sizes DEF IInv
    <2>3. /\ me.seq = me.init + 1 /\ me.call = 1
          /\ seg.number = me.init + 1 + BufLen
          /\ 0 .. BufLen - 1 \subseteq bits
      BY <1>1, <1>6, <2>2, Acknowledged
    <2>4. /\ seq = me.init + 1 + BufLen /\ seq \in Nat
          /\ call \in 1 .. Calls /\ at \in {"send", "done"}
          /\ call > 1 \/ at = "done"
      BY <1>0, <2>3, Sizes, MoreSizes
    <2> HIDE DEF at, call, seq
    <2>5. Finished(c)
      BY <2>1, <2>4 DEF over, Finished
    <2>6. LastAcknowledged(c, seg)
      BY <1>6, <2>3 DEF LastAcknowledged
    <2> QED
      BY <1>1, <1>3, <2>5, <2>6
  <1> QED
    BY <1>4, <1>5, <1>6

\* A client's number grows only when it takes the last acknowledgement of the
\* call, and those behind that one name the same place.
LEMMA NumbersKept ==
  ASSUME IInv, NInv, [Next]_vars, NEW c \in Clients, NEW seg \in In(toClient'[c]),
         seg \in In(toClient[c]), "ACK" \in seg.flags
  PROVE  client'[c].seq <= seg.number
  <1>0. /\ Types /\ client \in [Clients -> ClientRecords] /\ toClient \in [Clients -> Seq(Segs)]
    BY DEF IInv, Types
  <1>1. /\ server.at # "accept" /\ server.peer = c /\ client[c].seq <= seg.number
        /\ client[c].at # "start"
    BY DEF NInv, ReturnedTrue, Returned, IInv, PeerTrue
  <1>2. ASSUME NEW d \in Clients, Connect(d) PROVE client'[c].seq = client[c].seq
    <2>1. c # d
      BY <1>1, <1>2 DEF Connect
    <2> QED
      BY <1>0, <1>2, <2>1 DEF Connect
  <1>3. ASSUME NEW d \in Clients, ConnectTake(d) PROVE client'[c].seq = client[c].seq
    <2> DEFINE n == Head(toClient[d]).seq
               one == 1
               r == [client[d] EXCEPT !.at = "send", !.serverInit = n, !.call = one]
    <2>1. client[d] \in ClientRecords
      BY <1>0
    <2>2. client' = [client EXCEPT ![d] = r] \/ client' = client
      BY <1>3 DEF ConnectTake
    <2> HIDE DEF n, one
    <2>3. r.seq = client[d].seq
      BY <2>1 DEF ClientRecords
    <2> HIDE DEF r
    <2> QED
      BY <1>0, <2>2, <2>3
  <1>4. ASSUME NEW d \in Clients, SendWindow(d) PROVE client'[c].seq = client[c].seq
    BY <1>0, <1>4 DEF SendWindow, ClientRecords
  <1>5. ASSUME NEW d \in Clients, SendTake(d) PROVE client'[c].seq <= seg.number
    <2> DEFINE me == client[d]
               first == Head(toClient[d])
    <2>0. client' = [client EXCEPT ![d] = client'[d]]
      BY <1>5, SendTakeCases
    <2>1. CASE c # d
      <3>1. client'[c] = client[c]
        BY <1>0, <2>0, <2>1
      <3> QED
        BY <1>1, <3>1
    <2>2. CASE c = d
      <3>0. me \in ClientRecords
        BY <1>0
      <3>1. Again(d) => client'[c].seq = me.seq
        BY <3>0, <2>2 DEF Again, ClientRecords
      <3>2. Onward(d) => client'[c].seq = me.seq
        BY <3>0, <2>2 DEF Onward, ClientRecords
      <3>3. ASSUME Finished(d), LastAcknowledged(d, first)
            PROVE  "ACK" \in first.flags /\ client'[c].seq = first.number
        <4>1. client'[d].seq = client[d].init + 1 + BufLen
          BY <3>0, <3>3 DEF Finished, ClientRecords
        <4> QED
          BY <2>2, <3>3, <4>1 DEF LastAcknowledged
      <3>4. \/ client'[c].seq = me.seq
            \/ "ACK" \in first.flags /\ client'[c].seq = first.number
        BY <1>5, <3>1, <3>2, <3>3, SendTakeCases
      <3>5. CASE "ACK" \in first.flags
        <4>1. toClient[c] # <<>> /\ toClient' = [toClient EXCEPT ![c] = Tail(@)]
          BY <1>5, <2>2 DEF SendTake
        <4>2. seg \in In(Tail(toClient[c]))
          BY <1>0, <4>1
        <4>3. <<first, seg>> \in Rises
          BY <1>0, <2>2, <4>1, <4>2, OrderedTail DEF NInv, RisingTrue
        <4>4. first.number <= seg.number
          BY <3>5, <4>3 DEF Rises
        <4> QED
          BY <1>1, <2>2, <3>4, <4>4
      <3> QED
        BY <1>1, <2>2, <3>4, <3>5
    <2> QED
      BY <2>1, <2>2
  <1>6. (\A d \in Clients : ~ (Connect(d) \/ ClientStep(d))) => client' = client
    BY DEF Next, vars, ClientStep, Listener, ServerMain, ServerTake, Look, ReturnCount,
           QueueRequest, AcceptRequest, AcceptTake, RecvTake, Acknowledge, Deliver,
           LoseToServer, LoseToClient, Stray
  <1> QED
    BY <1>1, <1>2, <1>3, <1>4, <1>5, <1>6 DEF ClientStep

LEMMA ReturnedStep ==
  ASSUME IInv, NInv, [Next]_vars
  PROVE  ReturnedTrue'
  <1>0. Types /\ ServerKeeps /\ bits \subseteq bits'
    BY ServerKept, BitsKept DEF IInv
  <1>1. ASSUME NEW c \in Clients, NEW seg \in In(toClient'[c]), seg \in In(toClient[c])
        PROVE  Returned(c, seg)'
    <2>1. Returned(c, seg)
      BY <1>1 DEF NInv, ReturnedTrue
    <2>2. CASE "ACK" \notin seg.flags
      BY <2>1, <2>2 DEF Returned
    <2>3. CASE "ACK" \in seg.flags
      <3>1. client'[c].seq <= seg.number
        BY <1>1, <2>3, NumbersKept
      <3>2. /\ server'.at # "accept" /\ server'.peer = c
            /\ server'.clientInit = server.clientInit
        BY <1>0, <2>1, <2>3 DEF Returned, ServerKeeps
      <3> QED
        BY <1>0, <2>1, <3>1, <3>2 DEF Returned
    <2> QED
      BY <2>2, <2>3
  <1> QED
    BY <1>1, NewlyReturned DEF ReturnedTrue

LEMMA RisingStep ==
  ASSUME IInv, NInv, [Next]_vars
  PROVE  RisingTrue'
  <1> SUFFICES ASSUME NEW d \in Clients PROVE Ordered(Rises, toClient'[d])
    BY DEF RisingTrue
  <1>0. /\ Types /\ toClient \in [Clients -> Seq(Segs)]
        /\ \A c \in Clients : Ordered(Rises, toClient[c])
    BY DEF IInv, NInv, Types, RisingTrue
  <1>1. ASSUME AcceptRequest PROVE Ordered(Rises, toClient'[d])
    <2> DEFINE syn == Head(requests)
               from == syn.from
               number == syn.seq + 1
    <2>1. syn \in Segs
      BY <1>0, <1>1, InTail DEF AcceptRequest, Types
    <2>2. from \in Clients /\ number \in Int
      BY <2>1 DEF Segs
    <2>3. PICK n \in Seqs :
            toClient' = [toClient EXCEPT ![from] = Append(@,
              Segment(from, {"SYN", "ACK"}, n, number, NoData))]
      BY <1>1 DEF AcceptRequest
    <2> HIDE DEF syn, from, number
    <2> DEFINE answer == Segment(from, {"SYN", "ACK"}, n, number, NoData)
    <2>4. answer \in Segs
      BY <2>2, Sizes, NoDataType, SegmentType
    <2>5. \A seg \in In(toClient[from]) : <<seg, answer>> \in Rises
      <3> TAKE seg \in In(toClient[from])
      <3>1. "ACK" \notin seg.flags
        BY <1>1, <2>2 DEF NInv, ReturnedTrue, Returned, AcceptRequest
      <3>2. seg \in Segs
        BY <1>0, <2>2, InSegs
      <3> HIDE DEF answer
      <3> QED
        BY <2>4, <3>1, <3>2 DEF Rises
    <2>6. Ordered(Rises, Append(toClient[from], answer))
      BY <1>0, <2>2, <2>4, <2>5, OrderedAppend
    <2> QED
      BY <1>0, <2>2, <2>3, <2>6
  <1>2. ASSUME Acknowledge PROVE Ordered(Rises, toClient'[d])
    <2>1. PICK next \in 0 .. BufLen :
            /\ next \notin bits /\ \A j \in 0 .. next - 1 : j \in bits
            /\ toClient' = [toClient EXCEPT ![server.peer] = Append(@,
                 Segment(server.peer, {"ACK"}, server.init + 1,
                         server.clientInit + 1 + next, NoData))]
      BY <1>2 DEF Acknowledge
    <2> DEFINE seq == server.init + 1
               number == server.clientInit + 1 + next
               peer == server.peer
               ack == Segment(peer, {"ACK"}, seq, number, NoData)
    <2>2. peer \in Clients
      BY <1>0, <1>2 DEF Acknowledge, Types
    <2>3. seq \in Int /\ number \in Int /\ server.clientInit \in Nat
      BY Sizes DEF NInv, ServerTrue
    <2>4. toClient' = [toClient EXCEPT ![peer] = Append(@, ack)]
      BY <2>1
    <2>5. number = server.clientInit + 1 + next
      OBVIOUS
    <2> HIDE DEF seq, number
    <2>6. ack \in Segs /\ ack.number = number
      BY <2>2, <2>3, NoDataType, SegmentType DEF Segment
    <2>7. \A seg \in In(toClient[peer]) : <<seg, ack>> \in Rises
      <3> SUFFICES ASSUME NEW seg \in In(toClient[peer]), "ACK" \in seg.flags
                   PROVE  seg.number <= number
        <4> HIDE DEF ack
        <4> QED
          BY <1>0, <2>2, <2>6, InSegs DEF Rises
      <3>1. Returned(peer, seg)
        BY <2>2 DEF NInv, ReturnedTrue
      <3>2. seg.number \in Nat
        BY <3>1 DEF Returned, Segments
      <3>3. /\ seg.number <= server.clientInit + 1 + BufLen
            /\ \A j \in 0 .. BufLen - 1 :
                 j < seg.number - (server.clientInit + 1) => j \in bits
        BY <3>1 DEF Returned
      <3> QED
        BY <2>1, <2>3, <2>5, <3>2, <3>3, Sizes
    <2>8. Ordered(Rises, Append(toClient[peer], ack))
      <3> HIDE DEF ack
      <3> QED
        BY <1>0, <2>2, <2>6, <2>7, OrderedAppend
    <2> QED
      BY <1>0, <2>2, <2>4, <2>8
  <1>3. ASSUME NEW c \in Clients, Stray(c) PROVE Ordered(Rises, toClient'[d])
    <2> DEFINE stray == Segment(c, {}, 0, 0, NoData)
    <2>1. stray \in Segs /\ "ACK" \notin stray.flags
      BY NoDataType, SegmentType DEF Segment
    <2>2. toClient' = [toClient EXCEPT ![c] = Append(@, stray)]
      BY <1>3 DEF Stray
    <2> HIDE DEF stray
    <2>3. \A seg \in In(toClient[c]) : <<seg, stray>> \in Rises
      BY <1>0, <2>1, InSegs DEF Rises
    <2>4. Ordered(Rises, Append(toClient[c], stray))
      BY <1>0, <2>1, <2>3, OrderedAppend
    <2> QED
      BY <1>0, <2>2, <2>4
  <1>4. ASSUME NEW c \in Clients, ConnectTake(c) \/ SendTake(c) \/ LoseToClient(c)
        PROVE  Ordered(Rises, toClient'[d])
    <2>1. toClient[c] # <<>> /\ toClient' = [toClient EXCEPT ![c] = Tail(@)]
      BY <1>4 DEF ConnectTake, SendTake, LoseToClient
    <2>2. Ordered(Rises, Tail(toClient[c]))
      BY <1>0, <2>1, OrderedTail
    <2> QED
      BY <1>0, <2>1, <2>2
  <1>5. CASE toClient' = toClient
    BY <1>0, <1>5
  <1> QED
    BY <1>1, <1>2, <1>3, <1>4, <1>5
    DEF Next, vars, ClientStep, Listener, ServerMain, ServerTake, Look, ReturnCount,
        QueueRequest, AcceptTake, RecvTake, Connect, SendWindow, Deliver, LoseToServer

(***************************************************************************)
(* The server's numbers.                                                   *)
(***************************************************************************)
LEMMA HeadOfFull ==
  ASSUME Types, ListenerTrue, Full > 0
  PROVE  /\ ring # <<>> /\ Len(ring) > 0
         /\ Head(ring) \in In(ring) /\ Tail(ring) \in Seq(Segs)
         /\ Len(Tail(ring)) = Len(ring) - 1
         /\ listener.at = "return" => Len(Tail(ring)) > 0
  <1>1. Len(ring) \in Nat /\ ring \in Seq(Segs)
    BY LenProperties DEF Types
  <1>2. Len(ring) > 0 /\ (listener.at = "return" => Len(ring) > 1)
    BY <1>1 DEF Full
  <1>3. ring # <<>>
    BY <1>2, EmptySeq
  <1>4. Len(Tail(ring)) = Len(ring) - 1
    BY <1>1, <1>3, HeadTailProperties
  <1> QED
    BY <1>1, <1>2, <1>3, <1>4, InTail

\* The place of a segment that recv takes.
LEMMA TakenPlace ==
  ASSUME Types, NInv, RecvTake
  PROVE  \/ bits' = bits /\ stored' = stored
         \/ \E at \in 0 .. BufLen - 1 :
              /\ at = Head(ring).seq - (server.clientInit + 1)
              /\ bits' = bits \cup {at}
              /\ stored' = [stored EXCEPT ![at] = IF Head(ring).data = NoData THEN @
                                                  ELSE Head(ring).data]
  <1> DEFINE at == Head(ring).seq - (server.clientInit + 1)
  <1>1. Head(ring) \in Segments
    <2>1. Head(ring) \in In(ring)
      BY HeadOfFull DEF NInv, RecvTake
    <2> QED
      BY <2>1 DEF NInv, SentTrue, Sent
  <1>2. Head(ring).seq \in Nat /\ server.clientInit \in Nat
    BY <1>1 DEF Segments, NInv, ServerTrue
  <1>3. CASE at >= server.start /\ at < WinEnd(server.start)
    <2>1. server.start \in 0 .. BufLen - 1
      BY DEF NInv, ServerTrue
    <2>2. at \in 0 .. BufLen - 1
      BY <1>2, <1>3, <2>1, Sizes DEF WinEnd
    <2> QED
      BY <1>3, <2>2 DEF RecvTake
  <1>4. CASE ~ (at >= server.start /\ at < WinEnd(server.start))
    BY <1>4 DEF RecvTake
  <1> QED
    BY <1>3, <1>4

LEMMA ServerStep ==
  ASSUME IInv, NInv, [Next]_vars
  PROVE  ServerTrue'
  <1>0. Types /\ ServerTrue /\ server \in ServerRecords
    BY DEF IInv, NInv, Types
  <1>1. ASSUME AcceptRequest PROVE ServerTrue'
    <2> DEFINE from == Head(requests).from
               seq == Head(requests).seq
    <2>1. Head(requests) \in Segments
      <3>1. Head(requests) \in In(requests)
        BY <1>0, <1>1, InTail DEF AcceptRequest, Types
      <3> QED
        BY <3>1 DEF NInv, SentTrue, Requested
    <2>2. seq \in Nat
      BY <2>1 DEF Segments
    <2>3. PICK n \in Seqs :
            server' = [server EXCEPT !.at = "accepting", !.peer = from, !.init = n,
                                     !.clientInit = seq]
      BY <1>1 DEF AcceptRequest
    <2> HIDE DEF from, seq
    <2>4. n \in Nat /\ bits' = bits /\ stored' = stored /\ server.at = "accept"
      BY <1>1, Sizes DEF AcceptRequest
    <2>5. /\ server'.at = "accepting" /\ server'.init = n /\ server'.clientInit = seq
          /\ server'.start = server.start
      BY <1>0, <2>3 DEF ServerRecords
    <2> QED
      BY <1>0, <2>2, <2>4, <2>5 DEF ServerTrue
  <1>2. ASSUME AcceptTake PROVE ServerTrue'
    <2> DEFINE one == 1
               r == [server EXCEPT !.at = "recv", !.call = one]
    <2>1. /\ server' = r \/ server' = server
          /\ bits' = bits /\ stored' = stored
      BY <1>2 DEF AcceptTake
    <2>2. one >= 1
      OBVIOUS
    <2> HIDE DEF one
    <2>3. /\ r.at = "recv" /\ r.init = server.init /\ r.clientInit = server.clientInit
          /\ r.start = server.start /\ r.call = one
      BY <1>0 DEF ServerRecords
    <2> HIDE DEF r
    <2>4. CASE server' = server
      BY <1>0, <2>1, <2>4 DEF ServerTrue
    <2>5. CASE server' = r
      BY <1>0, <2>1, <2>2, <2>3, <2>5 DEF ServerTrue
    <2> QED
      BY <2>1, <2>4, <2>5
  <1>3. ASSUME RecvTake PROVE ServerTrue'
    <2>1. /\ bits' \subseteq 0 .. BufLen - 1 /\ DOMAIN stored' = 0 .. BufLen - 1
      BY <1>0, <1>3, TakenPlace DEF ServerTrue
    <2>2. /\ server'.at \in {"recv", "acknowledge"} /\ server'.init = server.init
          /\ server'.clientInit = server.clientInit /\ server'.start = server.start
          /\ server'.call = server.call /\ server.at = "recv"
      BY <1>0, <1>3 DEF RecvTake, ServerRecords
    <2> QED
      BY <1>0, <2>1, <2>2 DEF ServerTrue
  <1>4. ASSUME Acknowledge PROVE ServerTrue'
    <2> DEFINE over(next) == next >= BufLen
               last == server.call = Calls
    <2>1. PICK next \in 0 .. BufLen :
           /\ server' = [server EXCEPT
                !.at = IF over(next) /\ last THEN "done" ELSE "recv",
                !.call = IF over(next) /\ ~ last THEN @ + 1 ELSE @,
                !.start = IF over(next) THEN 0 ELSE next]
           /\ stored' = IF over(next) /\ ~ last THEN [j \in 0 .. BufLen - 1 |-> NoData]
                        ELSE stored
      BY <1>4 DEF Acknowledge
    <2>2. server.at = "acknowledge" /\ bits' = bits /\ server.call \in Int /\ server.call >= 1
      BY <1>0, <1>4, ServerTypes DEF Acknowledge, ServerTrue
    <2> DEFINE at == IF over(next) /\ last THEN "done" ELSE "recv"
               call == IF over(next) /\ ~ last THEN server.call + 1 ELSE server.call
               start == IF over(next) THEN 0 ELSE next
    <2>3. at \in {"recv", "done"} /\ call >= 1 /\ start \in 0 .. BufLen - 1
      BY <2>2, Sizes
    <2>4. server' = [server EXCEPT !.at = at, !.call = call, !.start = start]
      BY <2>1
    <2>5. DOMAIN stored' = 0 .. BufLen - 1
      BY <1>0, <2>1 DEF ServerTrue
    <2> HIDE DEF at, call, start
    <2>6. /\ server'.at = at /\ server'.call = call /\ server'.start = start
          /\ server'.init = server.init /\ server'.clientInit = server.clientInit
      BY <1>0, <2>4 DEF ServerRecords
    <2> QED
      BY <1>0, <2>2, <2>3, <2>5, <2>6 DEF ServerTrue
  <1>5. CASE server' = server /\ bits' = bits /\ stored' = stored
    BY <1>0, <1>5 DEF ServerTrue
  <1> QED
    BY <1>1, <1>2, <1>3, <1>4, <1>5
    DEF Next, vars, ClientStep, Listener, ServerMain, ServerTake, Look, ReturnCount,
        QueueRequest, Deliver, LoseToServer, LoseToClient, Stray, Connect, ConnectTake,
        SendWindow, SendTake

(***************************************************************************)
(* The listener, the ring and the request queue.                           *)
(***************************************************************************)
LEMMA ListenerStep ==
  ASSUME IInv, NInv, [Next]_vars
  PROVE  ListenerTrue'
  <1>0. /\ Types /\ ListenerTrue /\ ring \in Seq(Segs) /\ requests \in Seq(Segs)
        /\ listener \in [at : {"look", "return", "queue"}, syn : Seq(Segs)]
        /\ Len(ring) \in Nat /\ Len(requests) \in Nat
    BY LenProperties DEF IInv, NInv, Types
  <1>1. ASSUME Look PROVE ListenerTrue'
    <2>0. /\ Full > 0 /\ requests' = requests /\ listener.at = "look"
          /\ Head(ring) \in Segs /\ Len(Tail(ring)) = Len(ring) - 1 /\ Len(ring) > 0
      BY <1>0, <1>1, HeadOfFull, InSegs DEF Look
    <2>1. CASE "SYN" \in Head(ring).flags
      <3>1. /\ ring' = Tail(ring)
            /\ listener' = [at |-> "queue", syn |-> <<Head(ring)>>]
        BY <1>1, <2>1 DEF Look
      <3>2. listener'.at = "queue" /\ \E seg \in Segs : listener'.syn = <<seg>>
        BY <2>0, <3>1
      <3>3. Len(ring') <= RingSize /\ Len(requests') <= MaxRequests
        BY <1>0, <2>0, <3>1, MoreSizes DEF ListenerTrue
      <3> QED
        BY <3>2, <3>3 DEF ListenerTrue
    <2>2. CASE "SYN" \notin Head(ring).flags
      <3>1. ring' = ring /\ listener' = [listener EXCEPT !.at = "return"]
        BY <1>1, <2>2 DEF Look
      <3> QED
        BY <1>0, <2>0, <3>1 DEF ListenerTrue
    <2> QED
      BY <2>1, <2>2
  <1>2. ASSUME ReturnCount PROVE ListenerTrue'
    BY <1>0, <1>2 DEF ReturnCount, ListenerTrue
  <1>3. ASSUME QueueRequest PROVE ListenerTrue'
    <2>1. PICK seg \in Segs : listener.syn = <<seg>>
      BY <1>3, <1>0 DEF QueueRequest, ListenerTrue
    <2>2. Len(requests \o listener.syn) = Len(requests) + 1
      BY <1>0, <2>1, ConcatProperties
    <2>3. Len(requests') <= MaxRequests
      BY <1>0, <1>3, <2>2, MoreSizes DEF QueueRequest
    <2>4. listener' = [at |-> "look", syn |-> <<>>] /\ ring' = ring
      BY <1>3 DEF QueueRequest
    <2> QED
      BY <1>0, <2>3, <2>4 DEF ListenerTrue
  <1>4. ASSUME AcceptRequest PROVE ListenerTrue'
    <2>1. Len(requests') = Len(requests) - 1 /\ listener' = listener /\ ring' = ring
      BY <1>0, <1>4, HeadTailProperties DEF AcceptRequest
    <2> QED
      BY <1>0, <2>1, MoreSizes DEF ListenerTrue
  <1>5. ASSUME AcceptTake \/ RecvTake PROVE ListenerTrue'
    <2>1. Full > 0 /\ ring' = Tail(ring) /\ listener' = listener /\ requests' = requests
      BY <1>5 DEF AcceptTake, RecvTake
    <2>2. Len(Tail(ring)) = Len(ring) - 1 /\ (listener.at = "return" => Len(Tail(ring)) > 0)
      BY <1>0, <2>1, HeadOfFull
    <2> QED
      BY <1>0, <2>1, <2>2, MoreSizes DEF ListenerTrue
  <1>6. ASSUME NEW c \in Clients, Deliver(c) PROVE ListenerTrue'
    <2>1. Head(toServer[c]) \in Segs
      BY <1>0, <1>6, InTail DEF Deliver, Types
    <2>2. Len(ring') = Len(ring) + 1
      BY <1>0, <1>6, <2>1, AppendProperties DEF Deliver
    <2>3. listener' = listener /\ requests' = requests /\ Len(ring) < RingSize
      BY <1>6 DEF Deliver
    <2> QED
      BY <1>0, <2>2, <2>3, MoreSizes DEF ListenerTrue
  <1>7. CASE listener' = listener /\ requests' = requests /\ ring' = ring
    BY <1>0, <1>7 DEF ListenerTrue
  <1> QED
    BY <1>1, <1>2, <1>3, <1>4, <1>5, <1>6, <1>7
    DEF Next, vars, ClientStep, Listener, ServerMain, ServerTake,
        LoseToServer, LoseToClient, Stray, Connect, ConnectTake,
        SendWindow, SendTake, Acknowledge

(***************************************************************************)
(* The clients' numbers.                                                   *)
(***************************************************************************)
LEMMA PlacesStep ==
  ASSUME IInv, NInv, [Next]_vars
  PROVE  PlacesTrue'
  <1> SUFFICES ASSUME NEW d \in Clients PROVE Place(d)'
    BY DEF PlacesTrue
  <1>0. /\ Types /\ client \in [Clients -> ClientRecords]
        /\ \A c \in Clients : Place(c) /\ client[c] \in ClientRecords
    BY DEF IInv, NInv, Types, PlacesTrue
  <1>1. bits' = 0 .. BufLen - 1 \/ bits # 0 .. BufLen - 1
    <2>1. bits \subseteq bits' /\ bits' \subseteq 0 .. BufLen - 1
      BY <1>0, BitsKept, ServerStep DEF ServerTrue
    <2> QED
      BY <2>1
  <1>2. CASE client'[d] = client[d]
    BY <1>0, <1>1, <1>2 DEF Place
  <1>3. ASSUME Connect(d) PROVE Place(d)'
    <2>1. PICK n \in Seqs :
            client' = [client EXCEPT ![d].at = "connect", ![d].init = n, ![d].seq = n + 1]
      BY <1>3 DEF Connect
    <2> DEFINE seq == n + 1
    <2>2. n \in Nat /\ client' = [client EXCEPT ![d].at = "connect", ![d].init = n,
                                                ![d].seq = seq]
      BY <2>1, Sizes
    <2>3. seq = n + 1
      OBVIOUS
    <2> HIDE DEF seq
    <2>4. /\ client'[d].at = "connect" /\ client'[d].init = n /\ client'[d].seq = seq
          /\ client'[d].start = client[d].start /\ client'[d].front = client[d].front
          /\ client'[d].call = client[d].call
      BY <1>0, <2>2 DEF ClientRecords
    <2> QED
      BY <1>0, <2>3, <2>4 DEF Place, Connected
  <1>4. ASSUME ConnectTake(d), client'[d] # client[d] PROVE Place(d)'
    <2> DEFINE n == Head(toClient[d]).seq
               one == 1
    <2>1. client' = [client EXCEPT ![d].at = "send", ![d].serverInit = n, ![d].call = one]
      BY <1>4 DEF ConnectTake
    <2>2. client[d].at = "connect" /\ one \in 0 .. Calls /\ one = 1
      BY <1>4, MoreSizes DEF ConnectTake
    <2> HIDE DEF n, one
    <2>3. /\ client'[d].at = "send" /\ client'[d].init = client[d].init
          /\ client'[d].seq = client[d].seq /\ client'[d].call = one
          /\ client'[d].start = client[d].start /\ client'[d].front = client[d].front
      BY <1>0, <2>1 DEF ClientRecords
    <2> QED
      BY <1>0, <2>2, <2>3 DEF Place
  <1>5. ASSUME SendWindow(d) PROVE Place(d)'
    <2> DEFINE end == WinEnd(client[d].start)
    <2>1. client' = [client EXCEPT ![d].at = "wait", ![d].front = end] /\ bits' = bits
            /\ client[d].at = "send"
      BY <1>5 DEF SendWindow
    <2>2. end \in 0 .. BufLen
      BY <1>0, Sizes DEF WinEnd, Place
    <2> HIDE DEF end
    <2>3. /\ client'[d].at = "wait" /\ client'[d].init = client[d].init
          /\ client'[d].seq = client[d].seq /\ client'[d].call = client[d].call
          /\ client'[d].start = client[d].start /\ client'[d].front = end
      BY <1>0, <2>1 DEF ClientRecords
    <2> QED
      BY <1>0, <2>1, <2>2, <2>3 DEF Place, Connected
  <1>6. ASSUME SendTake(d) PROVE Place(d)'
    <2>1. bits' = bits /\ client[d].at = "wait"
      BY <1>6 DEF SendTake
    <2>2. CASE Again(d)
      <3>1. /\ client'[d].at = "send" /\ client'[d].init = client[d].init
            /\ client'[d].seq = client[d].seq /\ client'[d].call = client[d].call
            /\ client'[d].start = client[d].start /\ client'[d].front = client[d].front
        BY <1>0, <2>2 DEF Again, ClientRecords
      <3> QED
        BY <1>0, <2>1, <3>1 DEF Place, Connected
    <2>3. CASE Onward(d)
      <3>1. PICK start \in 0 .. BufLen - 1 :
              client'[d] = [client[d] EXCEPT !.at = "send", !.start = start, !.front = start]
        BY <2>3 DEF Onward
      <3>2. /\ client'[d].at = "send" /\ client'[d].init = client[d].init
            /\ client'[d].seq = client[d].seq /\ client'[d].call = client[d].call
            /\ client'[d].start = start /\ client'[d].front = start
        BY <1>0, <3>1 DEF ClientRecords
      <3>3. start \in 0 .. BufLen
        BY Sizes
      <3> QED
        BY <1>0, <2>1, <3>2, <3>3 DEF Place, Connected
    <2>4. CASE Finished(d) /\ LastAcknowledged(d, Head(toClient[d]))
      <3>1. bits = 0 .. BufLen - 1
        BY <2>4 DEF LastAcknowledged, NInv, ServerTrue
      <3>2. PICK call \in 1 .. Calls, at \in {"send", "done"}, seq \in Nat :
              /\ call > 1 \/ at = "done"
              /\ seq = client[d].init + 1 + BufLen
              /\ client'[d] = [client[d] EXCEPT !.at = at, !.call = call, !.seq = seq,
                                                !.start = 0, !.front = 0]
        BY <2>4 DEF Finished
      <3> DEFINE zero == 0
      <3>3. client'[d] = [client[d] EXCEPT !.at = at, !.call = call, !.seq = seq,
                                           !.start = zero, !.front = zero]
        BY <3>2
      <3>4. zero \in 0 .. BufLen - 1 /\ zero \in 0 .. BufLen /\ call \in 0 .. Calls /\ call >= 1
        BY Sizes, MoreSizes
      <3> HIDE DEF zero
      <3>5. /\ client'[d].at = at /\ client'[d].init = client[d].init
            /\ client'[d].seq = seq /\ client'[d].call = call
            /\ client'[d].start = zero /\ client'[d].front = zero
        BY <1>0, <3>3 DEF ClientRecords
      <3> QED
        BY <2>1, <3>1, <3>2, <3>4, <3>5 DEF Place
    <2> QED
      BY <1>6, <2>2, <2>3, <2>4, SendTakeCases
  <1>7. ASSUME NEW c \in Clients, c # d,
               Connect(c) \/ ConnectTake(c) \/ SendWindow(c) \/ SendTake(c)
        PROVE  client'[d] = client[d]
    BY <1>0, <1>7 DEF Connect, ConnectTake, SendWindow, SendTake
  <1>8. (\A c \in Clients : ~ (Connect(c) \/ ClientStep(c))) => client' = client
    BY DEF Next, vars, ClientStep, Listener, ServerMain, ServerTake, Look, ReturnCount,
           QueueRequest, AcceptRequest, AcceptTake, RecvTake, Acknowledge, Deliver,
           LoseToServer, LoseToClient, Stray
  <1> QED
    BY <1>2, <1>3, <1>4, <1>5, <1>6, <1>7, <1>8 DEF ClientStep

LEMMA InitNumbers == Init => NInv
  <1> SUFFICES ASSUME Init PROVE NInv
    OBVIOUS
  <1>1. SentTrue /\ ReturnedTrue
    BY EmptyIn DEF Init, SentTrue, ReturnedTrue, Requested
  <1>2. RisingTrue
    BY OrderedEmpty DEF Init, RisingTrue
  <1>3. PlacesTrue
    BY Sizes, MoreSizes DEF Init, PlacesTrue, Place, Connected
  <1>4. ListenerTrue
    BY MoreSizes, EmptySeq DEF Init, ListenerTrue
  <1>5. ServerTrue
    BY Sizes DEF Init, ServerTrue
  <1> QED
    BY <1>1, <1>2, <1>3, <1>4, <1>5 DEF NInv

LEMMA NumbersStep == IInv /\ NInv /\ [Next]_vars => NInv'
  BY SentStep, ReturnedStep, RisingStep, PlacesStep, ListenerStep, ServerStep DEF NInv

\* Records, rings and queues have their types and their bounds: no step makes
\* a place negative or puts it past the buffer, and the listener never takes
\* the last count of an empty ring.
THEOREM TypeCorrect == Spec => []TypeOK
  <1>1. IInv /\ NInv => TypeOK
    <2> SUFFICES ASSUME IInv, NInv PROVE TypeOK
      OBVIOUS
    <2>0. Types
      BY DEF IInv
    <2>1. \A c \in Clients :
            /\ client[c].at \in {"start", "connect", "send", "wait", "done"}
            /\ client[c].start \in 0 .. BufLen /\ client[c].front \in 0 .. BufLen
      BY <2>0, ClientTypes, Sizes DEF NInv, PlacesTrue, Place
    <2>2. \A c \in Clients : toServer[c] \in Seq(Segments) /\ toClient[c] \in Seq(Segments)
      <3> TAKE c \in Clients
      <3>1. toServer[c] \in Seq(Segs) /\ In(toServer[c]) \subseteq Segments
        BY <2>0 DEF Types, NInv, SentTrue, Sent
      <3>2. toClient[c] \in Seq(Segs) /\ In(toClient[c]) \subseteq Segments
        BY <2>0 DEF Types, NInv, ReturnedTrue, Returned
      <3> QED
        BY <3>1, <3>2, SeqOfWhatIsIn
    <2>3. ring \in Seq(Segments)
      <3>1. ring \in Seq(Segs) /\ In(ring) \subseteq Segments
        BY <2>0 DEF Types, NInv, SentTrue, Sent
      <3> QED
        BY <3>1, SeqOfWhatIsIn
    <2>4. listener.syn \in Seq(Segments) /\ requests \in Seq(Segments)
      <3>1. /\ listener.syn \in Seq(Segs) /\ In(listener.syn) \subseteq Segments
            /\ requests \in Seq(Segs) /\ In(requests) \subseteq Segments
        BY <2>0 DEF Types, NInv, SentTrue, Requested
      <3> QED
        BY <3>1, SeqOfWhatIsIn
    <2>5. Full >= 0
      BY <2>0, LenProperties DEF Full, Types, NInv, ListenerTrue
    <2>6. /\ listener.at \in {"look", "return", "queue"}
          /\ server.at \in {"accept", "accepting", "recv", "acknowledge", "done"}
          /\ server.peer \in Clients \cup {Nobody}
      BY <2>0 DEF Types, ServerRecords
    <2> QED
      BY <2>1, <2>2, <2>3, <2>4, <2>5, <2>6 DEF TypeOK, NInv, ListenerTrue, ServerTrue
  <1>2. Init => IInv /\ NInv
    BY InitInv, InitNumbers
  <1>3. IInv /\ NInv /\ [Next]_vars => (IInv /\ NInv)'
    BY StepInv, NumbersStep
  <1> QED
    BY <1>1, <1>2, <1>3, PTL DEF Spec

(***************************************************************************)
(* A client asks once, and answers accept once.                            *)
(***************************************************************************)
Kind(c, flag) == {seg \in Segs : seg.from = c /\ flag \in seg.flags}

Syns(c) ==
  Count(Kind(c, "SYN"), toServer[c]) + Count(Kind(c, "SYN"), ring)
    + Count(Kind(c, "SYN"), listener.syn) + Count(Kind(c, "SYN"), requests)
    + (IF server.peer = c THEN 1 ELSE 0)

\* accept takes an acknowledgement before it returns.
AckTaken(c) ==
  IF server.at \in {"recv", "acknowledge", "done"} /\ server.peer = c THEN 1 ELSE 0

Acks(c) ==
  Count(Kind(c, "ACK"), toServer[c]) + Count(Kind(c, "ACK"), ring) + AckTaken(c)

OnceTrue ==
  \A c \in Clients :
    /\ Syns(c) <= (IF client[c].at = "start" THEN 0 ELSE 1)
    /\ Acks(c) <= (IF client[c].at \in Connected THEN 1 ELSE 0)

LEMMA SynsAreRequests ==
  ASSUME Types, NEW c \in Clients
  PROVE  Requests(c) = Syns(c)
  <1>1. ASSUME NEW s \in Seq(Segs)
        PROVE  {i \in DOMAIN s : s[i].from = c /\ "SYN" \in s[i].flags}
                 = Where(Kind(c, "SYN"), s)
    <2>1. \A i \in DOMAIN s : s[i] \in Segs
      BY InSegs DEF In
    <2> QED
      BY <2>1 DEF Where, Kind
  <1>2. /\ toServer[c] \in Seq(Segs) /\ ring \in Seq(Segs)
        /\ listener.syn \in Seq(Segs) /\ requests \in Seq(Segs)
    BY DEF Types
  <1> DEFINE syns(s) == Cardinality({i \in DOMAIN s : s[i].from = c /\ "SYN" \in s[i].flags})
  <1>3. \A s \in Seq(Segs) : syns(s) = Count(Kind(c, "SYN"), s)
    BY <1>1 DEF Count
  <1>4. Requests(c) = syns(toServer[c]) + syns(ring) + syns(listener.syn) + syns(requests)
                        + (IF server.peer = c THEN 1 ELSE 0)
    BY DEF Requests
  <1> HIDE DEF syns
  <1> QED
    BY <1>2, <1>3, <1>4 DEF Syns

LEMMA CountsAreNat ==
  ASSUME Types, NEW P
  PROVE  /\ \A c \in Clients : Count(P, toServer[c]) \in Nat
         /\ Count(P, ring) \in Nat
         /\ Count(P, listener.syn) \in Nat
         /\ Count(P, requests) \in Nat
  BY CountType DEF Types

\* What leaves the head of a queue.
LEMMA CountHead ==
  ASSUME NEW s \in Seq(Segs), s # <<>>, NEW P
  PROVE  /\ Head(s) \in Segs
         /\ Count(P, Tail(s)) \in Nat
         /\ Count(P, s) = Count(P, Tail(s)) + One(P, Head(s))
         /\ Count(P, Tail(s)) <= Count(P, s)
  <1>1. Head(s) \in Segs /\ Tail(s) \in Seq(Segs)
    BY InTail
  <1>2. Count(P, Tail(s)) \in Nat
    BY <1>1, CountType
  <1>3. Count(P, s) = Count(P, Tail(s)) + One(P, Head(s))
    BY CountTail
  <1>4. One(P, Head(s)) \in {0, 1}
    BY DEF One
  <1> QED
    BY <1>1, <1>2, <1>3, <1>4

\* One segment, or none, behind a queue to the server.
LEMMA CountBehind ==
  ASSUME Types, NEW c \in Clients, NEW d \in Clients, NEW seg \in Segs,
         NEW flag \in {"SYN", "ACK"},
         toServer' = [toServer EXCEPT ![c] = Append(@, seg)], seg.from = c
  PROVE  /\ Count(Kind(d, flag), toServer'[d]) \in Nat
         /\ Count(Kind(d, flag), toServer'[d]) <= Count(Kind(d, flag), toServer[d]) + 1
         /\ (d # c \/ flag \notin seg.flags) =>
              Count(Kind(d, flag), toServer'[d]) = Count(Kind(d, flag), toServer[d])
  <1> DEFINE P == Kind(d, flag)
  <1>0. toServer \in [Clients -> Seq(Segs)]
    BY DEF Types
  <1>1. Count(P, toServer[d]) \in Nat
    BY CountsAreNat
  <1>2. CASE d # c
    BY <1>0, <1>1, <1>2
  <1>3. CASE d = c
    <2>1. Count(P, toServer'[d]) = Count(P, toServer[d]) + One(P, seg)
      <3>1. toServer'[d] = Append(toServer[d], seg)
        BY <1>0, <1>3
      <3> QED
        BY <1>0, <3>1, CountAppend
    <2>2. /\ One(P, seg) \in {0, 1}
          /\ flag \notin seg.flags => One(P, seg) = 0
      BY DEF One, Kind
    <2> HIDE DEF P
    <2> QED
      BY <1>1, <1>3, <2>1, <2>2 DEF P
  <1> QED
    BY <1>2, <1>3

\* A queue to the server that loses its head.
LEMMA CountAhead ==
  ASSUME Types, NEW c \in Clients, NEW d \in Clients, NEW P, toServer[c] # <<>>,
         toServer' = [toServer EXCEPT ![c] = Tail(@)]
  PROVE  /\ Count(P, toServer'[d]) \in Nat
         /\ Count(P, toServer'[d]) <= Count(P, toServer[d])
         /\ Head(toServer[c]) \in Segs /\ Head(toServer[c]) \in In(toServer[c])
         /\ d = c => Count(P, toServer[d]) = Count(P, toServer'[d]) + One(P, Head(toServer[c]))
         /\ d # c => Count(P, toServer[d]) = Count(P, toServer'[d])
  <1>0. toServer \in [Clients -> Seq(Segs)]
    BY DEF Types
  <1>1. Count(P, toServer[d]) \in Nat
    BY CountsAreNat
  <1>2. Head(toServer[c]) \in Segs /\ Head(toServer[c]) \in In(toServer[c])
    BY <1>0, InTail
  <1>3. CASE d # c
    BY <1>0, <1>1, <1>2, <1>3
  <1>4. CASE d = c
    <2>1. toServer'[d] = Tail(toServer[d])
      BY <1>0, <1>4
    <2> QED
      BY <1>0, <1>2, <1>4, <2>1, CountHead
  <1> QED
    BY <1>3, <1>4

\* A segment that the server's ring takes from a client's queue is counted
\* where it comes from before and in the ring after.
LEMMA CountDelivered ==
  ASSUME Types, SentTrue, NEW c \in Clients, NEW d \in Clients, NEW flag, Deliver(c)
  PROVE  /\ Count(Kind(d, flag), toServer'[d]) \in Nat
         /\ Count(Kind(d, flag), ring') \in Nat
         /\ Count(Kind(d, flag), toServer'[d]) + Count(Kind(d, flag), ring')
              = Count(Kind(d, flag), toServer[d]) + Count(Kind(d, flag), ring)
  <1> DEFINE P == Kind(d, flag)
             first == Head(toServer[c])
  <1>1. /\ toServer[c] # <<>> /\ toServer' = [toServer EXCEPT ![c] = Tail(@)]
        /\ ring' = Append(ring, first) /\ ring \in Seq(Segs)
    BY DEF Deliver, Types
  <1>2. /\ Count(P, toServer'[d]) \in Nat
        /\ first \in Segs /\ first \in In(toServer[c])
        /\ d = c => Count(P, toServer[d]) = Count(P, toServer'[d]) + One(P, first)
        /\ d # c => Count(P, toServer[d]) = Count(P, toServer'[d])
    BY <1>1, CountAhead
  <1>3. Count(P, ring') = Count(P, ring) + One(P, first) /\ Count(P, ring) \in Nat
    BY <1>1, <1>2, CountAppend, CountType
  <1>4. One(P, first) \in {0, 1} /\ (d # c => One(P, first) = 0)
    <2>1. first.from = c
      BY <1>2 DEF SentTrue, Sent
    <2> QED
      BY <2>1 DEF One, Kind
  <1> HIDE DEF P
  <1> QED
    BY <1>2, <1>3, <1>4 DEF P

\* The segments of a window are neither requests nor acknowledgements.
LEMMA CountWindow ==
  ASSUME Types, NEW c \in Clients, NEW d \in Clients, NEW flag, SendWindow(c)
  PROVE  Count(Kind(d, flag), toServer'[d]) = Count(Kind(d, flag), toServer[d])
  <1>0. toServer \in [Clients -> Seq(Segs)]
    BY DEF Types
  <1>1. PICK window \in Seq(Segs) :
          /\ \A piece \in In(window) : piece.flags = {}
          /\ toServer' = [toServer EXCEPT ![c] = @ \o window]
    BY WindowStep
  <1>2. CASE d # c
    BY <1>0, <1>1, <1>2
  <1>3. CASE d = c
    <2>1. In(window) \cap Kind(d, flag) = {}
      BY <1>1 DEF Kind
    <2>2. toServer'[d] = toServer[d] \o window
      BY <1>0, <1>1, <1>3
    <2> QED
      BY <1>0, <2>1, <2>2, CountConcat
  <1> QED
    BY <1>2, <1>3

\* connect puts its one segment behind the queue.
LEMMA CountConnect ==
  ASSUME Types, NEW c \in Clients, NEW d \in Clients, Connect(c)
  PROVE  /\ Count(Kind(d, "SYN"), toServer'[d]) \in Nat
         /\ Count(Kind(d, "SYN"), toServer'[d]) <= Count(Kind(d, "SYN"), toServer[d]) + 1
         /\ d # c => Count(Kind(d, "SYN"), toServer'[d]) = Count(Kind(d, "SYN"), toServer[d])
         /\ Count(Kind(d, "ACK"), toServer'[d]) = Count(Kind(d, "ACK"), toServer[d])
  <1>1. PICK n \in Seqs :
          toServer' = [toServer EXCEPT ![c] = Append(@, Segment(c, {"SYN"}, n, 0, NoData))]
    BY DEF Connect
  <1> DEFINE syn == Segment(c, {"SYN"}, n, 0, NoData)
  <1>2. syn \in Segs /\ syn.from = c /\ "ACK" \notin syn.flags
    BY Sizes, NoDataType, SegmentType DEF Segment
  <1>3. toServer' = [toServer EXCEPT ![c] = Append(@, syn)]
    BY <1>1
  <1> HIDE DEF syn
  <1>4. /\ Count(Kind(d, "SYN"), toServer'[d]) \in Nat
        /\ Count(Kind(d, "SYN"), toServer'[d]) <= Count(Kind(d, "SYN"), toServer[d]) + 1
        /\ d # c => Count(Kind(d, "SYN"), toServer'[d]) = Count(Kind(d, "SYN"), toServer[d])
    BY <1>2, <1>3, CountBehind
  <1>5. Count(Kind(d, "ACK"), toServer'[d]) = Count(Kind(d, "ACK"), toServer[d])
    BY <1>2, <1>3, CountBehind
  <1> QED
    BY <1>4, <1>5

LEMMA CountConnectTake ==
  ASSUME Types, NEW c \in Clients, NEW d \in Clients, ConnectTake(c)
  PROVE  /\ Count(Kind(d, "ACK"), toServer'[d]) \in Nat
         /\ Count(Kind(d, "SYN"), toServer'[d]) = Count(Kind(d, "SYN"), toServer[d])
         /\ \/ Count(Kind(d, "ACK"), toServer'[d]) = Count(Kind(d, "ACK"), toServer[d])
            \/ /\ Count(Kind(d, "ACK"), toServer'[d])
                    <= Count(Kind(d, "ACK"), toServer[d]) + 1
               /\ client[d].at = "connect" /\ client'[d].at \in Connected
  <1> DEFINE answer == Head(toClient[c])
             seq == answer.seq
             number == seq + 1
             sent == client[c].seq
             one == 1
             ack == Segment(c, {"ACK"}, sent, number, NoData)
  <1>0. /\ client \in [Clients -> ClientRecords]
        /\ toServer \in [Clients -> Seq(Segs)] /\ toClient \in [Clients -> Seq(Segs)]
        /\ client[c].at = "connect" /\ Count(Kind(d, "ACK"), toServer[d]) \in Nat
    BY CountsAreNat DEF Types, ConnectTake
  <1>1. answer \in Segs
    BY <1>0, InTail DEF ConnectTake
  <1>2. number \in Int /\ sent \in Int
    BY <1>1, ClientTypes DEF Segs
  <1>3. CASE {"SYN", "ACK"} \subseteq answer.flags
    <2>1. /\ toServer' = [toServer EXCEPT ![c] = Append(@, ack)]
          /\ client' = [client EXCEPT ![c].at = "send", ![c].serverInit = seq, ![c].call = one]
      BY <1>3 DEF ConnectTake
    <2> HIDE DEF seq, number, sent, one
    <2>2. ack \in Segs /\ ack.from = c /\ "SYN" \notin ack.flags
      BY <1>2, NoDataType, SegmentType DEF Segment
    <2>3. client'[c].at = "send"
      BY <1>0, <2>1 DEF ClientRecords
    <2> HIDE DEF ack
    <2>4. Count(Kind(d, "SYN"), toServer'[d]) = Count(Kind(d, "SYN"), toServer[d])
      BY <2>1, <2>2, CountBehind
    <2>5. /\ Count(Kind(d, "ACK"), toServer'[d]) \in Nat
          /\ Count(Kind(d, "ACK"), toServer'[d]) <= Count(Kind(d, "ACK"), toServer[d]) + 1
          /\ d # c => Count(Kind(d, "ACK"), toServer'[d]) = Count(Kind(d, "ACK"), toServer[d])
      BY <2>1, <2>2, CountBehind
    <2> QED
      BY <1>0, <2>3, <2>4, <2>5 DEF Connected
  <1>4. CASE ~ ({"SYN", "ACK"} \subseteq answer.flags)
    <2>1. toServer' = toServer
      BY <1>4 DEF ConnectTake
    <2> QED
      BY <1>0, <2>1
  <1> QED
    BY <1>3, <1>4

\* A segment that the listener takes from the ring goes into its hands.
LEMMA CountLooked ==
  ASSUME Types, ListenerTrue, NEW d \in Clients, Look
  PROVE  /\ Count(Kind(d, "SYN"), ring') + Count(Kind(d, "SYN"), listener'.syn)
              = Count(Kind(d, "SYN"), ring) + Count(Kind(d, "SYN"), listener.syn)
         /\ Count(Kind(d, "SYN"), ring') \in Nat
         /\ Count(Kind(d, "SYN"), listener'.syn) \in Nat
         /\ Count(Kind(d, "ACK"), ring') \in Nat
         /\ Count(Kind(d, "ACK"), ring') <= Count(Kind(d, "ACK"), ring)
  <1> DEFINE P == Kind(d, "SYN")
             Q == Kind(d, "ACK")
             first == Head(ring)
  <1>0. /\ ring \in Seq(Segs) /\ ring # <<>> /\ listener.syn = <<>>
        /\ listener \in [at : {"look", "return", "queue"}, syn : Seq(Segs)]
        /\ Count(P, ring) \in Nat /\ Count(Q, ring) \in Nat /\ Count(P, listener.syn) = 0
    BY HeadOfFull, CountsAreNat, CountEmpty DEF Look, Types, ListenerTrue
  <1>1. CASE "SYN" \in first.flags
    <2>1. ring' = Tail(ring) /\ listener' = [at |-> "queue", syn |-> <<first>>]
      BY <1>1 DEF Look
    <2>2. /\ Count(P, ring) = Count(P, Tail(ring)) + One(P, first)
          /\ Count(P, Tail(ring)) \in Nat /\ Count(Q, Tail(ring)) \in Nat
          /\ Count(Q, Tail(ring)) <= Count(Q, ring) /\ first \in Segs
      BY <1>0, CountHead
    <2>3. Count(P, <<first>>) = One(P, first) /\ One(P, first) \in {0, 1}
      <3>1. <<>> \in Seq(Segs) /\ Append(<<>>, first) = <<first>>
        OBVIOUS
      <3>2. Count(P, Append(<<>>, first)) = Count(P, <<>>) + One(P, first)
        BY <2>2, <3>1, CountAppend
      <3> QED
        BY <3>1, <3>2, CountEmpty DEF One
    <2>4. listener'.syn = <<first>>
      BY <2>1
    <2> HIDE DEF P, Q, first
    <2> QED
      BY <1>0, <2>1, <2>2, <2>3, <2>4 DEF P, Q
  <1>2. CASE "SYN" \notin first.flags
    <2>1. ring' = ring /\ listener'.syn = listener.syn
      BY <1>0, <1>2 DEF Look
    <2> QED
      BY <1>0, <2>1
  <1> QED
    BY <1>1, <1>2

\* The request in the listener's hands goes to the queue.
LEMMA CountQueued ==
  ASSUME Types, ListenerTrue, NEW P, QueueRequest
  PROVE  /\ Count(P, requests') + Count(P, listener'.syn)
              = Count(P, requests) + Count(P, listener.syn)
         /\ Count(P, requests') \in Nat /\ Count(P, listener'.syn) \in Nat
  <1>0. requests \in Seq(Segs) /\ Count(P, requests) \in Nat
    BY CountsAreNat DEF Types
  <1>1. PICK seg \in Segs : listener.syn = <<seg>>
    BY DEF QueueRequest, ListenerTrue
  <1>2. Append(<<>>, seg) = <<seg>> /\ <<>> \in Seq(Segs)
    OBVIOUS
  <1>3. Count(P, listener.syn) = One(P, seg) /\ One(P, seg) \in {0, 1}
    <2>1. Count(P, Append(<<>>, seg)) = Count(P, <<>>) + One(P, seg)
      BY <1>2, CountAppend
    <2> QED
      BY <1>1, <1>2, <2>1, CountEmpty DEF One
  <1>4. requests' = Append(requests, seg)
    BY <1>0, <1>1 DEF QueueRequest
  <1>5. Count(P, requests') = Count(P, requests) + One(P, seg)
    BY <1>0, <1>4, CountAppend
  <1>6. Count(P, listener'.syn) = 0
    <2>1. listener'.syn = <<>>
      BY DEF QueueRequest
    <2> QED
      BY <2>1, CountEmpty
  <1> QED
    BY <1>0, <1>3, <1>5, <1>6

\* The request that accept takes makes its client the peer.
LEMMA CountAccepted ==
  ASSUME IInv, ServerTrue, NEW d \in Clients, AcceptRequest
  PROVE  /\ Count(Kind(d, "SYN"), requests') + (IF server'.peer = d THEN 1 ELSE 0)
              = Count(Kind(d, "SYN"), requests) + (IF server.peer = d THEN 1 ELSE 0)
         /\ Count(Kind(d, "SYN"), requests') \in Nat
  <1> DEFINE P == Kind(d, "SYN")
             syn == Head(requests)
             from == syn.from
             seq == syn.seq
  <1>0. /\ requests \in Seq(Segs) /\ requests # <<>> /\ server \in ServerRecords
        /\ server.peer = Nobody /\ requests' = Tail(requests)
    BY DEF IInv, Types, AcceptRequest, ServerTrue
  <1>1. /\ Count(P, requests) = Count(P, Tail(requests)) + One(P, syn)
        /\ Count(P, Tail(requests)) \in Nat /\ syn \in Segs
    BY <1>0, CountHead
  <1>2. "SYN" \in syn.flags
    <2>1. syn \in In(requests)
      BY <1>0, InTail
    <2> QED
      BY <2>1 DEF IInv, RequestsTrue
  <1>3. One(P, syn) = IF from = d THEN 1 ELSE 0
    BY <1>1, <1>2 DEF One, Kind
  <1>4. server'.peer = from
    <2>1. PICK n \in Seqs : server' = [server EXCEPT !.at = "accepting", !.peer = from,
                                                     !.init = n, !.clientInit = seq]
      BY DEF AcceptRequest
    <2> HIDE DEF syn, from, seq
    <2> QED
      BY <1>0, <2>1 DEF ServerRecords
  <1>5. server.peer # d
    BY <1>0, MoreSizes
  <1> HIDE DEF P, syn, from
  <1> QED
    BY <1>0, <1>1, <1>3, <1>4, <1>5 DEF P

LEMMA SynsStep ==
  ASSUME IInv, NInv, [Next]_vars, NEW d \in Clients
  PROVE  /\ Syns(d)' \in Nat
         /\ Syns(d)' <= Syns(d)
              + (IF client[d].at = "start" /\ client'[d].at # "start" THEN 1 ELSE 0)
  <1> DEFINE P == Kind(d, "SYN")
             peer == IF server.peer = d THEN 1 ELSE 0
             away == Count(P, toServer[d])
             here == Count(P, ring)
             hand == Count(P, listener.syn)
             queued == Count(P, requests)
             awayNext == Count(P, toServer'[d])
             hereNext == Count(P, ring')
             handNext == Count(P, listener'.syn)
             queuedNext == Count(P, requests')
             peerNext == IF server'.peer = d THEN 1 ELSE 0
             starts == IF client[d].at = "start" /\ client'[d].at # "start" THEN 1 ELSE 0
  <1>0. /\ Types /\ Types' /\ ListenerTrue /\ ServerTrue /\ SentTrue
        /\ server \in ServerRecords /\ client \in [Clients -> ClientRecords]
    BY TypesStep DEF IInv, NInv, Types
  <1>1. /\ away \in Nat /\ here \in Nat /\ hand \in Nat /\ queued \in Nat
        /\ peer \in {0, 1} /\ starts \in {0, 1}
    BY <1>0, CountsAreNat
  <1>2. /\ awayNext \in Nat /\ hereNext \in Nat /\ handNext \in Nat
        /\ queuedNext \in Nat /\ peerNext \in {0, 1}
    BY <1>0, CountType DEF Types
  <1>3. Syns(d) = away + here + hand + queued + peer
    BY DEF Syns
  <1>4. Syns(d)' = awayNext + hereNext + handNext + queuedNext + peerNext
    BY DEF Syns
  <1>5. awayNext + hereNext + handNext + queuedNext + peerNext
          <= away + here + hand + queued + peer + starts
    <2>1. server.at # "accept" => peerNext = peer
      BY <1>0, ServerKept DEF ServerKeeps
    <2>2. ASSUME NEW c \in Clients, Connect(c)
          PROVE  /\ awayNext <= away + starts
                 /\ hereNext = here /\ handNext = hand /\ queuedNext = queued /\ peerNext = peer
      <3>1. hereNext = here /\ handNext = hand /\ queuedNext = queued /\ peerNext = peer
        BY <2>2 DEF Connect
      <3>2. awayNext \in Nat /\ awayNext <= away + 1 /\ (d # c => awayNext = away)
        BY <1>0, <2>2, CountConnect
      <3>3. d = c => starts = 1
        <4>1. PICK n \in Seqs : client' = [client EXCEPT ![c].at = "connect", ![c].init = n,
                                                         ![c].seq = n + 1]
          BY <2>2 DEF Connect
        <4> DEFINE next == n + 1
        <4>2. client' = [client EXCEPT ![c].at = "connect", ![c].init = n, ![c].seq = next]
          BY <4>1
        <4> HIDE DEF next
        <4>3. client[c].at = "start" /\ client'[c].at = "connect"
          BY <1>0, <2>2, <4>2 DEF Connect, ClientRecords
        <4> QED
          BY <4>3
      <3> HIDE DEF away, awayNext, starts
      <3> QED
        BY <1>1, <3>1, <3>2, <3>3
    <2>3. ASSUME NEW c \in Clients, ConnectTake(c)
          PROVE  /\ awayNext = away /\ hereNext = here /\ handNext = hand
                 /\ queuedNext = queued /\ peerNext = peer
      <3>1. hereNext = here /\ handNext = hand /\ queuedNext = queued /\ peerNext = peer
        BY <2>3 DEF ConnectTake
      <3>2. awayNext = away
        BY <1>0, <2>3, CountConnectTake
      <3> QED
        BY <3>1, <3>2
    <2>4. ASSUME NEW c \in Clients, SendWindow(c)
          PROVE  /\ awayNext = away /\ hereNext = here /\ handNext = hand
                 /\ queuedNext = queued /\ peerNext = peer
      <3>1. hereNext = here /\ handNext = hand /\ queuedNext = queued /\ peerNext = peer
        BY <2>4 DEF SendWindow
      <3>2. awayNext = away
        BY <1>0, <2>4, CountWindow
      <3> QED
        BY <3>1, <3>2
    <2>5. ASSUME Look
          PROVE  /\ awayNext = away /\ hereNext + handNext = here + hand
                 /\ queuedNext = queued /\ peerNext = peer
      <3>1. awayNext = away /\ queuedNext = queued /\ peerNext = peer
        BY <2>5 DEF Look
      <3>2. hereNext + handNext = here + hand
        BY <1>0, <2>5, CountLooked
      <3> QED
        BY <3>1, <3>2
    <2>6. ASSUME QueueRequest
          PROVE  /\ awayNext = away /\ hereNext = here
                 /\ queuedNext + handNext = queued + hand /\ peerNext = peer
      <3>1. awayNext = away /\ hereNext = here /\ peerNext = peer
        BY <2>6 DEF QueueRequest
      <3>2. queuedNext + handNext = queued + hand
        BY <1>0, <2>6, CountQueued
      <3> QED
        BY <3>1, <3>2
    <2>7. ASSUME AcceptRequest
          PROVE  /\ awayNext = away /\ hereNext = here
                 /\ handNext = hand /\ queuedNext + peerNext = queued + peer
      <3>1. awayNext = away /\ hereNext = here /\ handNext = hand
        BY <2>7 DEF AcceptRequest
      <3>2. queuedNext + peerNext = queued + peer
        BY <1>0, <2>7, CountAccepted
      <3> QED
        BY <3>1, <3>2
    <2>8. ASSUME AcceptTake \/ RecvTake
          PROVE  /\ awayNext = away /\ hereNext <= here /\ handNext = hand
                 /\ queuedNext = queued /\ peerNext = peer
      <3>1. awayNext = away /\ handNext = hand /\ queuedNext = queued /\ server.at # "accept"
        BY <2>8 DEF AcceptTake, RecvTake
      <3>2. Full > 0 /\ ring' = Tail(ring)
        BY <2>8 DEF AcceptTake, RecvTake
      <3>3. Count(P, Tail(ring)) <= Count(P, ring)
        <4>1. ring # <<>> /\ ring \in Seq(Segs)
          BY <1>0, <3>2, HeadOfFull DEF Types
        <4> QED
          BY <4>1, CountHead
      <3> QED
        BY <2>1, <3>1, <3>2, <3>3
    <2>9. ASSUME Acknowledge
          PROVE  /\ awayNext = away /\ hereNext = here /\ handNext = hand
                 /\ queuedNext = queued /\ peerNext = peer
      <3>1. /\ awayNext = away /\ hereNext = here /\ handNext = hand /\ queuedNext = queued
            /\ server.at # "accept"
        BY <2>9 DEF Acknowledge
      <3> QED
        BY <2>1, <3>1
    <2>10. ASSUME NEW c \in Clients, Deliver(c)
           PROVE  /\ awayNext + hereNext = away + here
                  /\ handNext = hand /\ queuedNext = queued /\ peerNext = peer
      <3>1. handNext = hand /\ queuedNext = queued /\ peerNext = peer
        BY <2>10 DEF Deliver
      <3>2. awayNext + hereNext = away + here
        BY <1>0, <2>10, CountDelivered
      <3> QED
        BY <3>1, <3>2
    <2>11. ASSUME NEW c \in Clients, LoseToServer(c)
           PROVE  /\ awayNext <= away /\ hereNext = here
                  /\ handNext = hand /\ queuedNext = queued /\ peerNext = peer
      <3>1. hereNext = here /\ handNext = hand /\ queuedNext = queued /\ peerNext = peer
        BY <2>11 DEF LoseToServer
      <3>2. toServer[c] # <<>> /\ toServer' = [toServer EXCEPT ![c] = Tail(@)]
        BY <2>11 DEF LoseToServer
      <3>3. awayNext <= away
        BY <1>0, <3>2, CountAhead
      <3> QED
        BY <3>1, <3>3
    <2>12. CASE /\ awayNext = away /\ hereNext = here
                /\ handNext = hand /\ queuedNext = queued /\ peerNext = peer
      <3> HIDE DEF away, here, hand, queued, peer, awayNext, hereNext, handNext,
                   queuedNext, peerNext, starts
      <3> QED
        BY <1>1, <2>12
    <2>13. \/ \E c \in Clients : \/ Connect(c) \/ ConnectTake(c) \/ SendWindow(c)
                                 \/ Deliver(c) \/ LoseToServer(c)
           \/ Look \/ QueueRequest \/ AcceptRequest \/ AcceptTake \/ RecvTake \/ Acknowledge
           \/ /\ toServer' = toServer /\ ring' = ring /\ listener'.syn = listener.syn
              /\ requests' = requests /\ server' = server
      <3>1. listener \in [at : {"look", "return", "queue"}, syn : Seq(Segs)]
        BY <1>0 DEF Types
      <3>2. ReturnCount => listener'.syn = listener.syn
        BY <3>1 DEF ReturnCount
      <3> QED
        BY <3>2, ZenonT(40)
        DEF Next, vars, ClientStep, Listener, ServerMain, ServerTake, ReturnCount,
            LoseToClient, Stray, SendTake
    <2> DEFINE unchanged == /\ toServer' = toServer /\ ring' = ring
                            /\ listener'.syn = listener.syn
                            /\ requests' = requests /\ server' = server
    <2>14. unchanged => /\ awayNext = away /\ hereNext = here
                        /\ handNext = hand /\ queuedNext = queued /\ peerNext = peer
      OBVIOUS
    <2> HIDE DEF away, here, hand, queued, peer, awayNext, hereNext, handNext,
                 queuedNext, peerNext, starts
    <2>15. ASSUME NEW c \in Clients, Connect(c) \/ ConnectTake(c) \/ SendWindow(c)
                                     \/ Deliver(c) \/ LoseToServer(c)
           PROVE  awayNext + hereNext + handNext + queuedNext + peerNext
                    <= away + here + hand + queued + peer + starts
      BY <1>1, <1>2, <2>2, <2>3, <2>4, <2>10, <2>11, <2>15
    <2>16. ASSUME Look \/ QueueRequest \/ AcceptRequest \/ AcceptTake \/ RecvTake \/ Acknowledge
           PROVE  awayNext + hereNext + handNext + queuedNext + peerNext
                    <= away + here + hand + queued + peer + starts
      BY <1>1, <1>2, <2>5, <2>6, <2>7, <2>8, <2>9, <2>16
    <2> QED
      BY <2>12, <2>13, <2>14, <2>15, <2>16
  <1> HIDE DEF away, here, hand, queued, peer, awayNext, hereNext, handNext,
               queuedNext, peerNext, starts
  <1>6. Syns(d)' \in Nat /\ Syns(d)' <= Syns(d) + starts
    BY <1>1, <1>2, <1>3, <1>4, <1>5
  <1> QED
    BY <1>6 DEF starts

Past == {"recv", "acknowledge", "done"}

LEMMA AckTakenStep ==
  ASSUME IInv, NInv, [Next]_vars, NEW d \in Clients
  PROVE  /\ AckTaken(d) \in {0, 1} /\ AckTaken(d)' \in {0, 1}
         /\ AckTaken(d)' # AckTaken(d) =>
              /\ AcceptTake /\ AckTaken(d)' = 1 /\ AckTaken(d) = 0
              /\ Head(ring) \in Kind(d, "ACK")
  <1>0. /\ Types /\ server \in ServerRecords /\ ServerKeeps /\ ListenerTrue
    BY ServerKept DEF IInv, NInv, Types
  <1>1. AckTaken(d) \in {0, 1} /\ AckTaken(d)' \in {0, 1}
    BY DEF AckTaken
  <1>2. ASSUME AcceptRequest PROVE AckTaken(d)' = AckTaken(d)
    <2>1. server.at = "accept" /\ server'.at = "accepting"
      BY <1>0, <1>2 DEF AcceptRequest, ServerRecords
    <2> QED
      BY <2>1 DEF AckTaken
  <1>3. ASSUME RecvTake \/ Acknowledge PROVE AckTaken(d)' = AckTaken(d)
    <2>1. server.at \in Past /\ server'.at \in Past
      BY <1>0, <1>3 DEF RecvTake, Acknowledge, ServerRecords, Past
    <2>2. server'.peer = server.peer
      BY <1>0, <2>1 DEF ServerKeeps, Past
    <2> QED
      BY <2>1, <2>2 DEF AckTaken, Past
  <1>4. ASSUME AcceptTake, AckTaken(d)' # AckTaken(d)
        PROVE  AckTaken(d)' = 1 /\ AckTaken(d) = 0 /\ Head(ring) \in Kind(d, "ACK")
    <2>1. server.at = "accepting" /\ server'.peer = server.peer /\ Full > 0
      BY <1>0, <1>4 DEF AcceptTake, ServerKeeps
    <2>2. AckTaken(d) = 0 /\ AckTaken(d)' = 1
      BY <1>1, <1>4, <2>1 DEF AckTaken
    <2>3. server.peer = d /\ server' # server
      BY <2>1, <2>2 DEF AckTaken
    <2>4. "ACK" \in Head(ring).flags
      BY <1>4, <2>3 DEF AcceptTake
    <2>5. Head(ring) \in In(ring) /\ Head(ring) \in Segs
      BY <1>0, <2>1, HeadOfFull, InSegs DEF Types
    <2>6. Head(ring).from = d
      <3>1. client[Head(ring).from].at \in Connected
        BY <2>4, <2>5 DEF IInv, SegmentsTrue, Carried
      <3>2. Head(ring).from \in Clients
        BY <2>5 DEF Segs
      <3> QED
        BY <2>3, <3>1, <3>2 DEF IInv, ClientsTrue
    <2> QED
      BY <2>2, <2>4, <2>5, <2>6 DEF Kind
  <1>5. CASE server' = server
    BY <1>1, <1>5 DEF AckTaken
  <1> QED
    BY <1>1, <1>2, <1>3, <1>4, <1>5
    DEF Next, vars, ClientStep, Listener, ServerMain, ServerTake, Look, ReturnCount,
        QueueRequest, Deliver, LoseToServer, LoseToClient, Stray, Connect, ConnectTake,
        SendWindow, SendTake

LEMMA AcksStep ==
  ASSUME IInv, NInv, [Next]_vars, NEW d \in Clients
  PROVE  /\ Acks(d)' \in Nat
         /\ Acks(d)' <= Acks(d)
              + (IF client[d].at \notin Connected /\ client'[d].at \in Connected THEN 1 ELSE 0)
  <1> DEFINE Q == Kind(d, "ACK")
             away == Count(Q, toServer[d])
             here == Count(Q, ring)
             taken == AckTaken(d)
             awayNext == Count(Q, toServer'[d])
             hereNext == Count(Q, ring')
             takenNext == AckTaken(d)'
             returns == IF client[d].at \notin Connected /\ client'[d].at \in Connected
                          THEN 1 ELSE 0
  <1>0. /\ Types /\ Types' /\ ListenerTrue /\ ServerTrue /\ SentTrue
        /\ server \in ServerRecords /\ client \in [Clients -> ClientRecords]
    BY TypesStep DEF IInv, NInv, Types
  <1>1. /\ away \in Nat /\ here \in Nat /\ taken \in {0, 1} /\ returns \in {0, 1}
        /\ awayNext \in Nat /\ hereNext \in Nat /\ takenNext \in {0, 1}
    BY <1>0, CountsAreNat, CountType, AckTakenStep DEF Types
  <1>2. takenNext # taken => AcceptTake /\ takenNext = 1 /\ taken = 0 /\ Head(ring) \in Q
    BY AckTakenStep
  <1>3. ASSUME NEW c \in Clients, Connect(c)
        PROVE  awayNext = away /\ hereNext = here
    <2>1. hereNext = here
      BY <1>3 DEF Connect
    <2> QED
      BY <1>0, <1>3, <2>1, CountConnect
  <1>4. ASSUME NEW c \in Clients, ConnectTake(c)
        PROVE  hereNext = here /\ (awayNext = away \/ (awayNext <= away + 1 /\ returns = 1))
    <2>1. hereNext = here
      BY <1>4 DEF ConnectTake
    <2>2. \/ awayNext = away
          \/ /\ awayNext <= away + 1
             /\ client[d].at = "connect" /\ client'[d].at \in Connected
      BY <1>0, <1>4, CountConnectTake
    <2> QED
      BY <2>1, <2>2 DEF Connected
  <1>5. ASSUME NEW c \in Clients, SendWindow(c)
        PROVE  awayNext = away /\ hereNext = here
    <2>1. hereNext = here
      BY <1>5 DEF SendWindow
    <2> QED
      BY <1>0, <1>5, <2>1, CountWindow
  <1>6. ASSUME Look PROVE awayNext = away /\ hereNext <= here
    <2>1. awayNext = away
      BY <1>6 DEF Look
    <2> QED
      BY <1>0, <1>6, <2>1, CountLooked
  <1>7. ASSUME AcceptTake \/ RecvTake
        PROVE  awayNext = away /\ here = hereNext + One(Q, Head(ring))
    <2>1. Full > 0 /\ ring' = Tail(ring) /\ toServer' = toServer
      BY <1>7 DEF AcceptTake, RecvTake
    <2>2. ring # <<>> /\ ring \in Seq(Segs)
      BY <1>0, <2>1, HeadOfFull DEF Types
    <2>3. Count(Q, ring) = Count(Q, Tail(ring)) + One(Q, Head(ring))
      BY <2>2, CountHead
    <2> QED
      BY <2>1, <2>3
  <1>8. ASSUME NEW c \in Clients, Deliver(c) PROVE awayNext + hereNext = away + here
    BY <1>0, <1>8, CountDelivered
  <1>9. ASSUME NEW c \in Clients, LoseToServer(c) PROVE awayNext <= away /\ hereNext = here
    <2>1. toServer[c] # <<>> /\ toServer' = [toServer EXCEPT ![c] = Tail(@)] /\ ring' = ring
      BY <1>9 DEF LoseToServer
    <2>2. awayNext <= away
      BY <1>0, <2>1, CountAhead
    <2> QED
      BY <2>1, <2>2
  <1>10. toServer' = toServer /\ ring' = ring => awayNext = away /\ hereNext = here
    OBVIOUS
  <1>11. One(Q, Head(ring)) \in {0, 1} /\ (Head(ring) \in Q => One(Q, Head(ring)) = 1)
    BY DEF One
  <1> HIDE DEF away, here, taken, awayNext, hereNext, takenNext, returns
  <1>12. \/ \E c \in Clients : \/ Connect(c) \/ ConnectTake(c) \/ SendWindow(c)
                               \/ Deliver(c) \/ LoseToServer(c)
         \/ Look \/ AcceptTake \/ RecvTake
         \/ toServer' = toServer /\ ring' = ring
    BY DEF Next, vars, ClientStep, Listener, ServerMain, ServerTake, ReturnCount, QueueRequest,
           LoseToClient, Stray, SendTake, AcceptRequest, Acknowledge
  <1>14. ASSUME ~ AcceptTake PROVE takenNext = taken
    BY <1>2, <1>14
  <1>15. /\ Acks(d) = away + here + taken /\ Acks(d)' = awayNext + hereNext + takenNext
    BY DEF Acks, away, here, taken, awayNext, hereNext, takenNext
  <1>16. ASSUME ~ (AcceptTake \/ RecvTake)
         PROVE  awayNext + hereNext <= away + here + returns /\ takenNext = taken
    BY <1>1, <1>3, <1>4, <1>5, <1>6, <1>8, <1>9, <1>10, <1>12, <1>14, <1>16
  <1>17. Acks(d)' \in Nat /\ Acks(d)' <= Acks(d) + returns
    <2>1. CASE AcceptTake \/ RecvTake
      <3>1. awayNext = away /\ here = hereNext + One(Q, Head(ring))
        BY <1>7, <2>1
      <3> QED
        BY <1>1, <1>2, <1>11, <1>15, <3>1
    <2>2. CASE ~ (AcceptTake \/ RecvTake)
      BY <1>1, <1>15, <1>16, <2>2
    <2> QED
      BY <2>1, <2>2
  <1> QED
    BY <1>17 DEF returns

LEMMA OnceStep ==
  ASSUME IInv, NInv, OnceTrue, [Next]_vars
  PROVE  OnceTrue'
  <1> SUFFICES ASSUME NEW d \in Clients
               PROVE  /\ Syns(d)' <= (IF client'[d].at = "start" THEN 0 ELSE 1)
                      /\ Acks(d)' <= (IF client'[d].at \in Connected THEN 1 ELSE 0)
    BY DEF OnceTrue
  <1>0. Types /\ Types' /\ Keeps(d)
    BY ClientsKeep, TypesStep DEF IInv
  <1>1. Syns(d) \in Nat /\ Acks(d) \in Nat
    <2>1. AckTaken(d) \in {0, 1}
      BY DEF AckTaken
    <2> QED
      BY <1>0, <2>1, CountsAreNat DEF Syns, Acks
  <1>2. /\ Syns(d) <= (IF client[d].at = "start" THEN 0 ELSE 1)
        /\ Acks(d) <= (IF client[d].at \in Connected THEN 1 ELSE 0)
    BY DEF OnceTrue
  <1>3. Syns(d)' <= (IF client'[d].at = "start" THEN 0 ELSE 1)
    BY <1>0, <1>1, <1>2, SynsStep DEF Keeps
  <1>4. Acks(d)' <= (IF client'[d].at \in Connected THEN 1 ELSE 0)
    BY <1>0, <1>1, <1>2, AcksStep DEF Keeps
  <1> QED
    BY <1>3, <1>4

LEMMA InitOnce == Init => OnceTrue
  <1> SUFFICES ASSUME Init, NEW c \in Clients
               PROVE  /\ Syns(c) <= (IF client[c].at = "start" THEN 0 ELSE 1)
                      /\ Acks(c) <= (IF client[c].at \in Connected THEN 1 ELSE 0)
    BY DEF OnceTrue
  <1>1. Syns(c) = 0
    <2>1. server.peer # c
      BY MoreSizes DEF Init
    <2>2. /\ toServer[c] = <<>> /\ ring = <<>> /\ listener.syn = <<>> /\ requests = <<>>
      BY DEF Init
    <2> QED
      BY <2>1, <2>2, CountEmpty DEF Syns
  <1>2. Acks(c) = 0
    <2>1. toServer[c] = <<>> /\ ring = <<>> /\ server.at = "accept"
      BY DEF Init
    <2> QED
      BY <2>1, CountEmpty DEF Acks, AckTaken
  <1> QED
    BY <1>1, <1>2

SInv == IInv /\ NInv /\ OnceTrue

LEMMA SessionStep == SInv /\ [Next]_vars => SInv'
  BY StepInv, NumbersStep, OnceStep DEF SInv

LEMMA InitSession == Init => SInv
  BY InitInv, InitNumbers, InitOnce DEF SInv

\* A connection request is never in two places, whatever is lost, whichever
\* thread takes it from the ring and however often the listener looks and
\* gives the count back: the listener hands on what it takes and nothing else.
THEOREM RequestedOnceAlways == Spec => []RequestedOnce
  <1>1. SInv => RequestedOnce
    <2> SUFFICES ASSUME SInv, NEW c \in Clients PROVE Requests(c) <= 1
      BY DEF RequestedOnce
    <2>1. Types /\ Syns(c) <= (IF client[c].at = "start" THEN 0 ELSE 1)
      BY DEF SInv, IInv, OnceTrue
    <2>2. Syns(c) \in Nat
      BY <2>1, CountsAreNat DEF Syns
    <2> QED
      BY <2>1, <2>2, SynsAreRequests
  <1> QED
    BY <1>1, InitSession, SessionStep, PTL DEF Spec

(***************************************************************************)
(* What recv has in its buffer.  A bit is set for the data of its place, or*)
(* for the SYN of another client that has called connect.                  *)
(***************************************************************************)
Explained(j) ==
  \/ stored[j] = [call |-> 1, at |-> j]
  \/ \E c \in Clients \ {server.peer} :
       client[c].at # "start" /\ client[c].init = server.clientInit + 1 + j

BitsTrue ==
  server.at \in {"recv", "acknowledge"} /\ server.call = 1 => \A j \in bits : Explained(j)

LEMMA CountHas ==
  ASSUME NEW s \in Seq(Segs), NEW P, s # <<>>, Head(s) \in P
  PROVE  Count(P, s) \in Nat /\ Count(P, s) >= 1
  BY CountHead, CountType DEF One

\* A segment in the ring while recv takes: the peer's request and its
\* acknowledgement are gone, so it is the peer's data, or another client's SYN.
LEMMA TakenIsKnown ==
  ASSUME SInv, RecvTake
  PROVE  LET seg == Head(ring)
         IN  /\ seg \in Segments /\ server.peer \in Clients
             /\ \/ /\ seg.from = server.peer /\ seg.data # NoData
                   /\ seg.data.call = 1 => seg.seq = server.clientInit + 1 + seg.data.at
                   /\ seg.data.call # 1 => seg.seq >= server.clientInit + 1 + BufLen
                \/ /\ seg.from \in Clients \ {server.peer} /\ seg.data = NoData
                   /\ client[seg.from].at # "start" /\ client[seg.from].init = seg.seq
  <1> DEFINE seg == Head(ring)
             peer == server.peer
  <1>0. /\ Types /\ ListenerTrue /\ ring \in Seq(Segs) /\ ring # <<>> /\ seg \in In(ring)
        /\ peer \in Clients /\ server.at = "recv"
    BY HeadOfFull DEF SInv, IInv, NInv, Types, RecvTake
  <1>1. /\ seg \in Segments /\ seg \in Segs /\ Sent(seg.from, seg) /\ Carried(seg)
        /\ seg.from \in Clients
    BY <1>0, InSegs DEF SInv, IInv, NInv, SentTrue, Sent, SegmentsTrue, Segs
  <1>2. /\ client[peer].init = server.clientInit
        /\ client[seg.from].at \in Connected => seg.from = peer
    BY <1>0, <1>1 DEF SInv, IInv, PeerTrue, ClientsTrue
  <1>3. CASE "SYN" \in seg.flags
    <2>1. seg.from # peer
      <3> SUFFICES ASSUME seg.from = peer PROVE FALSE
        OBVIOUS
      <3> DEFINE P == Kind(peer, "SYN")
      <3>1. seg \in P
        BY <1>1, <1>3 DEF Kind
      <3>2. Count(P, ring) >= 1
        BY <1>0, <3>1, CountHas
      <3>3. Syns(peer) = Count(P, toServer[peer]) + Count(P, ring) + Count(P, listener.syn)
                           + Count(P, requests) + 1
        BY DEF Syns
      <3>4. Syns(peer) <= 1
        <4>1. Syns(peer) <= (IF client[peer].at = "start" THEN 0 ELSE 1)
          BY <1>0 DEF SInv, OnceTrue
        <4>2. client[peer].at # "start"
          BY <1>0 DEF SInv, IInv, PeerTrue
        <4> QED
          BY <4>1, <4>2
      <3>5. /\ Count(P, toServer[peer]) \in Nat /\ Count(P, ring) \in Nat
            /\ Count(P, listener.syn) \in Nat /\ Count(P, requests) \in Nat
        BY <1>0, CountsAreNat
      <3> HIDE DEF P, peer
      <3> QED
        BY <3>2, <3>3, <3>4, <3>5
    <2>2. seg.data = NoData
      BY <1>1, <1>3 DEF Sent
    <2>3. client[seg.from].at # "start" /\ client[seg.from].init = seg.seq
      BY <1>1, <1>3 DEF Carried
    <2> QED
      BY <1>0, <1>1, <2>1, <2>2, <2>3
  <1>4. CASE "ACK" \in seg.flags
    <2>1. seg.from = peer
      BY <1>1, <1>2, <1>4 DEF Carried
    <2> DEFINE P == Kind(peer, "ACK")
    <2>2. seg \in P
      BY <1>1, <1>4, <2>1 DEF Kind
    <2>3. Count(P, ring) >= 1
      BY <1>0, <2>2, CountHas
    <2>4. Acks(peer) = Count(P, toServer[peer]) + Count(P, ring) + 1
      BY <1>0 DEF Acks, AckTaken
    <2>5. Acks(peer) <= 1
      <3>1. Acks(peer) <= (IF client[peer].at \in Connected THEN 1 ELSE 0)
        BY <1>0 DEF SInv, OnceTrue
      <3>2. client[peer].at \in Connected
        BY <1>0 DEF SInv, IInv, Accepted
      <3> QED
        BY <3>1, <3>2
    <2>6. Count(P, toServer[peer]) \in Nat /\ Count(P, ring) \in Nat
      BY <1>0, CountsAreNat
    <2>7. FALSE
      <3> HIDE DEF P, peer
      <3> QED
        BY <2>3, <2>4, <2>5, <2>6
    <2> QED
      BY <2>7
  <1>5. CASE seg.flags = {}
    <2>1. /\ client[seg.from].at \in Connected /\ seg.data.call >= 1
          /\ seg.data.call = 1 => seg.seq = client[seg.from].init + 1 + seg.data.at
          /\ seg.data.call > 1 => seg.seq >= client[seg.from].init + 1 + BufLen
      BY <1>1, <1>5 DEF Sent
    <2>2. seg.from = peer
      BY <1>2, <2>1
    <2>3. seg.data # NoData
      BY <2>1 DEF NoData
    <2>4. seg.data.call \in Int
      BY <1>1, MoreSizes DEF Segments
    <2>5. client[seg.from].init = server.clientInit
      BY <1>2, <2>2
    <2>6. /\ seg.data.call = 1 => seg.seq = server.clientInit + 1 + seg.data.at
          /\ seg.data.call # 1 => seg.seq >= server.clientInit + 1 + BufLen
      <3> HIDE DEF seg
      <3> QED
        BY <2>1, <2>4, <2>5
    <2> QED
      BY <1>0, <1>1, <2>2, <2>3, <2>6
  <1>6. seg.flags \subseteq {"SYN", "ACK"}
    BY <1>1 DEF Segs
  <1> QED
    BY <1>3, <1>4, <1>5, <1>6

LEMMA BitsStep ==
  ASSUME SInv, BitsTrue, [Next]_vars
  PROVE  BitsTrue'
  <1>0. /\ Types /\ server \in ServerRecords /\ ServerTrue /\ ServerKeeps
        /\ \A c \in Clients : Keeps(c)
    BY ServerKept, ClientsKeep DEF SInv, IInv, NInv, Types
  <1> SUFFICES ASSUME server'.at \in {"recv", "acknowledge"}, server'.call = 1,
                      NEW j \in bits'
               PROVE  Explained(j)'
    BY DEF BitsTrue
  <1>1. ASSUME j \in bits, server.at \in {"recv", "acknowledge"}, server.call = 1,
               stored'[j] = stored[j] \/ stored'[j] = [call |-> 1, at |-> j]
        PROVE  Explained(j)'
    <2>1. Explained(j)
      BY <1>1 DEF BitsTrue
    <2>2. server'.peer = server.peer /\ server'.clientInit = server.clientInit
      BY <1>0, <1>1 DEF ServerKeeps
    <2>3. CASE stored[j] = [call |-> 1, at |-> j]
      BY <1>1, <2>3 DEF Explained
    <2>4. ASSUME NEW c \in Clients \ {server.peer}, client[c].at # "start",
                 client[c].init = server.clientInit + 1 + j
          PROVE  Explained(j)'
      <3>1. client'[c].at # "start" /\ client'[c].init = server'.clientInit + 1 + j
        BY <1>0, <2>2, <2>4 DEF Keeps
      <3> QED
        BY <2>2, <2>4, <3>1 DEF Explained
    <2> QED
      BY <2>1, <2>3, <2>4 DEF Explained
  <1>2. ASSUME AcceptRequest PROVE FALSE
    <2>1. server'.at = "accepting"
      BY <1>0, <1>2 DEF AcceptRequest, ServerRecords
    <2> QED
      BY <2>1
  <1>3. ASSUME AcceptTake PROVE FALSE
    <2>1. bits' = {}
      BY <1>0, <1>3 DEF AcceptTake, ServerTrue
    <2> QED
      BY <2>1
  <1>4. ASSUME RecvTake PROVE Explained(j)'
    <2> DEFINE seg == Head(ring)
               at == seg.seq - (server.clientInit + 1)
    <2>0. server.at = "recv" /\ server.call = 1 /\ client' = client
      BY <1>0, <1>4 DEF RecvTake, ServerRecords
    <2>1. /\ server'.peer = server.peer /\ server'.clientInit = server.clientInit
          /\ server.clientInit \in Nat
      BY <1>0, <2>0 DEF ServerKeeps, ServerTrue
    <2>2. /\ seg \in Segments /\ server.peer \in Clients
          /\ \/ /\ seg.from = server.peer /\ seg.data # NoData
                /\ seg.data.call = 1 => seg.seq = server.clientInit + 1 + seg.data.at
                /\ seg.data.call # 1 => seg.seq >= server.clientInit + 1 + BufLen
             \/ /\ seg.from \in Clients \ {server.peer} /\ seg.data = NoData
                /\ client[seg.from].at # "start" /\ client[seg.from].init = seg.seq
      BY <1>4, TakenIsKnown, Zenon
    <2>3. /\ seg.seq \in Nat /\ seg.data.at \in Int
          /\ seg.data = [call |-> seg.data.call, at |-> seg.data.at]
      BY <2>2, Sizes DEF Segments
    <2>4. CASE bits' = bits /\ stored' = stored
      BY <1>1, <2>0, <2>4
    <2>5. CASE /\ at \in 0 .. BufLen - 1 /\ bits' = bits \cup {at}
               /\ stored' = [stored EXCEPT ![at] = IF seg.data = NoData THEN @ ELSE seg.data]
      <3>0. DOMAIN stored = 0 .. BufLen - 1
        BY <1>0 DEF ServerTrue
      <3>1. CASE j # at
        <4>1. stored'[j] = stored[j] /\ j \in bits
          BY <2>5, <3>1
        <4> QED
          BY <1>1, <2>0, <4>1
      <3>2. CASE j = at /\ seg.data # NoData
        <4>1. seg.data.call = 1 /\ seg.seq = server.clientInit + 1 + seg.data.at
          BY <2>1, <2>2, <2>3, <2>5, <3>2, Sizes
        <4>2. seg.data.at = j
          BY <2>1, <2>3, <3>2, <4>1
        <4>3. stored'[at] = seg.data
          <5> HIDE DEF at, seg
          <5> QED
            BY <2>5, <3>0, <3>2
        <4>4. stored'[j] = [call |-> 1, at |-> j]
          BY <2>3, <3>2, <4>1, <4>2, <4>3
        <4> QED
          BY <4>4 DEF Explained
      <3>3. CASE j = at /\ seg.data = NoData
        <4>1. /\ seg.from \in Clients \ {server.peer} /\ client[seg.from].at # "start"
              /\ client[seg.from].init = seg.seq
          BY <2>2, <3>3
        <4>2. seg.seq = server.clientInit + 1 + j
          BY <2>1, <2>3, <3>3
        <4> QED
          BY <2>0, <2>1, <4>1, <4>2 DEF Explained
      <3> QED
        BY <3>1, <3>2, <3>3
    <2> QED
      BY <1>0, <1>4, <2>4, <2>5, TakenPlace DEF SInv
  <1>5. ASSUME Acknowledge PROVE Explained(j)'
    <2> DEFINE over(next) == next >= BufLen
               last == server.call = Calls
    <2>1. PICK next \in 0 .. BufLen :
           /\ server' = [server EXCEPT
                !.at = IF over(next) /\ last THEN "done" ELSE "recv",
                !.call = IF over(next) /\ ~ last THEN @ + 1 ELSE @,
                !.start = IF over(next) THEN 0 ELSE next]
           /\ stored' = IF over(next) /\ ~ last THEN [i \in 0 .. BufLen - 1 |-> NoData]
                        ELSE stored
      BY <1>5 DEF Acknowledge
    <2>2. server.at = "acknowledge" /\ bits' = bits /\ server.call \in Int /\ server.call >= 1
      BY <1>0, <1>5, ServerTypes DEF Acknowledge, ServerTrue
    <2> DEFINE at == IF over(next) /\ last THEN "done" ELSE "recv"
               call == IF over(next) /\ ~ last THEN server.call + 1 ELSE server.call
               start == IF over(next) THEN 0 ELSE next
    <2>3. server' = [server EXCEPT !.at = at, !.call = call, !.start = start]
      BY <2>1
    <2>4. call = IF over(next) /\ ~ last THEN server.call + 1 ELSE server.call
      OBVIOUS
    <2> HIDE DEF at, call, start
    <2>5. server'.call = call
      BY <1>0, <2>3 DEF ServerRecords
    <2>6. ~ (over(next) /\ ~ last) /\ server.call = 1
      <3> HIDE DEF over, last
      <3> QED
        BY <2>2, <2>4, <2>5
    <2>7. stored' = stored
      BY <2>1, <2>6
    <2> QED
      BY <1>1, <2>2, <2>6, <2>7
  <1>6. CASE server' = server /\ bits' = bits /\ stored' = stored
    BY <1>1, <1>6
  <1> QED
    BY <1>2, <1>3, <1>4, <1>5, <1>6
    DEF Next, vars, ClientStep, Listener, ServerMain, ServerTake, Look, ReturnCount,
        QueueRequest, Deliver, LoseToServer, LoseToClient, Stray, Connect, ConnectTake,
        SendWindow, SendTake

\* In the first call of recv a bit that is set has its own data in the buffer,
\* or the number of its place is that of another client's request: the peer's
\* SYN and its acknowledgement of the connection cannot set one, since accept
\* has taken both and neither is sent twice.
THEOREM BitExplainedAlways == Spec => []BitExplained
  <1>1. SInv /\ BitsTrue => BitExplained
    BY DEF BitsTrue, Explained, BitExplained
  <1>2. Init => SInv /\ BitsTrue
    <2>1. Init => BitsTrue
      BY DEF Init, BitsTrue
    <2> QED
      BY <2>1, InitSession
  <1>3. SInv /\ BitsTrue /\ [Next]_vars => (SInv /\ BitsTrue)'
    BY SessionStep, BitsStep
  <1> QED
    BY <1>1, <1>2, <1>3, PTL DEF Spec
==============================================================================
