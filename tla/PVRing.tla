-------------------------------- MODULE PVRing --------------------------------
(***************************************************************************)
(* The bounded buffer between two layers of the stack.  The same code is   *)
(* written out for ethernet_recv_pool, ethernet_send_pool, ip_recv_pool,   *)
(* ip_send_pool, tcp_recv_pool, tcp_request_que and udp_recv_pool:         *)
(*                                                                         *)
(*    producer                        consumer                             *)
(*    P(&empty); P(&mutex);           P(&full); P(&mutex);                 *)
(*    memcpy(pool[tail], ...);        memcpy(..., pool[head]);             *)
(*    tail = (tail + 1) % MAX_QUE;    head = (head + 1) % MAX_QUE;         *)
(*    V(&mutex); V(&full);            V(&mutex); V(&empty);                *)
(*                                                                         *)
(* so a thread goes through six stages.  P and V (Global_Variable.cpp) are *)
(* plain code on a plain int: P polls until the int is positive and then   *)
(* decrements it, and nothing ties the poll to the decrement or makes the  *)
(* decrement, or V's increment, one access.  Both builds are modelled:     *)
(* with Split = FALSE each update of the int is one instruction and the    *)
(* threads share one processor; with Split = TRUE an update is a load and  *)
(* a later store (it goes through a register, or on several processors).   *)
(***************************************************************************)
EXTENDS Integers, Sequences, FiniteSets

CONSTANTS
  Producers,    \* the threads that put packets in
  Consumers,    \* the threads that take packets out
  Size,         \* MAX_QUE
  Items,        \* the packets
  NoItem,       \* the contents of a slot or local buffer never written
  Split         \* is an update of an int a load and a store?

ASSUME RingAssumption ==
  /\ Size \in Nat \ {0}
  /\ IsFiniteSet(Producers) /\ IsFiniteSet(Consumers)
  /\ Producers \cap Consumers = {}
  /\ NoItem \notin Items
  /\ Split \in BOOLEAN

VARIABLES
  sem,      \* the three ints: sem["empty"], sem["full"], sem["mutex"]
  pool,     \* the slots
  head,     \* the slot the next consumer reads
  tail,     \* the slot the next producer writes
  stage,    \* stage[t]: which of its six stages thread t is in
  phase,    \* phase[t]: how far t is into the P or V of that stage
  reg,      \* reg[t]: the register of a split update
  copy      \* copy[c]: the consumer's local copy of a slot

vars == <<sem, pool, head, tail, stage, phase, reg, copy>>

Threads == Producers \cup Consumers
Semaphores == {"empty", "full", "mutex"}
Slots == 0 .. Size - 1
Stages == {"take", "lock", "copy", "advance", "unlock", "give"}
Phases == {"test", "update", "store"}

(***************************************************************************)
(* The program of a thread.                                                *)
(***************************************************************************)
\* Mutant: both V's are called before the copy.
BugVBeforeCopy ==
  [take |-> "lock", lock |-> "unlock", unlock |-> "give",
   give |-> "copy", copy |-> "advance", advance |-> "take"]

StageAfter ==
  [take |-> "lock", lock |-> "copy", copy |-> "advance",
   advance |-> "unlock", unlock |-> "give", give |-> "take"]

PStages == {"take", "lock"}       \* the calls of P; V is "unlock" and "give"

EntryPhase(s) == IF s \in PStages THEN "test" ELSE "update"

\* The int that the P or V of thread t's stage is called on.
SemOf(t) ==
  CASE stage[t] \in {"lock", "unlock"}                    -> "mutex"
    [] stage[t] = "take" /\ t \in Producers               -> "empty"
    [] stage[t] = "take" /\ t \notin Producers            -> "full"
    [] stage[t] = "give" /\ t \in Producers               -> "full"
    [] OTHER                                              -> "empty"

\* Mutant: V does not increment.
BugLostWakeup(t, n) == IF stage[t] \in PStages THEN n - 1 ELSE n

Updated(t, n) == IF stage[t] \in PStages THEN n - 1 ELSE n + 1

MoveOn(t) ==
  /\ stage' = [stage EXCEPT ![t] = StageAfter[@]]
  /\ phase' = [phase EXCEPT ![t] = EntryPhase(StageAfter[stage[t]])]

\* Mutant: empty starts one above the number of slots.
BugInitExtraSlot ==
  /\ sem = [s \in Semaphores |->
              CASE s = "empty" -> Size + 1 [] s = "full" -> 0 [] OTHER -> 1]
  /\ pool = [i \in Slots |-> NoItem]
  /\ head = 0
  /\ tail = 0
  /\ stage = [t \in Threads |-> "take"]
  /\ phase = [t \in Threads |-> "test"]
  /\ reg = [t \in Threads |-> 0]
  /\ copy = [c \in Consumers |-> NoItem]

Init ==
  /\ sem = [s \in Semaphores |->
              CASE s = "empty" -> Size [] s = "full" -> 0 [] OTHER -> 1]
  /\ pool = [i \in Slots |-> NoItem]
  /\ head = 0
  /\ tail = 0
  /\ stage = [t \in Threads |-> "take"]
  /\ phase = [t \in Threads |-> "test"]
  /\ reg = [t \in Threads |-> 0]
  /\ copy = [c \in Consumers |-> NoItem]

(***************************************************************************)
(* P and V.                                                                *)
(***************************************************************************)
\* Mutant: P stops polling at zero already.
BugTestNonNegative(t) ==
  /\ phase[t] = "test"
  /\ sem[SemOf(t)] >= 0
  /\ phase' = [phase EXCEPT ![t] = "update"]
  /\ UNCHANGED <<sem, pool, head, tail, stage, reg, copy>>

\* The poll of P that finds the int positive; one that does not sleeps again.
Test(t) ==
  /\ phase[t] = "test"
  /\ sem[SemOf(t)] > 0
  /\ phase' = [phase EXCEPT ![t] = "update"]
  /\ UNCHANGED <<sem, pool, head, tail, stage, reg, copy>>

\* (*s)-- or (*s)++ as one access.
Update(t) ==
  /\ ~ Split
  /\ phase[t] = "update"
  /\ stage[t] \in {"take", "lock", "unlock", "give"}
  /\ sem' = [sem EXCEPT ![SemOf(t)] = Updated(t, @)]
  /\ MoveOn(t)
  /\ UNCHANGED <<pool, head, tail, reg, copy>>

\* (*s)-- or (*s)++ as a load ...
Load(t) ==
  /\ Split
  /\ phase[t] = "update"
  /\ stage[t] \in {"take", "lock", "unlock", "give"}
  /\ reg' = [reg EXCEPT ![t] = sem[SemOf(t)]]
  /\ phase' = [phase EXCEPT ![t] = "store"]
  /\ UNCHANGED <<sem, pool, head, tail, stage, copy>>

\* ... and a store.
Store(t) ==
  /\ phase[t] = "store"
  /\ sem' = [sem EXCEPT ![SemOf(t)] = Updated(t, reg[t])]
  /\ reg' = [reg EXCEPT ![t] = 0]
  /\ MoveOn(t)
  /\ UNCHANGED <<pool, head, tail, copy>>

(***************************************************************************)
(* Between P(&mutex) and V(&mutex).  Any packet may be the one a producer  *)
(* has staged for this copy.                                               *)
(***************************************************************************)
CopyIn(p) ==
  /\ stage[p] = "copy"
  /\ \E x \in Items : pool' = [pool EXCEPT ![tail] = x]
  /\ MoveOn(p)
  /\ UNCHANGED <<sem, head, tail, reg, copy>>

CopyOut(c) ==
  /\ stage[c] = "copy"
  /\ copy' = [copy EXCEPT ![c] = pool[head]]
  /\ MoveOn(c)
  /\ UNCHANGED <<sem, pool, head, tail, reg>>

\* Mutant: the index does not wrap.
BugTailNoWrap(p) ==
  /\ stage[p] = "advance"
  /\ tail' = tail + 1
  /\ MoveOn(p)
  /\ UNCHANGED <<sem, pool, head, reg, copy>>

AdvanceTail(p) ==
  /\ stage[p] = "advance"
  /\ tail' = (tail + 1) % Size
  /\ MoveOn(p)
  /\ UNCHANGED <<sem, pool, head, reg, copy>>

AdvanceHead(c) ==
  /\ stage[c] = "advance"
  /\ head' = (head + 1) % Size
  /\ MoveOn(c)
  /\ UNCHANGED <<sem, pool, tail, reg, copy>>

SemStep(t) == Test(t) \/ Update(t) \/ Load(t) \/ Store(t)
Produce(p) == SemStep(p) \/ CopyIn(p) \/ AdvanceTail(p)
Consume(c) == SemStep(c) \/ CopyOut(c) \/ AdvanceHead(c)

Next ==
  \/ \E p \in Producers : Produce(p)
  \/ \E c \in Consumers : Consume(c)

Spec == Init /\ [][Next]_vars

(***************************************************************************)
(* A running thread is scheduled again and again; a producer has to have a *)
(* packet before it starts, which nothing promises.                        *)
(***************************************************************************)
HasPacket(p) == ~ (stage[p] = "take" /\ phase[p] = "test")

Fairness ==
  /\ \A p \in Producers : WF_vars(HasPacket(p) /\ Produce(p))
  /\ \A c \in Consumers : WF_vars(Consume(c))

FairSpec == Spec /\ Fairness

------------------------------------------------------------------------------
(***************************************************************************)
(* Properties.                                                             *)
(***************************************************************************)
TypeOK ==
  /\ sem \in [Semaphores -> Int]
  /\ pool \in [Slots -> Items \cup {NoItem}]
  /\ head \in Slots
  /\ tail \in Slots
  /\ stage \in [Threads -> Stages]
  /\ phase \in [Threads -> Phases]
  /\ reg \in [Threads -> Int]
  /\ copy \in [Consumers -> Items \cup {NoItem}]

At(T, S) == {t \in T : stage[t] \in S}

(***************************************************************************)
(* The packets in the ring.  A packet is in it from the copy in to the     *)
(* copy out, so it also counts while its producer has not yet done V(&full)*)
(* and while its consumer has done P(&full) and not yet copied.            *)
(***************************************************************************)
Count ==
  sem["full"] + Cardinality(At(Producers, {"advance", "unlock", "give"}))
              + Cardinality(At(Consumers, {"lock", "copy"}))

First == head + Cardinality(At(Consumers, {"advance"}))

Contents == [i \in 1 .. Count |-> pool[(First + i - 1) % Size]]

Fifo == INSTANCE BoundedFifo WITH queue <- Contents

\* The ring is a bounded first-in first-out queue: no packet is lost,
\* repeated, overtaken, read from a slot nobody filled, or overwritten
\* before it is read.
ImplementsFifo == Fifo!Spec

\* README.md promises that the threads' critical resources are used under
\* mutual exclusion: at most one thread is between P(&mutex) and V(&mutex).
SectionExclusive == Cardinality(At(Threads, {"copy", "advance", "unlock"})) <= 1

\* Two threads never copy to or from one slot at the same time, whatever
\* becomes of the mutex.
SlotsDisjoint ==
  /\ \A p \in Producers, c \in Consumers :
       stage[p] = "copy" /\ stage[c] = "copy" => head # tail
  /\ \A p, q \in Producers : stage[p] = "copy" /\ stage[q] = "copy" => p = q

\* The two counters never leave 0 .. Size, so a full ring stops the
\* producers and an empty one the consumers, and at quiet they add up.
CountersBounded ==
  /\ sem["empty"] \in 0 .. Size
  /\ sem["full"] \in 0 .. Size
  /\ (\A t \in Threads : stage[t] = "take") =>
        sem["empty"] + sem["full"] = Size

\* A packet in the ring is taken by some consumer: the polls of P, the
\* overlapping sections and the two updates of a V cannot wedge the ring.
PacketsDrain ==
  (Contents # <<>>) ~> (\E c \in Consumers : stage[c] = "advance")
==============================================================================
