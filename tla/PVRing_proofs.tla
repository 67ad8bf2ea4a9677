---------------------------- MODULE PVRing_proofs ----------------------------
(***************************************************************************)
(* Theorems about PVRing.  Type correctness holds for any number of        *)
(* threads.  The rest is about a ring with one producing and one consuming *)
(* thread.  When semaphore updates are single instructions, or when there  *)
(* is one slot only, the ring is a FIFO queue of capacity Size although P  *)
(* and V are not atomic: each counter is then decremented by one thread    *)
(* only, each index is written by one thread only, and no update is lost.  *)
(* With several slots the mutex may be held by both.                       *)
(***************************************************************************)
EXTENDS PVRing, TLAPS, FiniteSetTheorems, SequenceTheorems

\* Every variable keeps its type, for any number of producers and consumers
\* and for either build of the semaphore updates.
THEOREM TypeCorrect == Spec => []TypeOK
<1>1. Init => TypeOK
  BY RingAssumption DEF Init, TypeOK, Semaphores, Slots, Stages, Phases, Threads
<1>2. TypeOK /\ [Next]_vars => TypeOK'
  <2> SUFFICES ASSUME TypeOK, [Next]_vars PROVE TypeOK'
    OBVIOUS
  <2>0. Size \in Nat /\ Size # 0
    BY RingAssumption
  <2>1. ASSUME NEW t \in Threads PROVE /\ SemOf(t) \in Semaphores
                                       /\ StageAfter[stage[t]] \in Stages
                                       /\ EntryPhase(StageAfter[stage[t]]) \in Phases
    BY DEF TypeOK, SemOf, Semaphores, StageAfter, Stages, EntryPhase, Phases
  <2>2. ASSUME NEW t \in Threads, MoveOn(t)
        PROVE stage' \in [Threads -> Stages] /\ phase' \in [Threads -> Phases]
    BY <2>1, <2>2 DEF TypeOK, MoveOn
  <2>3. ASSUME NEW t \in Threads, Test(t) PROVE TypeOK'
    BY <2>3 DEF TypeOK, Test, Phases
  <2>4. ASSUME NEW t \in Threads, Update(t) PROVE TypeOK'
    <3>1. Updated(t, sem[SemOf(t)]) \in Int
      BY <2>1 DEF TypeOK, Updated
    <3> QED BY <3>1, <2>1, <2>2, <2>4 DEF TypeOK, Update
  <2>5. ASSUME NEW t \in Threads, Load(t) PROVE TypeOK'
    BY <2>1, <2>5 DEF TypeOK, Load, Phases
  <2>6. ASSUME NEW t \in Threads, Store(t) PROVE TypeOK'
    <3>1. Updated(t, reg[t]) \in Int
      BY DEF TypeOK, Updated
    <3> QED BY <3>1, <2>1, <2>2, <2>6 DEF TypeOK, Store
  <2>7. ASSUME NEW p \in Producers, CopyIn(p) PROVE TypeOK'
    BY <2>2, <2>7 DEF TypeOK, CopyIn, Threads
  <2>8. ASSUME NEW c \in Consumers, CopyOut(c) PROVE TypeOK'
    BY <2>2, <2>8 DEF TypeOK, CopyOut, Threads
  <2>9. ASSUME NEW p \in Producers, AdvanceTail(p) PROVE TypeOK'
    BY <2>0, <2>2, <2>9 DEF TypeOK, AdvanceTail, Threads, Slots
  <2>10. ASSUME NEW c \in Consumers, AdvanceHead(c) PROVE TypeOK'
    BY <2>0, <2>2, <2>10 DEF TypeOK, AdvanceHead, Threads, Slots
  <2>11. CASE UNCHANGED vars
    BY <2>11 DEF TypeOK, vars
  <2> QED
    BY <2>3, <2>4, <2>5, <2>6, <2>7, <2>8, <2>9, <2>10, <2>11
    DEF Next, Produce, Consume, SemStep, Threads
<1> QED BY <1>1, <1>2, PTL DEF Spec

------------------------------------------------------------------------------
(***************************************************************************)
(* The ring with one producer and one consumer.                            *)
(***************************************************************************)
prod == CHOOSE p : Producers = {p}
cons == CHOOSE c : Consumers = {c}

OneEach == Producers = {prod} /\ Consumers = {cons}

SingleEnded == OneEach /\ ~ Split

\* 1 when the thread is in one of the stages S, and 0 when it is not.
In(t, S) == IF stage[t] \in S THEN 1 ELSE 0

\* The packets from head to tail: those in full, the one whose V(&full) is
\* still to come, and the one whose P(&full) is past but whose slot head has
\* not left.
Span == sem["full"] + In(prod, {"unlock", "give"})
                    + In(cons, {"lock", "copy", "advance"})

\* With whole updates no thread is between a load and a store, and a thread
\* is at a test only where its stage calls P.
PhaseInv ==
  \A t \in Threads : /\ phase[t] \in {"test", "update"}
                     /\ phase[t] = "test" => stage[t] \in PStages

\* Only prod decrements empty and only cons decrements full, so what a poll
\* of P has seen is still true at the decrement.
PollStillTrue ==
  /\ sem["empty"] >= 0
  /\ sem["full"] >= 0
  /\ stage[prod] = "take" /\ phase[prod] # "test" => sem["empty"] > 0
  /\ stage[cons] = "take" /\ phase[cons] # "test" => sem["full"] > 0

\* Every slot is counted once: in empty, in full, or by the thread that has
\* taken it from the one and not yet given it to the other.
SlotsCounted ==
  sem["empty"] + sem["full"]
    + In(prod, {"lock", "copy", "advance", "unlock", "give"})
    + In(cons, {"lock", "copy", "advance", "unlock", "give"}) = Size

\* The indices are as far apart as the counters say.
IndicesAgree == head + Span = tail \/ head + Span = tail + Size

RingFacts == TypeOK /\ PollStillTrue /\ SlotsCounted /\ IndicesAgree

RingInv == RingFacts /\ PhaseInv

LEMMA TwoThreads ==
  ASSUME OneEach
  PROVE  /\ prod # cons
         /\ Threads = {prod, cons}
         /\ prod \in Producers /\ cons \in Consumers
         /\ prod \notin Consumers /\ cons \notin Producers
  BY RingAssumption DEF OneEach, Threads

\* Which int a P or V of each thread is on.
LEMMA SemOfThreads ==
  ASSUME OneEach, TypeOK
  PROVE  /\ stage[prod] = "take" => SemOf(prod) = "empty"
         /\ stage[prod] = "give" => SemOf(prod) = "full"
         /\ stage[cons] = "take" => SemOf(cons) = "full"
         /\ stage[cons] = "give" => SemOf(cons) = "empty"
         /\ \A t \in Threads :
              stage[t] \in {"lock", "unlock"} => SemOf(t) = "mutex"
  BY TwoThreads DEF SemOf

\* Stepping an index wraps it from the last slot to the first.
LEMMA Wrap ==
  ASSUME NEW x \in Nat, x < 2 * Size
  PROVE  x % Size = IF x < Size THEN x ELSE x - Size
  BY RingAssumption

LEMMA RingFactsInit ==
  ASSUME OneEach, Init PROVE RingFacts
<1> USE RingAssumption, TwoThreads
<1>1. TypeOK
  BY DEF Init, TypeOK, Semaphores, Slots, Stages, Phases, Threads
<1>2. sem["empty"] = Size /\ sem["full"] = 0 /\ sem["mutex"] = 1
  BY DEF Init, Semaphores
<1>3. /\ stage[prod] = "take" /\ stage[cons] = "take"
      /\ phase[prod] = "test" /\ phase[cons] = "test"
  BY DEF Init
<1> QED
  BY <1>1, <1>2, <1>3 DEF Init, RingFacts, PollStillTrue,
     SlotsCounted, IndicesAgree, Span, In, PStages

\* What the P or V of a stage does, at once or by a load and a store.
Semaphoring(t) ==
  /\ stage' = [stage EXCEPT ![t] = StageAfter[@]]
  /\ phase' = [phase EXCEPT ![t] = EntryPhase(StageAfter[stage[t]])]
  /\ sem' = [sem EXCEPT ![SemOf(t)] = Updated(t, @)]
  /\ stage[t] \in {"take", "lock", "unlock", "give"}
  /\ phase[t] # "test"
  /\ UNCHANGED <<pool, head, tail, copy>>

\* A store puts back the value it loaded, and nobody has changed it meanwhile.
StoreIsUpdate ==
  \A t \in Threads :
    phase[t] = "store" => /\ stage[t] \in {"take", "lock", "unlock", "give"}
                          /\ reg[t] = sem[SemOf(t)]

LEMMA IsSemaphoring ==
  ASSUME TypeOK, StoreIsUpdate, NEW t \in Threads, Update(t) \/ Store(t)
  PROVE  Semaphoring(t)
  BY DEF TypeOK, StoreIsUpdate, Update, Store, MoveOn, Semaphoring

LEMMA SemaphoringFacts ==
  ASSUME OneEach, RingFacts, TypeOK', NEW t \in Threads, Semaphoring(t)
  PROVE  RingFacts'
<1> USE RingAssumption, TwoThreads, SemOfThreads DEF RingFacts
<1>0. /\ sem \in [Semaphores -> Int] /\ stage \in [Threads -> Stages]
      /\ phase \in [Threads -> Phases] /\ head \in Nat /\ tail \in Nat
      /\ head < Size /\ tail < Size
  BY DEF TypeOK, Slots
<1>1. /\ stage' = [stage EXCEPT ![t] = StageAfter[@]]
      /\ phase' = [phase EXCEPT ![t] = EntryPhase(StageAfter[stage[t]])]
      /\ sem' = [sem EXCEPT ![SemOf(t)] = Updated(t, @)]
      /\ stage[t] \in {"take", "lock", "unlock", "give"}
      /\ phase[t] # "test"
      /\ head' = head /\ tail' = tail
  BY DEF Semaphoring
<1>3. CASE stage[t] \in {"lock", "unlock"}
  <2>1. sem'["empty"] = sem["empty"] /\ sem'["full"] = sem["full"]
    BY <1>0, <1>1, <1>3 DEF Semaphores
  <2>2. stage'[t] = IF stage[t] = "lock" THEN "copy" ELSE "give"
    BY <1>0, <1>1, <1>3 DEF StageAfter
  <2> QED
    BY <1>0, <1>1, <1>3, <2>1, <2>2
    DEF PollStillTrue, SlotsCounted, IndicesAgree, Span, In
<1>4. CASE stage[t] = "take"
  <2>1. stage' = [stage EXCEPT ![t] = "lock"]
    BY <1>0, <1>1, <1>4 DEF StageAfter
  <2>2. CASE t = prod
    <3>1. sem'["empty"] = sem["empty"] - 1 /\ sem'["full"] = sem["full"]
      BY <1>0, <1>1, <1>4, <2>2 DEF Semaphores, Updated, PStages
    <3>2. /\ stage[prod] = "take" /\ stage'[prod] = "lock"
          /\ stage'[cons] = stage[cons] /\ phase'[cons] = phase[cons]
      BY <1>0, <1>1, <1>4, <2>1, <2>2
    <3>3. PollStillTrue'
      BY <1>0, <1>1, <2>2, <3>1, <3>2 DEF PollStillTrue, SlotsCounted, In, Semaphores
    <3>4. SlotsCounted' /\ IndicesAgree'
      BY <1>0, <1>1, <3>1, <3>2 DEF SlotsCounted, IndicesAgree, Span, In, Semaphores
    <3> QED
      BY <3>3, <3>4
  <2>3. CASE t = cons
    <3>1. sem'["full"] = sem["full"] - 1 /\ sem'["empty"] = sem["empty"]
      BY <1>0, <1>1, <1>4, <2>3 DEF Semaphores, Updated, PStages
    <3>2. /\ stage[cons] = "take" /\ stage'[cons] = "lock"
          /\ stage'[prod] = stage[prod] /\ phase'[prod] = phase[prod]
      BY <1>0, <1>1, <1>4, <2>1, <2>3
    <3>3. PollStillTrue'
      BY <1>0, <1>1, <2>3, <3>1, <3>2 DEF PollStillTrue, SlotsCounted, In, Semaphores
    <3>4. SlotsCounted' /\ IndicesAgree'
      BY <1>0, <1>1, <3>1, <3>2 DEF SlotsCounted, IndicesAgree, Span, In, Semaphores
    <3> QED
      BY <3>3, <3>4
  <2> QED BY <2>2, <2>3
<1>5. CASE stage[t] = "give"
  <2>1. stage' = [stage EXCEPT ![t] = "take"]
    BY <1>0, <1>1, <1>5 DEF StageAfter
  <2>2. phase'[t] = "test"
    BY <1>0, <1>1, <1>5 DEF StageAfter, EntryPhase, PStages
  <2>3. CASE t = prod
    <3>1. sem'["full"] = sem["full"] + 1 /\ sem'["empty"] = sem["empty"]
      BY <1>0, <1>1, <1>5, <2>3 DEF Semaphores, Updated, PStages
    <3>2. /\ stage[prod] = "give" /\ stage'[prod] = "take"
          /\ stage'[cons] = stage[cons] /\ phase'[cons] = phase[cons]
      BY <1>0, <1>1, <1>5, <2>1, <2>3
    <3>3. PollStillTrue'
      BY <1>0, <1>1, <2>2, <2>3, <3>1, <3>2 DEF PollStillTrue, SlotsCounted, In, Semaphores
    <3>4. SlotsCounted' /\ IndicesAgree'
      BY <1>0, <1>1, <3>1, <3>2 DEF SlotsCounted, IndicesAgree, Span, In, Semaphores
    <3> QED
      BY <3>3, <3>4
  <2>4. CASE t = cons
    <3>1. sem'["empty"] = sem["empty"] + 1 /\ sem'["full"] = sem["full"]
      BY <1>0, <1>1, <1>5, <2>4 DEF Semaphores, Updated, PStages
    <3>2. /\ stage[cons] = "give" /\ stage'[cons] = "take"
          /\ stage'[prod] = stage[prod] /\ phase'[prod] = phase[prod]
      BY <1>0, <1>1, <1>5, <2>1, <2>4
    <3>3. PollStillTrue'
      BY <1>0, <1>1, <2>2, <2>4, <3>1, <3>2 DEF PollStillTrue, SlotsCounted, In, Semaphores
    <3>4. SlotsCounted' /\ IndicesAgree'
      BY <1>0, <1>1, <3>1, <3>2 DEF SlotsCounted, IndicesAgree, Span, In, Semaphores
    <3> QED
      BY <3>3, <3>4
  <2> QED BY <2>3, <2>4
<1> QED BY <1>1, <1>3, <1>4, <1>5

LEMMA RingFactsStep ==
  ASSUME OneEach, RingFacts, StoreIsUpdate, [Next]_vars, TypeOK' PROVE RingFacts'
<1> USE RingAssumption, TwoThreads DEF RingFacts
<1>0. /\ sem \in [Semaphores -> Int] /\ stage \in [Threads -> Stages]
      /\ phase \in [Threads -> Phases] /\ head \in Nat /\ tail \in Nat
      /\ head < Size /\ tail < Size
  BY DEF TypeOK, Slots
<1>1. ASSUME NEW t \in Threads, Test(t) PROVE RingFacts'
  <2>1. PollStillTrue'
    BY <1>0, <1>1, SemOfThreads DEF Test, PollStillTrue
  <2>2. SlotsCounted' /\ IndicesAgree'
    BY <1>1 DEF Test, SlotsCounted, IndicesAgree, Span, In
  <2> QED BY <2>1, <2>2
<1>2. ASSUME NEW t \in Threads, Update(t) \/ Store(t) PROVE RingFacts'
  BY <1>2, IsSemaphoring, SemaphoringFacts
<1>3. ASSUME NEW t \in Threads, Load(t) PROVE RingFacts'
  <2>1. PollStillTrue'
    BY <1>0, <1>3 DEF Load, PollStillTrue
  <2>2. SlotsCounted' /\ IndicesAgree'
    BY <1>3 DEF Load, SlotsCounted, IndicesAgree, Span, In
  <2> QED BY <2>1, <2>2
<1>4. ASSUME CopyIn(prod) \/ CopyOut(cons) PROVE RingFacts'
  <2>1. PICK t \in {prod, cons} :
          /\ stage[t] = "copy"
          /\ stage' = [stage EXCEPT ![t] = "advance"]
          /\ phase' = [phase EXCEPT ![t] = "update"]
    BY <1>0, <1>4 DEF CopyIn, CopyOut, MoveOn, StageAfter, EntryPhase, PStages
  <2>2. UNCHANGED <<sem, head, tail>>
    BY <1>4 DEF CopyIn, CopyOut
  <2> QED
    BY <1>0, <2>1, <2>2
    DEF PollStillTrue, SlotsCounted, IndicesAgree, Span, In
<1>5. ASSUME AdvanceTail(prod) PROVE RingFacts'
  <2>1. /\ stage[prod] = "advance"
        /\ stage' = [stage EXCEPT ![prod] = "unlock"]
        /\ phase' = [phase EXCEPT ![prod] = "update"]
        /\ UNCHANGED <<sem, head>>
    BY <1>0, <1>5 DEF AdvanceTail, MoveOn, StageAfter, EntryPhase, PStages
  <2>2. tail' = IF tail + 1 < Size THEN tail + 1 ELSE tail + 1 - Size
    BY <1>0, <1>5, Wrap DEF AdvanceTail
  <2>3. /\ stage'[prod] = "unlock"
        /\ stage'[cons] = stage[cons] /\ phase'[cons] = phase[cons]
    BY <1>0, <2>1
  <2>4. PollStillTrue'
    BY <2>1, <2>3 DEF PollStillTrue
  <2>5. SlotsCounted'
    BY <1>0, <2>1, <2>3 DEF SlotsCounted, In, Semaphores
  <2>6. IndicesAgree'
    BY <1>0, <2>1, <2>2, <2>3 DEF PollStillTrue, SlotsCounted, IndicesAgree, Span, In, Semaphores
  <2> QED
    BY <2>4, <2>5, <2>6
<1>6. ASSUME AdvanceHead(cons) PROVE RingFacts'
  <2>1. /\ stage[cons] = "advance"
        /\ stage' = [stage EXCEPT ![cons] = "unlock"]
        /\ phase' = [phase EXCEPT ![cons] = "update"]
        /\ UNCHANGED <<sem, tail>>
    BY <1>0, <1>6 DEF AdvanceHead, MoveOn, StageAfter, EntryPhase, PStages
  <2>2. head' = IF head + 1 < Size THEN head + 1 ELSE head + 1 - Size
    BY <1>0, <1>6, Wrap DEF AdvanceHead
  <2>3. /\ stage'[cons] = "unlock"
        /\ stage'[prod] = stage[prod] /\ phase'[prod] = phase[prod]
    BY <1>0, <2>1
  <2>4. PollStillTrue'
    BY <2>1, <2>3 DEF PollStillTrue
  <2>5. SlotsCounted'
    BY <1>0, <2>1, <2>3 DEF SlotsCounted, In, Semaphores
  <2>6. IndicesAgree'
    BY <1>0, <2>1, <2>2, <2>3 DEF PollStillTrue, SlotsCounted, IndicesAgree, Span, In, Semaphores
  <2> QED
    BY <2>4, <2>5, <2>6
<1>7. CASE UNCHANGED vars
  BY <1>7 DEF vars, PollStillTrue, SlotsCounted, IndicesAgree, Span, In
<1> QED
  BY <1>1, <1>2, <1>3, <1>4, <1>5, <1>6, <1>7
  DEF Next, Produce, Consume, SemStep, OneEach

LEMMA RingInvariant == ASSUME SingleEnded PROVE Spec => []RingInv
<1> USE DEF SingleEnded
<1>1. Init => RingInv
  <2> SUFFICES ASSUME Init PROVE RingInv
    OBVIOUS
  <2> QED
    BY RingFactsInit DEF RingInv, Init, PhaseInv, PStages
<1>2. TypeOK' /\ RingInv /\ [Next]_vars => RingInv'
  <2> SUFFICES ASSUME TypeOK', RingInv, [Next]_vars PROVE RingInv'
    OBVIOUS
  <2>0. stage \in [Threads -> Stages] /\ phase \in [Threads -> Phases]
    BY DEF RingInv, RingFacts, TypeOK
  <2>1. RingFacts'
    <3>1. StoreIsUpdate
      BY DEF RingInv, PhaseInv, StoreIsUpdate
    <3> QED BY <3>1, RingFactsStep DEF RingInv
  <2>2. ASSUME NEW t \in Threads, SemStep(t) PROVE PhaseInv'
    BY <2>0, <2>2 DEF RingInv, SemStep, Test, Update, Load, Store, MoveOn, PhaseInv,
       EntryPhase, StageAfter, PStages, Stages
  <2>3. ASSUME NEW t \in Threads, MoveOn(t) PROVE PhaseInv'
    BY <2>0, <2>3 DEF RingInv, MoveOn, PhaseInv, EntryPhase, StageAfter, PStages, Stages
  <2>4. ASSUME UNCHANGED vars PROVE PhaseInv'
    BY <2>4 DEF RingInv, PhaseInv, vars
  <2>5. PhaseInv'
    BY <2>2, <2>3, <2>4, TwoThreads
    DEF Next, Produce, Consume, CopyIn, CopyOut, AdvanceTail, AdvanceHead, Threads
  <2> QED BY <2>1, <2>5 DEF RingInv
<1> QED BY <1>1, <1>2, TypeCorrect, PTL DEF Spec

\* With one producer and one consumer no slot is read while it is written,
\* although the two may both be between P(&mutex) and V(&mutex).
THEOREM SlotsDisjointSPSC == ASSUME SingleEnded PROVE Spec => []SlotsDisjoint
<1> USE DEF SingleEnded
<1>1. RingInv => SlotsDisjoint
  <2> SUFFICES ASSUME RingInv, stage[prod] = "copy", stage[cons] = "copy"
               PROVE  head # tail
    BY TwoThreads DEF SlotsDisjoint, SingleEnded, OneEach
  <2>1. Span \in Int /\ 0 < Span /\ Span < Size
    BY RingAssumption DEF RingInv, RingFacts, PollStillTrue, SlotsCounted, Span, In,
       TypeOK, Semaphores
  <2> QED BY <2>1, RingAssumption DEF RingInv, RingFacts, IndicesAgree, TypeOK, Slots
<1> QED BY <1>1, RingInvariant, PTL

LEMMA FactsBoundCounters == ASSUME OneEach, RingFacts PROVE CountersBounded
<1>1. sem["empty"] \in Int /\ sem["full"] \in Int /\ Size \in Nat
  BY RingAssumption DEF RingFacts, TypeOK, Semaphores
<1>2. sem["empty"] \in 0 .. Size /\ sem["full"] \in 0 .. Size
  BY <1>1 DEF RingFacts, PollStillTrue, SlotsCounted, In
<1>3. (\A t \in Threads : stage[t] = "take") => sem["empty"] + sem["full"] = Size
  BY <1>1, TwoThreads DEF RingFacts, SlotsCounted, In
<1> QED BY <1>2, <1>3 DEF CountersBounded

\* With one producer and one consumer the counters stay in 0 .. Size, and no
\* slot is lost or gained however often the threads go round.
THEOREM CountersBoundedSPSC == ASSUME SingleEnded PROVE Spec => []CountersBounded
<1> USE DEF SingleEnded
<1>1. RingInv => CountersBounded
  BY FactsBoundCounters DEF RingInv
<1> QED BY <1>1, RingInvariant, PTL

------------------------------------------------------------------------------
(***************************************************************************)
(* The refinement.                                                         *)
(***************************************************************************)
LEMMA AtOne ==
  ASSUME NEW t, NEW S PROVE Cardinality(At({t}, S)) = In(t, S)
<1>1. CASE stage[t] \in S
  <2>1. At({t}, S) = {t}
    BY <1>1 DEF At
  <2> QED BY <1>1, <2>1, FS_Singleton DEF In
<1>2. CASE stage[t] \notin S
  <2>1. At({t}, S) = {}
    BY <1>2 DEF At
  <2> QED BY <1>2, <2>1, FS_EmptySet DEF In
<1> QED BY <1>1, <1>2

\* Count and First in terms of the stages of the two threads.
LEMMA CountFirst ==
  ASSUME OneEach
  PROVE  /\ Count = sem["full"] + In(prod, {"advance", "unlock", "give"})
                                + In(cons, {"lock", "copy"})
         /\ First = head + In(cons, {"advance"})
  BY AtOne DEF OneEach, Count, First

LEMMA CountFirstNext ==
  ASSUME OneEach
  PROVE  /\ Count' = sem["full"]' + In(prod, {"advance", "unlock", "give"})'
                                + In(cons, {"lock", "copy"})'
         /\ First' = head' + In(cons, {"advance"})'
<1>1. ASSUME NEW t, NEW S PROVE Cardinality(At({t}, S))' = In(t, S)'
  <2>1. CASE stage'[t] \in S
    <3>1. At({t}, S)' = {t}
      BY <2>1 DEF At
    <3> QED BY <2>1, <3>1, FS_Singleton DEF In
  <2>2. CASE stage'[t] \notin S
    <3>1. At({t}, S)' = {}
      BY <2>2 DEF At
    <3> QED BY <2>2, <3>1, FS_EmptySet DEF In
  <2> QED BY <2>1, <2>2
<1> QED BY <1>1 DEF OneEach, Count, First

LEMMA CountBounds ==
  ASSUME OneEach, RingFacts
  PROVE  /\ Count \in Nat /\ Count <= Size
         /\ First \in Nat /\ First <= Size
         /\ stage[prod] = "copy" => /\ Count < Size
                                    /\ \/ First + Count = tail
                                       \/ First + Count = tail + Size
         /\ stage[cons] = "copy" => First = head /\ Count > 0
<1>1. /\ sem["empty"] \in Int /\ sem["full"] \in Int /\ Size \in Nat
      /\ head \in Nat /\ tail \in Nat /\ head < Size
  BY RingAssumption DEF RingFacts, TypeOK, Semaphores, Slots
<1> QED
  BY <1>1, CountFirst
  DEF RingFacts, PollStillTrue, SlotsCounted, IndicesAgree, Span, In

\* A run of n slots, from the slot f on and round the end of the ring.
Run(q, f, n) == [i \in 1 .. n |-> q[(f + i - 1) % Size]]

LEMMA RunOfSlots ==
  ASSUME NEW S, NEW q \in [Slots -> S], NEW n \in Nat, NEW f \in Nat
  PROVE  Run(q, f, n) \in Seq(S) /\ Len(Run(q, f, n)) = n
<1>1. ASSUME NEW i \in 1 .. n PROVE (f + i - 1) % Size \in Slots
  BY RingAssumption DEF Slots
<1>2. Run(q, f, n) \in [1 .. n -> S]
  BY <1>1 DEF Run
<1>3. Len(Run(q, f, n)) = n
  BY DEF Run
<1> QED BY <1>2, <1>3, SeqDef

LEMMA ContentsSeq ==
  ASSUME OneEach, RingFacts
  PROVE  /\ Contents \in Seq(Items \cup {NoItem})
         /\ Len(Contents) = Count
         /\ \A i \in 1 .. Count : Contents[i] = pool[(First + i - 1) % Size]
<1>1. pool \in [Slots -> Items \cup {NoItem}] /\ Count \in Nat /\ First \in Nat
  BY CountBounds DEF RingFacts, TypeOK
<1>2. Contents = Run(pool, First, Count)
  BY DEF Contents, Run
<1>3. Contents \in Seq(Items \cup {NoItem}) /\ Len(Contents) = Count
  BY <1>1, <1>2, RunOfSlots
<1> QED BY <1>3 DEF Contents

LEMMA ContentsSeqNext ==
  ASSUME OneEach, RingFacts', Count' \in Nat, First' \in Nat
  PROVE  /\ Contents' \in Seq(Items \cup {NoItem})
         /\ Len(Contents') = Count'
         /\ \A i \in 1 .. Count' : Contents'[i] = pool'[(First' + i - 1) % Size]
<1>1. pool' \in [Slots -> Items \cup {NoItem}]
  BY DEF RingFacts, TypeOK
<1>2. Contents' = Run(pool', First', Count')
  BY DEF Contents, Run
<1>3. Contents' \in Seq(Items \cup {NoItem}) /\ Len(Contents') = Count'
  BY <1>1, <1>2, RunOfSlots
<1> QED BY <1>3 DEF Contents

\* The steps that only move a thread, a counter or an index leave the
\* contents of the ring alone.
LEMMA QuietStep ==
  ASSUME OneEach, RingFacts, RingFacts', pool' = pool, copy' = copy,
         Count' = Count,
         First' = First \/ (First = Size /\ First' = 0)
  PROVE  UNCHANGED <<Contents, copy>>
<1>1. ASSUME NEW i \in 1 .. Count
      PROVE  (First' + i - 1) % Size = (First + i - 1) % Size
  <2>1. CASE First' = First
    BY <2>1
  <2>2. CASE First = Size /\ First' = 0
    <3>1. i - 1 \in Nat /\ i - 1 < Size /\ Size \in Nat
      BY CountBounds, RingAssumption
    <3>2. (0 + i - 1) % Size = i - 1
      BY <3>1, Wrap
    <3>3. (Size + i - 1) % Size = i - 1
      BY <3>1, Wrap
    <3> QED BY <2>2, <3>2, <3>3
  <2> QED BY <2>1, <2>2
<1> QED BY <1>1 DEF Contents

\* A copy into pool[tail] appends to the contents.
LEMMA CopyInPuts ==
  ASSUME OneEach, RingFacts, RingFacts', CopyIn(prod)
  PROVE  \E x \in Items : Fifo!Put(x)
<1>1. PICK x \in Items : pool' = [pool EXCEPT ![tail] = x]
  BY DEF CopyIn
<1>2. /\ stage[prod] = "copy" /\ stage' = [stage EXCEPT ![prod] = "advance"]
      /\ UNCHANGED <<sem, head, tail, copy>>
  BY TwoThreads DEF CopyIn, MoveOn, StageAfter, RingFacts, TypeOK
<1>3. /\ sem["full"] \in Int /\ head \in Nat /\ tail \in Slots
      /\ Size \in Nat /\ pool \in [Slots -> Items \cup {NoItem}]
      /\ stage \in [Threads -> Stages]
  BY RingAssumption DEF RingFacts, TypeOK, Semaphores, Slots
<1>4. First' = First
  BY <1>2, <1>3, CountFirst, CountFirstNext, TwoThreads DEF In
<1>5. Count' = Count + 1
  <2>1. stage'[prod] = "advance" /\ stage'[cons] = stage[cons]
    BY <1>2, <1>3, TwoThreads
  <2> QED BY <2>1, <1>2, <1>3, CountFirst, CountFirstNext DEF In
<1>6. Count \in Nat /\ Count < Size /\ First \in Nat /\ First <= Size
      /\ (First + Count = tail \/ First + Count = tail + Size)
  BY <1>2, CountBounds
<1>7. ASSUME NEW i \in 1 .. Count
      PROVE  (First + i - 1) % Size \in Slots /\ (First + i - 1) % Size # tail
  <2> DEFINE k == First + i - 1
  <2>1. /\ k \in Nat /\ k < 2 * Size
        /\ First <= k /\ k < First + Count
    BY <1>6, <1>3
  <2> HIDE DEF k
  <2>2. k % Size = IF k < Size THEN k ELSE k - Size
    BY <2>1, Wrap
  <2>3. k % Size \in Slots /\ k % Size # tail
    BY <2>1, <2>2, <1>3, <1>6 DEF Slots
  <2> QED BY <2>3 DEF k
<1>8. (First + (Count + 1) - 1) % Size = tail
  <2>1. /\ tail \in Nat /\ tail < Size
        /\ \/ First + (Count + 1) - 1 = tail
           \/ First + (Count + 1) - 1 = tail + Size
    BY <1>3, <1>6 DEF Slots
  <2>2. tail % Size = tail /\ (tail + Size) % Size = tail
    BY <2>1, <1>3, Wrap
  <2> QED BY <2>1, <2>2
<1>9. Contents' = Append(Contents, x)
  <2>1. /\ Contents \in Seq(Items \cup {NoItem}) /\ Len(Contents) = Count
        /\ Contents' \in Seq(Items \cup {NoItem}) /\ Len(Contents') = Count'
    BY <1>4, <1>5, <1>6, ContentsSeq, ContentsSeqNext
  <2>2. ASSUME NEW i \in 1 .. Count' PROVE Contents'[i] = pool'[(First + i - 1) % Size]
    BY <1>4, <1>2 DEF Contents
  <2>3. ASSUME NEW i \in 1 .. Count PROVE Contents'[i] = Contents[i]
    <3> DEFINE k == (First + i - 1) % Size
    <3>1. k \in Slots /\ k # tail
      BY <1>7
    <3>2. i \in 1 .. Count'
      BY <1>5, <1>6
    <3>3. Contents'[i] = pool'[k] /\ Contents[i] = pool[k]
      BY <2>2, <3>2, ContentsSeq
    <3> HIDE DEF k
    <3>4. pool'[k] = pool[k]
      BY <1>1, <1>3, <3>1
    <3> QED BY <3>3, <3>4
  <2>4. Contents'[Count + 1] = x
    BY <2>2, <1>1, <1>3, <1>5, <1>6, <1>8
  <2>5. Append(Contents, x) \in Seq(Items \cup {NoItem})
    BY <2>1
  <2>6. Len(Append(Contents, x)) = Count + 1
    BY <2>1
  <2>7. ASSUME NEW i \in 1 .. Count + 1 PROVE Contents'[i] = Append(Contents, x)[i]
    BY <2>1, <2>3, <2>4, <1>6
  <2> QED BY <2>1, <2>5, <2>6, <2>7, <1>5, <1>6, SeqEqual
<1>10. Len(Contents) < Size
  BY <1>6, ContentsSeq
<1> QED BY <1>2, <1>9, <1>10 DEF Fifo!Put

\* A copy out of pool[head] takes the first of the contents.
LEMMA CopyOutGets ==
  ASSUME OneEach, RingFacts, RingFacts', CopyOut(cons)
  PROVE  Fifo!Get(cons)
<1>1. /\ stage[cons] = "copy" /\ stage' = [stage EXCEPT ![cons] = "advance"]
      /\ UNCHANGED <<sem, pool, head, tail>>
      /\ copy' = [copy EXCEPT ![cons] = pool[head]]
  BY TwoThreads DEF CopyOut, MoveOn, StageAfter, RingFacts, TypeOK
<1>2. /\ sem["full"] \in Int /\ head \in Slots /\ Size \in Nat
      /\ stage \in [Threads -> Stages]
  BY RingAssumption DEF RingFacts, TypeOK, Semaphores, Slots
<1>3. stage'[cons] = "advance" /\ stage'[prod] = stage[prod]
  BY <1>1, <1>2, TwoThreads
<1>4. First = head /\ Count \in Nat /\ Count > 0 /\ Count <= Size
  BY <1>1, CountBounds
<1>5. First' = First + 1 /\ Count' = Count - 1
  BY <1>1, <1>2, <1>3, CountFirst, CountFirstNext DEF In, Slots
<1>6. Contents # <<>> /\ Head(Contents) = pool[head]
  <2>1. (First + 1 - 1) % Size = head
    BY <1>2, <1>4, Wrap DEF Slots
  <2>2. Contents[1] = pool[head]
    BY <2>1, <1>4, ContentsSeq
  <2> QED BY <2>2, <1>4, ContentsSeq
<1>7. Contents' = Tail(Contents)
  <2>1. /\ Contents \in Seq(Items \cup {NoItem}) /\ Len(Contents) = Count
        /\ Contents' \in Seq(Items \cup {NoItem}) /\ Len(Contents') = Count'
    BY <1>2, <1>4, <1>5, ContentsSeq, ContentsSeqNext DEF Slots
  <2>2. /\ Tail(Contents) \in Seq(Items \cup {NoItem})
        /\ Len(Tail(Contents)) = Count - 1
        /\ \A i \in 1 .. Count - 1 : Tail(Contents)[i] = Contents[i + 1]
    BY <2>1, <1>6, HeadTailProperties
  <2>3. ASSUME NEW i \in 1 .. Count - 1 PROVE Contents'[i] = Contents[i + 1]
    <3>1. Contents'[i] = pool[(First + 1 + i - 1) % Size]
      BY <1>1, <1>4, <1>5 DEF Contents
    <3>2. i + 1 \in 1 .. Count /\ First + (i + 1) - 1 = First + 1 + i - 1
      BY <1>2, <1>4 DEF Slots
    <3> QED BY <3>1, <3>2, ContentsSeq
  <2> QED BY <2>1, <2>2, <2>3, <1>4, <1>5, SeqEqual
<1> QED BY <1>1, <1>6, <1>7 DEF Fifo!Get

LEMMA FifoInit == ASSUME OneEach, Init PROVE Fifo!Init
<1>1. sem["full"] = 0 /\ stage[prod] = "take" /\ stage[cons] = "take"
  BY TwoThreads DEF Init, Semaphores
<1>2. Count = 0
  BY <1>1, CountFirst DEF In
<1>3. Contents = <<>>
  BY <1>2, RingFactsInit, ContentsSeq
<1> QED BY <1>3 DEF Fifo!Init, Init

\* P and V move packets neither in nor out.
LEMMA SemaphoringQuiet ==
  ASSUME OneEach, RingFacts, RingFacts', NEW t \in Threads, Semaphoring(t)
  PROVE  UNCHANGED <<Contents, copy>>
<1> USE TwoThreads
<1>0. /\ sem \in [Semaphores -> Int] /\ stage \in [Threads -> Stages]
      /\ head \in Nat /\ head < Size /\ Size \in Nat
  BY RingAssumption DEF RingFacts, TypeOK, Slots
<1>1. /\ stage' = [stage EXCEPT ![t] = StageAfter[@]]
      /\ sem' = [sem EXCEPT ![SemOf(t)] = Updated(t, @)]
      /\ stage[t] \in {"take", "lock", "unlock", "give"}
      /\ UNCHANGED <<pool, head, copy>>
  BY DEF Semaphoring
<1>2. In(cons, {"advance"})' = In(cons, {"advance"})
  BY <1>0, <1>1 DEF In, StageAfter
<1>3. Count' = Count
  <2>1. CASE stage[t] \in {"lock", "unlock"}
    <3>1. sem'["full"] = sem["full"]
      BY <1>0, <1>1, <2>1, SemOfThreads DEF Semaphores, RingFacts
    <3>2. /\ In(prod, {"advance", "unlock", "give"})' = In(prod, {"advance", "unlock", "give"})
          /\ In(cons, {"lock", "copy"})' = In(cons, {"lock", "copy"})
      BY <1>0, <1>1, <2>1 DEF In, StageAfter, RingFacts
    <3> QED BY <3>1, <3>2, CountFirst, CountFirstNext
  <2>2. CASE stage[t] \in {"take", "give"} /\ t = prod
    <3>1. sem'["full"] = IF stage[prod] = "give" THEN sem["full"] + 1 ELSE sem["full"]
      BY <1>0, <1>1, <2>2, SemOfThreads DEF Semaphores, RingFacts, Updated, PStages
    <3>2. /\ stage'[prod] = IF stage[prod] = "give" THEN "take" ELSE "lock"
          /\ stage'[cons] = stage[cons]
      BY <1>0, <1>1, <2>2 DEF StageAfter
    <3> QED BY <1>0, <2>2, <3>1, <3>2, CountFirst, CountFirstNext DEF In, Semaphores
  <2>3. CASE stage[t] \in {"take", "give"} /\ t = cons
    <3>1. sem'["full"] = IF stage[cons] = "take" THEN sem["full"] - 1 ELSE sem["full"]
      BY <1>0, <1>1, <2>3, SemOfThreads DEF Semaphores, RingFacts, Updated, PStages
    <3>2. /\ stage'[cons] = IF stage[cons] = "give" THEN "take" ELSE "lock"
          /\ stage'[prod] = stage[prod]
      BY <1>0, <1>1, <2>3 DEF StageAfter
    <3> QED BY <1>0, <2>3, <3>1, <3>2, CountFirst, CountFirstNext DEF In, Semaphores
  <2> QED BY <1>1, <2>1, <2>2, <2>3
<1>4. First' = First
  BY <1>1, <1>2, CountFirst, CountFirstNext
<1> QED BY <1>1, <1>3, <1>4, QuietStep

\* Every step of the ring is one of the queue, or changes nothing of it.
LEMMA FifoStep ==
  ASSUME OneEach, RingFacts, RingFacts', StoreIsUpdate, [Next]_vars
  PROVE  [Fifo!Next]_(Fifo!vars)
<1> SUFFICES Fifo!Next \/ UNCHANGED <<Contents, copy>>
  BY DEF Fifo!vars
<1> USE TwoThreads
<1>0. /\ sem \in [Semaphores -> Int] /\ stage \in [Threads -> Stages]
      /\ head \in Nat /\ head < Size /\ Size \in Nat
  BY RingAssumption DEF RingFacts, TypeOK, Slots
<1>1. ASSUME NEW t \in Threads, Test(t) \/ Load(t) PROVE UNCHANGED <<Contents, copy>>
  BY <1>1 DEF Test, Load, Contents, Count, First, At
<1>2. ASSUME NEW t \in Threads, Update(t) \/ Store(t) PROVE UNCHANGED <<Contents, copy>>
  BY <1>2, IsSemaphoring, SemaphoringQuiet DEF RingFacts
<1>3. ASSUME CopyIn(prod) PROVE Fifo!Next
  BY <1>3, CopyInPuts DEF Fifo!Next
<1>4. ASSUME CopyOut(cons) PROVE Fifo!Next
  BY <1>4, CopyOutGets DEF Fifo!Next
<1>5. ASSUME AdvanceTail(prod) PROVE UNCHANGED <<Contents, copy>>
  <2>1. /\ stage[prod] = "advance" /\ stage' = [stage EXCEPT ![prod] = "unlock"]
        /\ UNCHANGED <<sem, pool, head, copy>>
    BY <1>5 DEF AdvanceTail, MoveOn, StageAfter, RingFacts, TypeOK
  <2>2. Count' = Count /\ First' = First
    BY <1>0, <2>1, CountFirst, CountFirstNext DEF In
  <2> QED BY <2>1, <2>2, QuietStep
<1>6. ASSUME AdvanceHead(cons) PROVE UNCHANGED <<Contents, copy>>
  <2>1. /\ stage[cons] = "advance" /\ stage' = [stage EXCEPT ![cons] = "unlock"]
        /\ UNCHANGED <<sem, pool, tail, copy>>
    BY <1>6 DEF AdvanceHead, MoveOn, StageAfter, RingFacts, TypeOK
  <2>2. stage'[cons] = "unlock" /\ stage'[prod] = stage[prod]
    BY <1>0, <2>1
  <2>3. Count' = Count
    BY <2>1, <2>2, CountFirst, CountFirstNext DEF In
  <2>4. head' = IF head + 1 < Size THEN head + 1 ELSE head + 1 - Size
    BY <1>0, <1>6, Wrap DEF AdvanceHead
  <2>5. First = head + 1 /\ First' = head'
    BY <1>0, <2>1, <2>2, <2>4, CountFirst, CountFirstNext DEF In
  <2>6. First' = First \/ (First = Size /\ First' = 0)
    BY <1>0, <2>4, <2>5
  <2> QED BY <2>1, <2>3, <2>6, QuietStep
<1>7. CASE UNCHANGED vars
  BY <1>7 DEF vars, Contents, Count, First, At
<1> QED
  BY <1>1, <1>2, <1>3, <1>4, <1>5, <1>6, <1>7
  DEF Next, Produce, Consume, SemStep, OneEach

\* With one producer and one consumer the ring, with a P that only polls and
\* a mutex that may be held by both, is a FIFO queue of Size packets.
THEOREM ImplementsFifoSPSC == ASSUME SingleEnded PROVE Spec => ImplementsFifo
<1> USE DEF SingleEnded
<1>1. Init => Fifo!Init
  BY FifoInit
<1>2. RingInv /\ RingInv' /\ [Next]_vars => [Fifo!Next]_(Fifo!vars)
  BY FifoStep DEF RingInv, PhaseInv, StoreIsUpdate
<1> QED BY <1>1, <1>2, RingInvariant, PTL DEF Spec, ImplementsFifo, Fifo!Spec

(***************************************************************************)
(* A ring of one slot, whatever the compiler makes of the updates: empty   *)
(* and full let one thread at a time into its five stages, and so it is    *)
(* alone with every int it touches there.                                  *)
(***************************************************************************)
OneSlot == OneEach /\ Size = 1

\* Who is between P(&mutex) and V(&mutex) has it, and whoever is about to
\* write an int has it as it is.
TurnsInv ==
  /\ \A t \in Threads : phase[t] = "test" => stage[t] \in PStages
  /\ StoreIsUpdate
  /\ sem["mutex"] = 1 - In(prod, {"copy", "advance", "unlock"})
                      - In(cons, {"copy", "advance", "unlock"})

SlotInv == RingFacts /\ TurnsInv

\* When one thread is behind its P, the other one is still polling.
LEMMA Turns ==
  ASSUME OneSlot, SlotInv
  PROVE  /\ stage[prod] = "take" \/ stage[cons] = "take"
         /\ stage[prod] # "take" => phase[cons] = "test"
         /\ stage[cons] # "take" => phase[prod] = "test"
         /\ phase[prod] # "test" => phase[cons] = "test"
<1>1. /\ sem["empty"] \in Int /\ sem["full"] \in Int
      /\ stage[prod] \in Stages /\ stage[cons] \in Stages
  BY TwoThreads DEF OneSlot, SlotInv, RingFacts, TypeOK, Semaphores
<1> QED
  BY <1>1, TwoThreads
  DEF OneSlot, SlotInv, RingFacts, PollStillTrue, SlotsCounted, In, Stages, TurnsInv

LEMMA SlotInvStep ==
  ASSUME OneSlot, SlotInv, [Next]_vars, TypeOK'
  PROVE  SlotInv'
<1> USE TwoThreads, Turns DEF OneSlot
<1>0. /\ sem \in [Semaphores -> Int] /\ stage \in [Threads -> Stages]
      /\ phase \in [Threads -> Phases] /\ reg \in [Threads -> Int]
      /\ TypeOK
  BY DEF SlotInv, RingFacts, TypeOK
<1>1. RingFacts'
  BY RingFactsStep DEF SlotInv, TurnsInv
<1>2. ASSUME NEW t \in Threads, Test(t) PROVE TurnsInv'
  <2>1. /\ phase[t] = "test" /\ phase' = [phase EXCEPT ![t] = "update"]
        /\ UNCHANGED <<sem, stage, reg>>
    BY <1>2 DEF Test
  <2>2. StoreIsUpdate'
    BY <1>0, <2>1 DEF SlotInv, TurnsInv, StoreIsUpdate, SemOf
  <2> QED
    BY <1>0, <2>1, <2>2 DEF SlotInv, TurnsInv, In
<1>3. ASSUME NEW t \in Threads, Load(t) PROVE TurnsInv'
  <2>1. /\ phase[t] = "update" /\ phase' = [phase EXCEPT ![t] = "store"]
        /\ stage[t] \in {"take", "lock", "unlock", "give"}
        /\ reg' = [reg EXCEPT ![t] = sem[SemOf(t)]]
        /\ UNCHANGED <<sem, stage>>
    BY <1>3 DEF Load
  <2>2. StoreIsUpdate'
    BY <1>0, <2>1 DEF SlotInv, TurnsInv, StoreIsUpdate, SemOf
  <2> QED
    BY <1>0, <2>1, <2>2 DEF SlotInv, TurnsInv, In
\* The others are at a test: nobody holds a value loaded before.
<1>4. ASSUME NEW t \in Threads, Semaphoring(t) PROVE TurnsInv'
  <2>1. /\ stage' = [stage EXCEPT ![t] = StageAfter[@]]
        /\ phase' = [phase EXCEPT ![t] = EntryPhase(StageAfter[stage[t]])]
        /\ sem' = [sem EXCEPT ![SemOf(t)] = Updated(t, @)]
        /\ stage[t] \in {"take", "lock", "unlock", "give"}
        /\ phase[t] # "test"
    BY <1>4 DEF Semaphoring
  <2>2. \A u \in Threads \ {t} : phase[u] = "test"
    BY <2>1
  <2>3. \A u \in Threads : phase'[u] # "store"
    BY <1>0, <2>1, <2>2 DEF EntryPhase
  <2>4. StoreIsUpdate'
    BY <2>3 DEF StoreIsUpdate
  <2>5. \A u \in Threads : phase'[u] = "test" => stage'[u] \in PStages
    BY <1>0, <2>1 DEF SlotInv, TurnsInv, EntryPhase, StageAfter, Stages
  <2>6. CASE stage[t] \in {"take", "give"}
    <3>1. stage'[t] \in {"lock", "take"} /\ sem'["mutex"] = sem["mutex"]
      BY <1>0, <2>1, <2>6, SemOfThreads DEF StageAfter, Semaphores
    <3> QED
      BY <1>0, <2>1, <2>4, <2>5, <2>6, <3>1 DEF SlotInv, TurnsInv, In
  <2>7. CASE stage[t] = "lock"
    <3>1. stage'[t] = "copy" /\ sem'["mutex"] = sem["mutex"] - 1
      BY <1>0, <2>1, <2>7, SemOfThreads DEF StageAfter, Semaphores, Updated, PStages
    <3> QED
      BY <1>0, <2>1, <2>4, <2>5, <2>7, <3>1 DEF SlotInv, TurnsInv, In, Semaphores
  <2>8. CASE stage[t] = "unlock"
    <3>1. stage'[t] = "give" /\ sem'["mutex"] = sem["mutex"] + 1
      BY <1>0, <2>1, <2>8, SemOfThreads DEF StageAfter, Semaphores, Updated, PStages
    <3> QED
      BY <1>0, <2>1, <2>4, <2>5, <2>8, <3>1 DEF SlotInv, TurnsInv, In, Semaphores
  <2> QED BY <2>1, <2>6, <2>7, <2>8
<1>5. ASSUME NEW t \in Threads, stage[t] \in {"copy", "advance"}, MoveOn(t),
             UNCHANGED <<sem, reg>>
      PROVE  TurnsInv'
  <2>1. /\ stage'[t] \in {"advance", "unlock"} /\ phase'[t] = "update"
        /\ \A u \in Threads \ {t} : stage'[u] = stage[u] /\ phase'[u] = phase[u]
    BY <1>0, <1>5 DEF MoveOn, StageAfter, EntryPhase, PStages
  <2>2. StoreIsUpdate'
    <3>1. \A u \in Threads \ {t} : phase'[u] # "store"
      BY <1>5, <2>1
    <3> QED
      BY <2>1, <3>1 DEF StoreIsUpdate
  <2> QED
    BY <1>0, <1>5, <2>1, <2>2 DEF SlotInv, TurnsInv, In
<1>6. ASSUME UNCHANGED vars PROVE TurnsInv'
  <2>1. StoreIsUpdate'
    BY <1>6 DEF SlotInv, TurnsInv, StoreIsUpdate, SemOf, vars
  <2> QED
    BY <1>6, <2>1 DEF SlotInv, TurnsInv, In, PStages, vars
<1>7. TurnsInv'
  <2>1. ASSUME NEW t \in Threads, SemStep(t) PROVE TurnsInv'
    <3>1. StoreIsUpdate
      BY DEF SlotInv, TurnsInv
    <3> QED
      BY <1>0, <1>2, <1>3, <1>4, <2>1, <3>1, IsSemaphoring DEF SemStep
  <2>2. ASSUME NEW p \in Producers, CopyIn(p) \/ AdvanceTail(p) PROVE TurnsInv'
    BY <1>5, <2>2 DEF CopyIn, AdvanceTail, Threads
  <2>3. ASSUME NEW c \in Consumers, CopyOut(c) \/ AdvanceHead(c) PROVE TurnsInv'
    BY <1>5, <2>3 DEF CopyOut, AdvanceHead, Threads
  <2> QED
    BY <1>6, <2>1, <2>2, <2>3 DEF Next, Produce, Consume, OneEach
<1> QED BY <1>1, <1>7 DEF SlotInv

LEMMA SlotInvariant == ASSUME OneSlot PROVE Spec => []SlotInv
<1>1. Init => SlotInv
  <2> SUFFICES ASSUME Init PROVE SlotInv
    OBVIOUS
  <2>1. RingFacts
    BY RingFactsInit DEF OneSlot
  <2>2. TurnsInv
    BY TwoThreads DEF OneSlot, Init, TurnsInv, StoreIsUpdate, In, Semaphores, PStages
  <2> QED BY <2>1, <2>2 DEF SlotInv
<1>2. TypeOK' /\ SlotInv /\ [Next]_vars => SlotInv'
  BY SlotInvStep
<1> QED BY <1>1, <1>2, TypeCorrect, PTL DEF Spec

\* In a ring of one slot the two threads exclude each other as README.md
\* promises: not through the mutex, but because empty and full never let the
\* second of them past its first P, even with updates of two accesses.
THEOREM SectionExclusiveOneSlot == ASSUME OneSlot PROVE Spec => []SectionExclusive
<1>1. SlotInv => SectionExclusive
  <2> SUFFICES ASSUME SlotInv PROVE SectionExclusive
    OBVIOUS
  <2> DEFINE S == {"copy", "advance", "unlock"}
  <2>1. \E t \in Threads : At(Threads, S) \subseteq {t}
    BY Turns, TwoThreads DEF OneSlot, At
  <2>2. At(Threads, S) = {} \/ \E t \in Threads : At(Threads, S) = {t}
    BY <2>1
  <2> QED BY <2>2, FS_EmptySet, FS_Singleton DEF SectionExclusive
<1> QED BY <1>1, SlotInvariant, PTL

\* A ring of one slot never loses an update of its counters, although a load
\* and a store make it up: they keep to 0 and 1.
THEOREM CountersBoundedOneSlot == ASSUME OneSlot PROVE Spec => []CountersBounded
<1>1. SlotInv => CountersBounded
  BY FactsBoundCounters DEF OneSlot, SlotInv
<1> QED BY <1>1, SlotInvariant, PTL

\* A ring of one slot is a FIFO queue of one packet, with whole and with split
\* updates.
THEOREM ImplementsFifoOneSlot == ASSUME OneSlot PROVE Spec => ImplementsFifo
<1>1. Init => Fifo!Init
  BY FifoInit DEF OneSlot
<1>2. SlotInv /\ SlotInv' /\ [Next]_vars => [Fifo!Next]_(Fifo!vars)
  BY FifoStep DEF OneSlot, SlotInv, TurnsInv
<1> QED BY <1>1, <1>2, SlotInvariant, PTL DEF Spec, ImplementsFifo, Fifo!Spec
==============================================================================
