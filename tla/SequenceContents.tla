-------------------------- MODULE SequenceContents --------------------------
(***************************************************************************)
(* Lemmas about what a sequence holds, in which order and how often, for   *)
(* every set of elements: the rings, buffers and links of the models are   *)
(* sequences, and their invariants say what is in them, how much of it and *)
(* what comes before what.  What goes by induction is proved from the      *)
(* first place where it fails.                                             *)
(***************************************************************************)
EXTENDS Integers, Sequences, FiniteSets, SequenceTheorems, FiniteSetTheorems,
        WellFoundedInduction, TLAPS

\* The elements of a sequence.
In(s) == {s[i] : i \in DOMAIN s}

LEMMA InAppend ==
  ASSUME NEW S, NEW s \in Seq(S), NEW e \in S
  PROVE  /\ Append(s, e) \in Seq(S)
         /\ In(Append(s, e)) = In(s) \cup {e}
  <1>1. /\ Append(s, e) \in Seq(S)
        /\ Len(s) \in Nat /\ Len(Append(s, e)) = Len(s) + 1
        /\ DOMAIN s = 1 .. Len(s) /\ DOMAIN Append(s, e) = 1 .. Len(s) + 1
        /\ \A i \in 1 .. Len(s) : Append(s, e)[i] = s[i]
        /\ Append(s, e)[Len(s) + 1] = e
    BY AppendProperties, LenProperties
  <1> DEFINE t == Append(s, e)
             n == Len(s)
  <1>2. /\ n \in Nat /\ DOMAIN s = 1 .. n /\ DOMAIN t = 1 .. n + 1
        /\ \A i \in 1 .. n : t[i] = s[i]
        /\ t[n + 1] = e
    BY <1>1
  <1> HIDE DEF t, n
  <1>3. In(t) = In(s) \cup {e}
    BY <1>2 DEF In
  <1> QED
    BY <1>1, <1>3 DEF t

LEMMA InTail ==
  ASSUME NEW S, NEW s \in Seq(S), s # <<>>
  PROVE  /\ Tail(s) \in Seq(S) /\ Head(s) \in S
         /\ Head(s) \in In(s)
         /\ In(Tail(s)) \subseteq In(s)
  <1>1. /\ Tail(s) \in Seq(S) /\ Head(s) \in S
        /\ Len(s) \in Nat /\ Len(s) >= 1 /\ Head(s) = s[1]
        /\ Len(Tail(s)) = Len(s) - 1
        /\ DOMAIN s = 1 .. Len(s) /\ DOMAIN Tail(s) = 1 .. Len(s) - 1
        /\ \A i \in 1 .. Len(s) - 1 : Tail(s)[i] = s[i + 1]
    BY HeadTailProperties, LenProperties, EmptySeq
  <1> DEFINE t == Tail(s)
             n == Len(s)
  <1>2. /\ n \in Nat /\ n >= 1 /\ DOMAIN s = 1 .. n /\ DOMAIN t = 1 .. n - 1
        /\ \A i \in 1 .. n - 1 : t[i] = s[i + 1]
    BY <1>1
  <1> HIDE DEF t, n
  <1>3. In(t) \subseteq In(s)
    <2> SUFFICES ASSUME NEW i \in 1 .. n - 1 PROVE t[i] \in In(s)
      BY <1>2 DEF In
    <2>1. i + 1 \in 1 .. n /\ t[i] = s[i + 1]
      BY <1>2
    <2> QED
      BY <2>1, <1>2 DEF In
  <1>4. s[1] \in In(s)
    BY <1>2 DEF In
  <1> QED
    BY <1>1, <1>3, <1>4 DEF t

LEMMA InConcat ==
  ASSUME NEW S, NEW s \in Seq(S), NEW t \in Seq(S)
  PROVE  /\ s \o t \in Seq(S)
         /\ In(s \o t) \subseteq In(s) \cup In(t)
  <1>1. /\ s \o t \in Seq(S)
        /\ Len(s) \in Nat /\ Len(t) \in Nat
        /\ DOMAIN s = 1 .. Len(s) /\ DOMAIN t = 1 .. Len(t)
        /\ DOMAIN (s \o t) = 1 .. Len(s) + Len(t)
        /\ \A i \in 1 .. Len(s) + Len(t) :
             (s \o t)[i] = IF i <= Len(s) THEN s[i] ELSE t[i - Len(s)]
    BY ConcatProperties, LenProperties
  <1> DEFINE u == s \o t
             m == Len(s)
             n == Len(t)
  <1>2. /\ m \in Nat /\ n \in Nat
        /\ DOMAIN s = 1 .. m /\ DOMAIN t = 1 .. n /\ DOMAIN u = 1 .. m + n
        /\ \A i \in 1 .. m + n : u[i] = IF i <= m THEN s[i] ELSE t[i - m]
    BY <1>1
  <1> HIDE DEF u, m, n
  <1>3. In(u) \subseteq In(s) \cup In(t)
    <2> SUFFICES ASSUME NEW i \in 1 .. m + n PROVE u[i] \in In(s) \cup In(t)
      BY <1>2 DEF In
    <2>1. CASE i <= m
      BY <2>1, <1>2 DEF In
    <2>2. CASE ~ (i <= m)
      <3>1. i - m \in 1 .. n /\ u[i] = t[i - m]
        BY <2>2, <1>2
      <3> QED
        BY <3>1, <1>2 DEF In
    <2> QED
      BY <2>1, <2>2
  <1> QED
    BY <1>1, <1>3 DEF u

\* A sequence whose elements are all in a smaller set.
LEMMA SeqOfWhatIsIn ==
  ASSUME NEW S, NEW T, NEW s \in Seq(S), In(s) \subseteq T
  PROVE  s \in Seq(T)
  <1>1. Len(s) \in Nat /\ s \in [1 .. Len(s) -> S] /\ DOMAIN s = 1 .. Len(s)
    BY LenProperties
  <1>2. s \in [1 .. Len(s) -> T]
    BY <1>1 DEF In
  <1> QED
    BY <1>1, <1>2, SeqDef

LEMMA InOne == \A x : In(<<x>>) = {x}
  BY DEF In

LEMMA EmptyIn == In(<<>>) = {}
  BY DEF In

\* Every element comes before every later one in the order R, a set of pairs.
Ordered(R, s) == \A i, j \in DOMAIN s : i < j => <<s[i], s[j]>> \in R

LEMMA OrderedEmpty == \A R : Ordered(R, <<>>)
  BY DEF Ordered

LEMMA OrderedAppend ==
  ASSUME NEW S, NEW R, NEW s \in Seq(S), NEW e \in S,
         Ordered(R, s), \A x \in In(s) : <<x, e>> \in R
  PROVE  Ordered(R, Append(s, e))
  <1>1. /\ Len(s) \in Nat /\ Len(Append(s, e)) = Len(s) + 1
        /\ DOMAIN s = 1 .. Len(s) /\ DOMAIN Append(s, e) = 1 .. Len(s) + 1
        /\ \A i \in 1 .. Len(s) : Append(s, e)[i] = s[i]
        /\ Append(s, e)[Len(s) + 1] = e
    BY AppendProperties, LenProperties
  <1> DEFINE t == Append(s, e)
             n == Len(s)
  <1>2. /\ n \in Nat /\ DOMAIN s = 1 .. n /\ DOMAIN t = 1 .. n + 1
        /\ \A i \in 1 .. n : t[i] = s[i]
        /\ t[n + 1] = e
    BY <1>1
  <1> HIDE DEF t, n
  <1>3. Ordered(R, t)
    <2> SUFFICES ASSUME NEW i \in 1 .. n + 1, NEW j \in 1 .. n + 1, i < j
                 PROVE  <<t[i], t[j]>> \in R
      BY <1>2 DEF Ordered
    <2>1. i \in 1 .. n /\ t[i] = s[i] /\ s[i] \in In(s)
      BY <1>2 DEF In
    <2>2. CASE j \in 1 .. n
      BY <1>2, <2>1, <2>2 DEF Ordered
    <2>3. CASE j = n + 1
      BY <1>2, <2>1, <2>3
    <2> QED
      BY <1>2, <2>2, <2>3
  <1> QED
    BY <1>3 DEF t

LEMMA OrderedTail ==
  ASSUME NEW S, NEW R, NEW s \in Seq(S), s # <<>>, Ordered(R, s)
  PROVE  /\ Ordered(R, Tail(s))
         /\ \A y \in In(Tail(s)) : <<Head(s), y>> \in R
  <1>1. /\ Len(s) \in Nat /\ Len(s) >= 1 /\ Head(s) = s[1]
        /\ DOMAIN s = 1 .. Len(s) /\ DOMAIN Tail(s) = 1 .. Len(s) - 1
        /\ \A i \in 1 .. Len(s) - 1 : Tail(s)[i] = s[i + 1]
    BY HeadTailProperties, LenProperties, EmptySeq
  <1> DEFINE t == Tail(s)
             n == Len(s)
  <1>2. /\ n \in Nat /\ n >= 1 /\ DOMAIN s = 1 .. n /\ DOMAIN t = 1 .. n - 1
        /\ \A i \in 1 .. n - 1 : t[i] = s[i + 1]
    BY <1>1
  <1> HIDE DEF t, n
  <1>3. Ordered(R, t)
    <2> SUFFICES ASSUME NEW i \in 1 .. n - 1, NEW j \in 1 .. n - 1, i < j
                 PROVE  <<t[i], t[j]>> \in R
      BY <1>2 DEF Ordered
    <2>1. /\ i + 1 \in 1 .. n /\ j + 1 \in 1 .. n /\ i + 1 < j + 1
          /\ t[i] = s[i + 1] /\ t[j] = s[j + 1]
      BY <1>2
    <2> QED
      BY <1>2, <2>1 DEF Ordered
  <1>4. \A y \in In(t) : <<s[1], y>> \in R
    <2> SUFFICES ASSUME NEW i \in 1 .. n - 1 PROVE <<s[1], t[i]>> \in R
      BY <1>2 DEF In
    <2>1. 1 \in 1 .. n /\ i + 1 \in 1 .. n /\ 1 < i + 1 /\ t[i] = s[i + 1]
      BY <1>2
    <2> QED
      BY <1>2, <2>1 DEF Ordered
  <1> QED
    BY <1>1, <1>3, <1>4 DEF t

\* The last element of a sequence that grew by one.
LEMMA AppendLast ==
  ASSUME NEW S, NEW s \in Seq(S), NEW e \in S
  PROVE  /\ Append(s, e) # <<>>
         /\ Append(s, e)[Len(Append(s, e))] = e
  BY AppendProperties, LenProperties

\* Moving the head of one sequence to the end of another leaves their
\* concatenation what it was.
LEMMA MoveHead ==
  ASSUME NEW S, NEW s \in Seq(S), NEW t \in Seq(S), t # <<>>
  PROVE  Append(s, Head(t)) \o Tail(t) = s \o t
  OBVIOUS

\* What is put behind the second sequence is put behind both.
LEMMA AppendBoth ==
  ASSUME NEW S, NEW s \in Seq(S), NEW t \in Seq(S), NEW e \in S
  PROVE  s \o Append(t, e) = Append(s \o t, e)
  OBVIOUS

\* A set of numbers that is not empty has a least one.
LEMMA Least ==
  ASSUME NEW S \in SUBSET Nat, S # {}
  PROVE  \E i \in S : \A j \in S : i <= j
  <1>1. PICK i \in S : \A j \in S : ~ (<<j, i>> \in OpToRel(<, Nat))
    BY NatLessThanWellFounded, WFMin, Zenon
  <1>2. \A j \in S : ~ (j < i)
    BY <1>1 DEF OpToRel
  <1> QED
    BY <1>2

(***************************************************************************)
(* How many elements of a sequence are of one kind.                        *)
(***************************************************************************)
Where(P, s) == {i \in DOMAIN s : s[i] \in P}
Count(P, s) == Cardinality(Where(P, s))
One(P, e) == IF e \in P THEN 1 ELSE 0

LEMMA CountType ==
  ASSUME NEW S, NEW s \in Seq(S), NEW P
  PROVE  IsFiniteSet(Where(P, s)) /\ Count(P, s) \in Nat
  <1>1. Len(s) \in Nat /\ DOMAIN s = 1 .. Len(s)
    BY LenProperties
  <1>2. IsFiniteSet(1 .. Len(s))
    BY <1>1, FS_Interval
  <1>3. Where(P, s) \in SUBSET (1 .. Len(s))
    BY <1>1 DEF Where
  <1>4. IsFiniteSet(Where(P, s))
    BY <1>2, <1>3, FS_Subset
  <1> QED
    BY <1>4, FS_CardinalityType DEF Count

LEMMA CountEmpty == \A P : Count(P, <<>>) = 0
  <1> TAKE P
  <1>1. Where(P, <<>>) = {}
    BY DEF Where
  <1> QED
    BY <1>1, FS_EmptySet DEF Count

LEMMA CountAppend ==
  ASSUME NEW S, NEW s \in Seq(S), NEW e \in S, NEW P
  PROVE  Count(P, Append(s, e)) = Count(P, s) + One(P, e)
  <1> DEFINE t == Append(s, e)
             n == Len(s)
  <1>1. /\ n \in Nat /\ DOMAIN s = 1 .. n /\ DOMAIN t = 1 .. n + 1
        /\ \A i \in 1 .. n : t[i] = s[i]
        /\ t[n + 1] = e
    BY AppendProperties, LenProperties
  <1> HIDE DEF t, n
  <1>2. Where(P, t) = Where(P, s) \cup (IF e \in P THEN {n + 1} ELSE {})
    <2>1. \A i \in 1 .. n + 1 : i \in 1 .. n \/ i = n + 1
      BY <1>1
    <2>2. Where(P, t) \subseteq Where(P, s) \cup (IF e \in P THEN {n + 1} ELSE {})
      BY <1>1, <2>1 DEF Where
    <2>3. Where(P, s) \cup (IF e \in P THEN {n + 1} ELSE {}) \subseteq Where(P, t)
      BY <1>1 DEF Where
    <2> QED
      BY <2>2, <2>3
  <1>3. IsFiniteSet(Where(P, s)) /\ Count(P, s) \in Nat
    BY CountType
  <1>4. n + 1 \notin Where(P, s)
    BY <1>1 DEF Where
  <1>5. CASE e \in P
    <2>1. Cardinality(Where(P, s) \cup {n + 1}) = Cardinality(Where(P, s)) + 1
      BY <1>3, <1>4, FS_AddElement
    <2> QED
      BY <1>2, <1>5, <2>1 DEF Count, One, t
  <1>6. CASE e \notin P
    BY <1>2, <1>3, <1>6 DEF Count, One, t
  <1> QED
    BY <1>5, <1>6

LEMMA CountTail ==
  ASSUME NEW S, NEW s \in Seq(S), s # <<>>, NEW P
  PROVE  Count(P, s) = Count(P, Tail(s)) + One(P, Head(s))
  <1> DEFINE t == Tail(s)
             n == Len(s)
             A == Where(P, s)
             B == Where(P, t)
             f == [i \in B |-> i + 1]
  <1>1. /\ n \in Nat /\ n >= 1 /\ DOMAIN s = 1 .. n /\ DOMAIN t = 1 .. n - 1
        /\ \A i \in 1 .. n - 1 : t[i] = s[i + 1]
        /\ Head(s) = s[1] /\ t \in Seq(S)
    BY HeadTailProperties, LenProperties, EmptySeq
  <1>2. IsFiniteSet(A) /\ IsFiniteSet(B) /\ Cardinality(A) \in Nat /\ Cardinality(B) \in Nat
    BY <1>1, CountType DEF Count
  <1> HIDE DEF t, n
  <1>3. /\ \A i \in B : i \in Nat /\ i + 1 \in A \ {1}
        /\ \A j \in A \ {1} : j - 1 \in B /\ j - 1 + 1 = j
    <2>1. \A i \in 1 .. n - 1 : i + 1 \in 1 .. n /\ i + 1 # 1
      BY <1>1
    <2>2. \A j \in 1 .. n : j # 1 => j - 1 \in 1 .. n - 1 /\ j - 1 + 1 = j
      BY <1>1
    <2>3. \A i \in B : i \in Nat /\ i + 1 \in A \ {1}
      BY <1>1, <2>1 DEF Where
    <2>4. \A j \in A \ {1} : j - 1 \in B /\ j - 1 + 1 = j
      BY <1>1, <2>2 DEF Where
    <2> QED
      BY <2>3, <2>4
  <1> HIDE DEF A, B
  <1>4. ExistsBijection(B, A \ {1})
    <2>1. f \in [B -> A \ {1}]
      BY <1>3
    <2>2. f \in Injection(B, A \ {1})
      BY <1>3, <2>1 DEF Injection, IsInjective
    <2>3. f \in Surjection(B, A \ {1})
      BY <1>3, <2>1 DEF Surjection
    <2> QED
      BY <2>2, <2>3 DEF ExistsBijection, Bijection
  <1>5. Cardinality(A \ {1}) = Cardinality(B)
    BY <1>2, <1>4, FS_Bijection
  <1>6. Cardinality(A \ {1}) = IF 1 \in A THEN Cardinality(A) - 1 ELSE Cardinality(A)
    BY <1>2, FS_RemoveElement
  <1>7. 1 \in A <=> Head(s) \in P
    BY <1>1 DEF A, Where
  <1>8. Cardinality(A) = Cardinality(B) + One(P, Head(s))
    BY <1>2, <1>5, <1>6, <1>7 DEF One
  <1> QED
    BY <1>8 DEF Count, A, B, t

\* What is put behind a sequence and is of another kind.
LEMMA CountConcat ==
  ASSUME NEW S, NEW s \in Seq(S), NEW w \in Seq(S), NEW P, In(w) \cap P = {}
  PROVE  Count(P, s \o w) = Count(P, s)
  <1> DEFINE u == s \o w
             m == Len(s)
             n == Len(w)
  <1>1. /\ m \in Nat /\ n \in Nat
        /\ DOMAIN s = 1 .. m /\ DOMAIN w = 1 .. n /\ DOMAIN u = 1 .. m + n
        /\ \A i \in 1 .. m + n : u[i] = IF i <= m THEN s[i] ELSE w[i - m]
    BY ConcatProperties, LenProperties
  <1> HIDE DEF u, m, n
  <1>2. \A i \in 1 .. m + n : i <= m => i \in 1 .. m /\ u[i] = s[i]
    BY <1>1
  <1>3. \A i \in 1 .. m + n : ~ (i <= m) => i - m \in 1 .. n /\ u[i] = w[i - m]
    BY <1>1
  <1>4. \A i \in 1 .. m + n : ~ (i <= m) => u[i] \notin P
    BY <1>1, <1>3 DEF In
  <1>5. \A i \in 1 .. m : i \in 1 .. m + n /\ i <= m
    BY <1>1
  <1>6. Where(P, u) = Where(P, s)
    BY <1>1, <1>2, <1>4, <1>5 DEF Where
  <1> QED
    BY <1>6 DEF Count, u
==============================================================================
