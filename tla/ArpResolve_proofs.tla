--------------------------- MODULE ArpResolve_proofs ---------------------------
(***************************************************************************)
(* Theorems about ArpResolve, for every network, table, number of nodes,   *)
(* edits, rounds and fragments: the list of the table stays a list, frames *)
(* have the MAC asked for, which datagrams may share an id, and the table  *)
(* implements the map of ArpMap.                                           *)
(***************************************************************************)
EXTENDS ArpResolve, SequenceContents, FiniteSetTheorems, TLAPS

(***************************************************************************)
(* The walk along the list.                                                *)
(***************************************************************************)
\* f is what a function makes of a first value, step by step.
Runs(f, next, first, m) == f[0] = first /\ \A k \in 1 .. m : f[k] = next[f[k - 1]]

LEMMA Steps ==
  ASSUME NEW D, NEW next \in [D -> D], NEW first \in D, NEW m \in Nat
  PROVE  \E f \in [0 .. m -> D] : Runs(f, next, first, m)
  <1> DEFINE Fits(n, f) == Runs(f, next, first, n)
             Stuck == {n \in Nat : ~ \E f \in [0 .. n -> D] : Fits(n, f)}
  <1>1. Stuck = {}
    <2> SUFFICES ASSUME Stuck # {} PROVE FALSE
      OBVIOUS
    <2>1. PICK n \in Stuck : \A j \in Stuck : n <= j
      BY Least
    <2>a. n \in Nat /\ ~ \E f \in [0 .. n -> D] : Fits(n, f)
      BY <2>1
    <2>2. n # 0
      <3> SUFFICES ASSUME n = 0 PROVE FALSE
        OBVIOUS
      <3> DEFINE f == [k \in 0 .. 0 |-> first]
      <3>1. f \in [0 .. n -> D]
        OBVIOUS
      <3>2. Fits(n, f)
        BY DEF Runs
      <3> HIDE DEF f
      <3> QED
        BY <2>a, <3>1, <3>2
    <2>3. n - 1 \in Nat /\ n - 1 \notin Stuck
      BY <2>1, <2>2
    <2>4. PICK f \in [0 .. n - 1 -> D] : Fits(n - 1, f)
      BY <2>3
    <2>b. f[0] = first /\ \A k \in 1 .. n - 1 : f[k] = next[f[k - 1]]
      BY <2>4 DEF Runs
    <2> DEFINE g == [k \in 0 .. n |-> IF k = n THEN next[f[n - 1]] ELSE f[k]]
    <2>5. g \in [0 .. n -> D]
      BY <2>3, <2>4
    <2>6. g[0] = first
      BY <2>2, <2>3, <2>b
    <2>7. ASSUME NEW k \in 1 .. n PROVE g[k] = next[g[k - 1]]
      <3>1. g[k - 1] = f[k - 1]
        BY <2>3
      <3>2. CASE k = n
        BY <3>1, <3>2
      <3>3. CASE k # n
        <4>1. k \in 1 .. n - 1 /\ g[k] = f[k]
          BY <2>3, <3>3
        <4> QED
          BY <3>1, <4>1, <2>b
      <3> QED
        BY <3>2, <3>3
    <2>8. Fits(n, g)
      BY <2>6, <2>7 DEF Runs
    <2> QED
      BY <2>a, <2>5, <2>8
  <1> QED
    BY <1>1

\* The walk along the list starts at its first node and goes on to the next.
LEMMA WalkIs ==
  ASSUME TableTypeOK
  PROVE  /\ Walk[0] = First
         /\ \A k \in 1 .. MaxNodes :
              Walk[k] = IF Walk[k - 1] = Null THEN Null ELSE node[Walk[k - 1]].next
         /\ \A k \in 0 .. MaxNodes : Walk[k] \in {Null} \cup Nodes
  <1> DEFINE D == {Null} \cup Nodes
             next == [n \in D |-> IF n = Null THEN Null ELSE node[n].next]
             Is(at) == at = [k \in 0 .. MaxNodes |-> IF k = 0 THEN First ELSE next[at[k - 1]]]
  <1>1. MaxNodes \in Nat /\ MaxNodes # 0 /\ First \in D
    BY TableAssumption DEF First, Nodes
  <1>2. next \in [D -> D]
    BY DEF TableTypeOK
  <1>3. Walk = CHOOSE at : Is(at)
    BY DEF Walk
  <1> HIDE DEF next, D
  <1>4. PICK f \in [0 .. MaxNodes -> D] : Runs(f, next, First, MaxNodes)
    BY <1>1, <1>2, Steps
  <1>5. Is(f)
    BY <1>1, <1>4 DEF Runs
  <1>6. Is(Walk)
    BY <1>3, <1>5
  <1> DEFINE w == Walk
  <1> HIDE DEF w
  <1>7. Is(w)
    BY <1>6 DEF w
  <1>8. w[0] = First /\ \A k \in 1 .. MaxNodes : w[k] = next[w[k - 1]]
    BY <1>1, <1>7
  <1>9. \A k \in 0 .. MaxNodes : w[k] \in D
    <2> DEFINE Out == {k \in 0 .. MaxNodes : w[k] \notin D}
    <2> SUFFICES ASSUME Out # {} PROVE FALSE
      OBVIOUS
    <2>a. Out \in SUBSET Nat
      OBVIOUS
    <2>1. PICK k \in Out : \A j \in Out : k <= j
      BY <2>a, Least
    <2>2. k # 0
      BY <1>1, <1>8, <2>1
    <2>3. k - 1 \in 0 .. MaxNodes /\ k - 1 \notin Out /\ k \in 1 .. MaxNodes
      BY <1>1, <2>1, <2>2
    <2> QED
      BY <1>2, <1>8, <2>1, <2>3
  <1>10. \A k \in 1 .. MaxNodes : w[k - 1] \in D
    BY <1>1, <1>9
  <1> QED
    BY <1>8, <1>9, <1>10 DEF w, next, D

(***************************************************************************)
(* The list.                                                               *)
(***************************************************************************)
\* A node that malloc has given and that is not linked yet.
Unlinked(t) == insertion[t].at \in {"check", "link"}

\* Nodes that are not free lead to such nodes, no two to the same one, and
\* none to the first node or to one that is yet to be linked.
ListInv ==
  /\ First \in allocated /\ node[First].ip = Target
  /\ \A n \in allocated : node[n].next \in (allocated \ {First}) \cup {Null}
  /\ \A m, n \in allocated : node[m].next = node[n].next /\ m # n => node[m].next = Null
  /\ \A t \in Threads : insertion[t].at # "none" => insertion[t].node \in Nodes
  /\ \A t \in Threads : Unlinked(t) =>
       /\ insertion[t].node \in allocated \ {First}
       /\ \A n \in allocated : node[n].next # insertion[t].node
       /\ \A u \in Threads \ {t} : Unlinked(u) => insertion[u].node # insertion[t].node

TableInv == TableTypeOK /\ ListInv

\* The walk meets no freed node, and goes from node to successor.
LEMMA ListHasWalk ==
  ASSUME TableInv
  PROVE  \A k \in 0 .. MaxNodes :
           /\ Walk[k] \in allocated \cup {Null}
           /\ k > 0 /\ Walk[k] # Null =>
                Walk[k - 1] \in allocated /\ Walk[k] = node[Walk[k - 1]].next
  <1> DEFINE w == Walk
  <1>1. /\ w[0] = First
        /\ \A k \in 1 .. MaxNodes :
             w[k] = IF w[k - 1] = Null THEN Null ELSE node[w[k - 1]].next
    BY WalkIs DEF TableInv
  <1>2. MaxNodes \in Nat
    BY TableAssumption
  <1>3. /\ First \in allocated
        /\ \A n \in allocated : node[n].next \in allocated \cup {Null}
    BY DEF TableInv, ListInv
  <1> HIDE DEF w
  <1> DEFINE Out == {k \in 0 .. MaxNodes : w[k] \notin allocated \cup {Null}}
  <1>4. Out = {}
    <2> SUFFICES ASSUME Out # {} PROVE FALSE
      OBVIOUS
    <2>1. Out \in SUBSET Nat
      OBVIOUS
    <2>2. PICK k \in Out : \A j \in Out : k <= j
      BY <2>1, Least
    <2>3. k # 0
      BY <1>1, <1>3, <2>2
    <2>4. k - 1 \in 0 .. MaxNodes /\ k - 1 \notin Out /\ k \in 1 .. MaxNodes
      BY <1>2, <2>2, <2>3
    <2> QED
      BY <1>1, <1>3, <2>2, <2>4
  <1>5. \A k \in 0 .. MaxNodes : w[k] \in allocated \cup {Null}
    BY <1>4
  <1>6. ASSUME NEW k \in 1 .. MaxNodes, w[k] # Null
        PROVE  w[k - 1] \in allocated /\ w[k] = node[w[k - 1]].next
    <2>1. k - 1 \in 0 .. MaxNodes
      BY <1>2
    <2> QED
      BY <1>1, <1>5, <1>6, <2>1
  <1> QED
    BY <1>2, <1>5, <1>6 DEF w

\* The places of a walk.
Places == 0 .. MaxNodes

\* The walk goes on to its end, and meets no node twice.
LEMMA WalkOnce ==
  ASSUME TableInv
  PROVE  /\ \A i, j \in Places : i <= j /\ Walk[j] # Null => Walk[i] # Null
         /\ \A i, j \in Places : i < j /\ Walk[j] # Null => Walk[i] # Walk[j]
  <1> DEFINE w == Walk
  <1>1. /\ w[0] = First
        /\ \A k \in 1 .. MaxNodes :
             w[k] = IF w[k - 1] = Null THEN Null ELSE node[w[k - 1]].next
    BY WalkIs DEF TableInv
  <1>2. \A k \in 0 .. MaxNodes :
           /\ w[k] \in allocated \cup {Null}
           /\ k > 0 /\ w[k] # Null => w[k - 1] \in allocated /\ w[k] = node[w[k - 1]].next
    BY ListHasWalk
  <1>3. MaxNodes \in Nat
    BY TableAssumption
  <1>4. /\ \A n \in allocated : node[n].next \in (allocated \ {First}) \cup {Null}
        /\ \A m, n \in allocated : node[m].next = node[n].next /\ m # n => node[m].next = Null
        /\ allocated \subseteq 1 .. MaxNodes /\ Null \notin allocated
    BY DEF TableInv, ListInv, TableTypeOK, Nodes, Null
  <1> HIDE DEF w
  \* Behind Null there is nothing.
  <1>5. ASSUME NEW i \in Places, NEW j \in Places, i <= j, w[j] # Null
        PROVE  w[i] # Null
    <2> DEFINE Out == {n \in 0 .. j - i : w[j - n] = Null}
    <2> SUFFICES ASSUME w[i] = Null PROVE FALSE
      OBVIOUS
    <2>1. Out \in SUBSET Nat
      OBVIOUS
    <2>2. j - i \in Out
      <3>1. j - i \in 0 .. j - i /\ j - (j - i) = i
        BY <1>5 DEF Places
      <3> QED
        BY <3>1
    <2>3. PICK n \in Out : \A m \in Out : n <= m
      BY <2>1, <2>2, Least
    <2>4. n # 0
      BY <1>5, <2>3 DEF Places
    <2>5. n - 1 \in 0 .. j - i /\ n - 1 \notin Out /\ j - (n - 1) \in 1 .. MaxNodes
          /\ (j - (n - 1)) - 1 = j - n
      BY <1>3, <2>3, <2>4 DEF Places
    <2>6. w[j - (n - 1)] # Null /\ w[j - n] = Null
      BY <2>3, <2>5
    <2> QED
      BY <1>1, <2>5, <2>6
  \* The first node that it meets again is another one's successor twice.
  <1> DEFINE Again == {i \in Places : \E j \in Places : i < j /\ w[j] # Null /\ w[i] = w[j]}
  <1>6. Again = {}
    <2> SUFFICES ASSUME Again # {} PROVE FALSE
      OBVIOUS
    <2>1. Again \in SUBSET Nat
      BY DEF Places
    <2>2. PICK i \in Again : \A j \in Again : i <= j
      BY <2>1, Least
    <2>3. PICK j \in Places : i < j /\ w[j] # Null /\ w[i] = w[j]
      BY <2>2
    <2>4. j > 0 /\ j - 1 \in Places
          /\ w[j - 1] \in allocated /\ w[j] = node[w[j - 1]].next
      BY <1>2, <1>3, <2>2, <2>3 DEF Places
    <2>5. i # 0
      BY <1>1, <1>4, <2>3, <2>4
    <2>6. i > 0 /\ i - 1 \in Places
          /\ w[i - 1] \in allocated /\ w[i] = node[w[i - 1]].next
      BY <1>2, <1>3, <2>2, <2>3, <2>5 DEF Places
    <2>7. w[i - 1] = w[j - 1] /\ w[j - 1] # Null
      BY <1>4, <2>3, <2>4, <2>6
    <2>8. i - 1 \in Again
      BY <2>3, <2>4, <2>6, <2>7 DEF Places
    <2> QED
      BY <2>2, <2>6, <2>8 DEF Places
  <1>7. \A i, j \in Places : i < j /\ w[j] # Null => w[i] # w[j]
    BY <1>6
  <1> QED
    BY <1>5, <1>7 DEF w

\* The walk ends: there are MaxNodes nodes for it to meet.
LEMMA WalkEnds ==
  ASSUME TableInv
  PROVE  Walk[MaxNodes] = Null
  <1> SUFFICES ASSUME Walk[MaxNodes] # Null PROVE FALSE
    OBVIOUS
  <1> DEFINE w == Walk
  <1>1. /\ \A i, j \in Places : i <= j /\ w[j] # Null => w[i] # Null
        /\ \A i, j \in Places : i < j /\ w[j] # Null => w[i] # w[j]
    BY WalkOnce
  <1>2. \A k \in Places : w[k] \in allocated \cup {Null}
    BY ListHasWalk DEF Places
  <1>3. MaxNodes \in Nat
    BY TableAssumption
  <1>4. allocated \subseteq 1 .. MaxNodes
    BY DEF TableInv, TableTypeOK, Nodes
  <1> HIDE DEF w
  <1>5. \A k \in Places : w[k] # Null
    BY <1>1, <1>3 DEF Places, w
  <1>6. \A i, j \in Places : i # j => w[i] # w[j]
    <2> SUFFICES ASSUME NEW i \in Places, NEW j \in Places, i # j PROVE w[i] # w[j]
      OBVIOUS
    <2>1. i < j \/ j < i
      BY DEF Places
    <2> QED
      BY <1>1, <1>5, <2>1
  <1>7. [k \in 0 .. MaxNodes |-> w[k]] \in [0 .. MaxNodes -> 1 .. MaxNodes]
    BY <1>2, <1>4, <1>5 DEF Places
  <1>8. /\ IsFiniteSet(0 .. MaxNodes) /\ Cardinality(0 .. MaxNodes) = MaxNodes + 1
        /\ IsFiniteSet(1 .. MaxNodes) /\ Cardinality(1 .. MaxNodes) = MaxNodes
    BY <1>3, FS_Interval
  <1>9. PICK i, j \in 0 .. MaxNodes : i # j /\ w[i] = w[j]
    <2> DEFINE f == [k \in 0 .. MaxNodes |-> w[k]]
               S == 0 .. MaxNodes
               T == 1 .. MaxNodes
    <2>1. /\ f \in [S -> T] /\ IsFiniteSet(S) /\ IsFiniteSet(T)
          /\ Cardinality(T) < Cardinality(S)
      BY <1>3, <1>7, <1>8
    <2>2. \A k \in S : f[k] = w[k]
      OBVIOUS
    <2> HIDE DEF f, S, T
    <2>3. \E i, j \in S : i # j /\ f[i] = f[j]
      BY <2>1, FS_PigeonHole
    <2> QED
      BY <2>2, <2>3 DEF S
  <1> QED
    BY <1>6, <1>9 DEF Places

LEMMA TableInvGives == TableInv => ListSound
  BY ListHasWalk, WalkEnds DEF ListSound, TableInv, ListInv

\* A first place at which the walk meets what is looked for.
LEMMA EarliestIs ==
  ASSUME NEW S, S \subseteq 0 .. MaxNodes, S # {}
  PROVE  Earliest(S) \in S /\ \A j \in S : Earliest(S) <= j
  <1>1. S \in SUBSET Nat
    BY TableAssumption
  <1>2. \E i \in S : \A j \in S : i <= j
    BY <1>1, Least
  <1> QED
    BY <1>2 DEF Earliest

\* is_existed_ip gives the MAC of some node of the list with that address.
LEMMA LookupIs ==
  ASSUME TableInv, NEW ip
  PROVE  \/ Lookup(ip) = NoMac
         \/ \E n \in allocated : node[n].ip = ip /\ Lookup(ip) = node[n].mac
  <1> DEFINE S == {k \in 0 .. MaxNodes : Holds(Walk[k], ip)}
  <1>1. CASE S = {}
    BY <1>1 DEF Lookup
  <1>2. CASE S # {}
    <2>1. Earliest(S) \in S
      BY <1>2, EarliestIs
    <2>2. Place(Walk, ip) = Earliest(S)
      BY DEF Place
    <2>3. Lookup(ip) = node[Walk[Earliest(S)]].mac
      BY <1>2, <2>2 DEF Lookup
    <2>4. Holds(Walk[Earliest(S)], ip) /\ Earliest(S) \in 0 .. MaxNodes
      BY <2>1
    <2> HIDE DEF S
    <2> QED
      BY <2>3, <2>4, ListHasWalk DEF Holds
  <1> QED
    BY <1>1, <1>2

LEMMA InitTable == TableInit => TableInv
  <1> SUFFICES ASSUME TableInit PROVE TableInv
    OBVIOUS
  <1>1. First \in Nodes /\ First # Null
    BY TableAssumption DEF First, Nodes, Null
  <1>2. TableTypeOK
    <2>1. loose \in BOOLEAN
      BY DEF TableInit
    <2>2. edits \in 0 .. MaxEdits
      BY TableAssumption DEF TableInit
    <2> QED
      BY <1>1, <2>1, <2>2, TableAssumption DEF TableInit, TableTypeOK, Macs, NoInsertion
  <1>3. ListInv
    BY <1>1 DEF TableInit, ListInv, Unlinked, NoInsertion
  <1> QED
    BY <1>2, <1>3 DEF TableInv

\* A new node is nobody's successor, whoever had it before.
LEMMA LearnTable ==
  ASSUME TableInv, NEW t \in Threads, NEW ip \in Ips, Learn(t, ip)
  PROVE  TableInv'
  <1>1. CASE UNCHANGED <<node, allocated, insertion>>
    BY <1>1 DEF Learn, TableInv, TableTypeOK, ListInv, Unlinked
  <1>2. CASE \E n \in Malloc :
              /\ node' = [node EXCEPT ![n] = [ip |-> ip, mac |-> ip, next |-> Null]]
              /\ allocated' = allocated \cup {n}
              /\ insertion' = [insertion EXCEPT ![t] = [at |-> "check", node |-> n]]
    <2>1. PICK n \in Nodes \ allocated :
              /\ node' = [node EXCEPT ![n] = [ip |-> ip, mac |-> ip, next |-> Null]]
              /\ allocated' = allocated \cup {n}
              /\ insertion' = [insertion EXCEPT ![t] = [at |-> "check", node |-> n]]
      BY <1>2 DEF Malloc
    <2>2. insertion[t].at = "none" /\ UNCHANGED <<tail, edits, loose>>
      BY DEF Learn, NoInsertion
    <2>3. TableTypeOK'
      BY <2>1, <2>2 DEF TableInv, TableTypeOK, Macs
    <2>4. /\ \A m \in allocated : m # n /\ node'[m] = node[m]
          /\ node'[n].next = Null
          /\ \A u \in Threads \ {t} : insertion'[u] = insertion[u]
          /\ insertion'[t].at = "check" /\ insertion'[t].node = n
      BY <2>1 DEF TableInv, TableTypeOK
    <2>5. /\ (First \in allocated /\ node[First].ip = Target)'
          /\ (\A m \in allocated : node[m].next \in (allocated \ {First}) \cup {Null})'
          /\ (\A m, k \in allocated :
                node[m].next = node[k].next /\ m # k => node[m].next = Null)'
      BY <2>1, <2>4 DEF TableInv, ListInv
    <2>6. (\A u \in Threads : insertion[u].at # "none" => insertion[u].node \in Nodes)'
      BY <2>1, <2>4 DEF TableInv, ListInv
    <2>7. n \notin {First, Null}
      BY <2>1 DEF TableInv, ListInv, Nodes, Null
    <2>8. \A m \in allocated : node[m].next # n
      BY <2>1, <2>7 DEF TableInv, ListInv
    <2>9. (\A u \in Threads : Unlinked(u) =>
             /\ insertion[u].node \in allocated \ {First}
             /\ \A m \in allocated : node[m].next # insertion[u].node
             /\ \A v \in Threads \ {u} : Unlinked(v) => insertion[v].node # insertion[u].node)'
      <3>1. ASSUME NEW u \in Threads, u # t, Unlinked(u)
            PROVE  /\ insertion[u].node \in allocated \ {First}
                   /\ \A m \in allocated : node[m].next # insertion[u].node
                   /\ \A v \in Threads \ {u} :
                        Unlinked(v) => insertion[v].node # insertion[u].node
        BY <3>1 DEF TableInv, ListInv
      <3>2. \A u \in Threads \ {t} : Unlinked(u)' <=> Unlinked(u)
        BY <2>4 DEF Unlinked
      <3>3. Null \notin Nodes
        BY DEF Nodes, Null
      <3>4. ASSUME NEW u \in Threads, u # t, Unlinked(u)'
            PROVE  /\ insertion'[u].node \in allocated' \ {First}
                   /\ \A m \in allocated' : node'[m].next # insertion'[u].node
                   /\ \A v \in Threads \ {u} :
                        Unlinked(v)' => insertion'[v].node # insertion'[u].node
        BY <2>1, <2>4, <3>1, <3>2, <3>3, <3>4 DEF TableInv, TableTypeOK
      <3>5. /\ insertion'[t].node \in allocated' \ {First}
            /\ \A m \in allocated' : node'[m].next # insertion'[t].node
            /\ \A v \in Threads \ {t} :
                 Unlinked(v)' => insertion'[v].node # insertion'[t].node
        BY <2>1, <2>4, <2>7, <2>8, <3>1, <3>2
      <3> QED
        BY <3>4, <3>5
    <2> QED
      BY <2>3, <2>5, <2>6, <2>9 DEF TableInv, ListInv
  <1> QED
    BY <1>1, <1>2 DEF Learn

LEMMA CheckTable ==
  ASSUME TableInv, NEW t \in Threads, InsertCheck(t)
  PROVE  TableInv'
  <1>1. /\ insertion[t].at = "check"
        /\ UNCHANGED <<node, allocated, tail, edits, loose>>
        /\ \/ insertion' = [insertion EXCEPT ![t] = [@ EXCEPT !.at = "link"]]
           \/ insertion' = [insertion EXCEPT ![t] = NoInsertion]
    BY DEF InsertCheck
  <1>2. /\ \A u \in Threads \ {t} : insertion'[u] = insertion[u]
        /\ Unlinked(t) /\ (Unlinked(t)' => insertion'[t].node = insertion[t].node)
        /\ insertion'[t].at # "none" => insertion'[t].node = insertion[t].node
        /\ insertion' \in [Threads -> [at : {"none", "check", "link", "tail"},
                                       node : Nodes \cup {Null}]]
    BY <1>1 DEF TableInv, TableTypeOK, Unlinked, NoInsertion
  <1>3. \A u \in Threads :
           Unlinked(u)' => Unlinked(u) /\ insertion'[u].node = insertion[u].node
    BY <1>2 DEF Unlinked
  <1>4. \A u \in Threads : insertion'[u].at # "none" =>
           insertion[u].at # "none" /\ insertion'[u].node = insertion[u].node
    BY <1>1, <1>2
  <1>5. TableTypeOK'
    BY <1>1, <1>2 DEF TableInv, TableTypeOK
  <1>6. ListInv'
    BY <1>1, <1>3, <1>4 DEF TableInv, ListInv
  <1> QED
    BY <1>5, <1>6 DEF TableInv

LEMMA LinkTable ==
  ASSUME TableInv, NEW t \in Threads, InsertLink(t)
  PROVE  TableInv'
  <1> DEFINE n == insertion[t].node
  <1>1. /\ insertion[t].at = "link"
        /\ node' = [node EXCEPT ![tail].next = n]
        /\ insertion' = [insertion EXCEPT ![t].at = "tail"]
        /\ UNCHANGED <<allocated, tail, edits, loose>>
    BY DEF InsertLink
  <1>2. /\ n \in allocated \ {First} /\ n \in Nodes
        /\ \A m \in allocated : node[m].next # n
        /\ \A u \in Threads \ {t} : Unlinked(u) => insertion[u].node # n
    BY <1>1 DEF TableInv, ListInv, Unlinked
  <1>3. /\ node'[tail].next = n /\ node'[tail].ip = node[tail].ip
        /\ \A m \in Nodes \ {tail} : node'[m] = node[m]
        /\ \A u \in Threads \ {t} : insertion'[u] = insertion[u]
        /\ insertion'[t].at = "tail" /\ insertion'[t].node = n
    BY <1>1 DEF TableInv, TableTypeOK
  <1>4. TableTypeOK'
    BY <1>1, <1>2 DEF TableInv, TableTypeOK
  <1>5. allocated \subseteq Nodes /\ tail \in Nodes /\ First \in Nodes
    BY DEF TableInv, TableTypeOK, ListInv
  <1>6. \A u \in Threads : Unlinked(u)' =>
           u # t /\ Unlinked(u) /\ insertion'[u].node = insertion[u].node
    BY <1>3 DEF Unlinked
  <1> HIDE DEF n
  <1>7. /\ (First \in allocated /\ node[First].ip = Target)'
        /\ (\A m \in allocated : node[m].next \in (allocated \ {First}) \cup {Null})'
        /\ (\A m, k \in allocated :
              node[m].next = node[k].next /\ m # k => node[m].next = Null)'
    <2>1. \A m \in allocated : node'[m].next = IF m = tail THEN n ELSE node[m].next
      BY <1>3, <1>5
    <2>2. /\ First \in allocated /\ node[First].ip = Target
          /\ \A m \in allocated : node[m].next \in (allocated \ {First}) \cup {Null}
          /\ \A m, k \in allocated :
                node[m].next = node[k].next /\ m # k => node[m].next = Null
      BY DEF TableInv, ListInv
    <2>3. node'[First].ip = node[First].ip
      BY <1>3, <1>5
    <2> QED
      BY <1>1, <1>2, <2>1, <2>2, <2>3
  <1>8. (\A u \in Threads : insertion[u].at # "none" => insertion[u].node \in Nodes)'
    BY <1>1, <1>2, <1>3 DEF TableInv, ListInv
  <1>9. (\A u \in Threads : Unlinked(u) =>
           /\ insertion[u].node \in allocated \ {First}
           /\ \A m \in allocated : node[m].next # insertion[u].node
           /\ \A v \in Threads \ {u} : Unlinked(v) => insertion[v].node # insertion[u].node)'
    <2>1. \A m \in allocated : node'[m].next = IF m = tail THEN n ELSE node[m].next
      BY <1>3, <1>5
    <2>2. \A u \in Threads : Unlinked(u) =>
           /\ insertion[u].node \in allocated \ {First}
           /\ \A m \in allocated : node[m].next # insertion[u].node
           /\ \A v \in Threads \ {u} : Unlinked(v) => insertion[v].node # insertion[u].node
      BY DEF TableInv, ListInv
    <2> QED
      BY <1>1, <1>2, <1>6, <2>1, <2>2
  <1> QED
    BY <1>4, <1>7, <1>8, <1>9 DEF TableInv, ListInv

LEMMA TailTable ==
  ASSUME TableInv, NEW t \in Threads, InsertTail(t)
  PROVE  TableInv'
  <1>1. /\ insertion[t].at = "tail" /\ tail' = insertion[t].node
        /\ insertion' = [insertion EXCEPT ![t] = NoInsertion]
        /\ UNCHANGED <<node, allocated, edits, loose>>
    BY DEF InsertTail
  <1>2. /\ \A u \in Threads \ {t} : insertion'[u] = insertion[u]
        /\ insertion'[t].at = "none"
        /\ insertion' \in [Threads -> [at : {"none", "check", "link", "tail"},
                                       node : Nodes \cup {Null}]]
    BY <1>1 DEF TableInv, TableTypeOK, NoInsertion
  <1>3. tail' \in Nodes
    BY <1>1 DEF TableInv, ListInv
  <1>4. TableTypeOK'
    BY <1>1, <1>2, <1>3 DEF TableInv, TableTypeOK
  <1>5. \A u \in Threads :
           Unlinked(u)' => Unlinked(u) /\ insertion'[u].node = insertion[u].node
    BY <1>2 DEF Unlinked
  <1>6. \A u \in Threads : insertion'[u].at # "none" =>
           insertion[u].at # "none" /\ insertion'[u].node = insertion[u].node
    BY <1>2
  <1>7. ListInv'
    BY <1>1, <1>5, <1>6 DEF TableInv, ListInv
  <1> QED
    BY <1>4, <1>7 DEF TableInv

\* The node that is freed was the successor of the one before it alone.
LEMMA DeleteTable ==
  ASSUME TableInv, NEW t \in Threads, NEW ip, NEW mac, Delete(t, ip, mac)
  PROVE  TableInv'
  <1> DEFINE places == {k \in 1 .. MaxNodes : Holds(Walk[k], ip) /\ node[Walk[k]].mac = mac}
             k == Earliest(places)
             n == Walk[k]
             before == Walk[k - 1]
  <1>1. /\ places # {} /\ edits < MaxEdits
        /\ node' = [node EXCEPT ![before].next = node[n].next]
        /\ allocated' = allocated \ {n}
        /\ edits' = edits + 1 /\ UNCHANGED <<tail, insertion>>
        /\ loose' = (loose \/ \E u \in Threads : insertion[u].at = "tail")
    BY DEF Delete
  <1>2. k \in places
    BY <1>1, EarliestIs
  <1>3. k \in 1 .. MaxNodes /\ n # Null
    BY <1>2 DEF Holds
  <1>4. n \in allocated /\ before \in allocated /\ n = node[before].next
    BY <1>3, ListHasWalk
  <1> HIDE DEF k, n, before, places
  <1>5. /\ First \in allocated /\ node[First].ip = Target
        /\ \A m \in allocated : node[m].next \in (allocated \ {First}) \cup {Null}
        /\ \A m, j \in allocated :
              node[m].next = node[j].next /\ m # j => node[m].next = Null
        /\ \A u \in Threads : insertion[u].at # "none" => insertion[u].node \in Nodes
        /\ \A u \in Threads : Unlinked(u) =>
             /\ insertion[u].node \in allocated \ {First}
             /\ \A m \in allocated : node[m].next # insertion[u].node
             /\ \A v \in Threads \ {u} : Unlinked(v) => insertion[v].node # insertion[u].node
    BY DEF TableInv, ListInv
  <1>6. /\ allocated \subseteq Nodes
        /\ node \in [Nodes -> [ip : Ips, mac : Macs, next : Nodes \cup {Null}]]
        /\ edits \in 0 .. MaxEdits
    BY DEF TableInv, TableTypeOK
  <1>7. \A m \in allocated : /\ node'[m].next = IF m = before THEN node[n].next ELSE node[m].next
                             /\ node'[m].ip = node[m].ip
    BY <1>1, <1>4, <1>6
  <1>8. n # First
    BY <1>3, <1>4, <1>5
  <1>9. TableTypeOK'
    <2>1. node' \in [Nodes -> [ip : Ips, mac : Macs, next : Nodes \cup {Null}]]
      BY <1>1, <1>4, <1>6
    <2>2. edits' \in 0 .. MaxEdits
      BY <1>1, <1>6, TableAssumption
    <2> QED
      BY <1>1, <1>6, <2>1, <2>2 DEF TableInv, TableTypeOK
  <1>10. (First \in allocated /\ node[First].ip = Target)'
    BY <1>1, <1>5, <1>7, <1>8
  <1>11. \A m \in allocated \ {n} : node'[m].next \in (allocated \ {First, n}) \cup {Null}
    <2> SUFFICES ASSUME NEW m \in allocated \ {n}
                 PROVE  node'[m].next \in (allocated \ {First, n}) \cup {Null}
      OBVIOUS
    <2>1. CASE m = before
      <3>1. before # n
        BY <2>1
      <3> QED
        BY <1>3, <1>4, <1>5, <1>7, <2>1, <3>1
    <2>2. CASE m # before
      BY <1>3, <1>4, <1>5, <1>7, <2>2
    <2> QED
      BY <2>1, <2>2
  <1>12. \A m, j \in allocated \ {n} :
            node'[m].next = node'[j].next /\ m # j => node'[m].next = Null
    BY <1>4, <1>5, <1>7
  <1>13. \A u \in Threads : Unlinked(u)' =>
           /\ insertion'[u].node \in allocated' \ {First}
           /\ \A m \in allocated' : node'[m].next # insertion'[u].node
           /\ \A v \in Threads \ {u} : Unlinked(v)' => insertion'[v].node # insertion'[u].node
    <2>1. \A u \in Threads : Unlinked(u)' <=> Unlinked(u)
      BY <1>1 DEF Unlinked
    <2> QED
      BY <1>1, <1>4, <1>5, <1>7, <2>1
  <1> QED
    BY <1>1, <1>5, <1>9, <1>10, <1>11, <1>12, <1>13 DEF TableInv, ListInv

LEMMA UpdateTable ==
  ASSUME TableInv, NEW t \in Threads, NEW ip, NEW mac \in Macs, Update(t, ip, mac)
  PROVE  TableInv'
  <1> DEFINE n == Walk[Place(Walk, ip)]
  <1>1. /\ edits < MaxEdits /\ edits' = edits + 1
        /\ node' = [node EXCEPT ![n].mac = mac]
        /\ UNCHANGED <<allocated, tail, insertion, loose>>
    BY DEF Update
  <1> HIDE DEF n
  <1>2. TableTypeOK'
    <2>1. node' \in [Nodes -> [ip : Ips, mac : Macs, next : Nodes \cup {Null}]]
      BY <1>1 DEF TableInv, TableTypeOK
    <2>2. edits' \in 0 .. MaxEdits
      BY <1>1, TableAssumption DEF TableInv, TableTypeOK
    <2> QED
      BY <1>1, <2>1, <2>2 DEF TableInv, TableTypeOK
  <1>3. \A m \in Nodes : node'[m].next = node[m].next /\ node'[m].ip = node[m].ip
    BY <1>1 DEF TableInv, TableTypeOK
  <1>4. allocated \subseteq Nodes /\ First \in Nodes
    BY DEF TableInv, TableTypeOK, ListInv
  <1>5. \A u \in Threads : Unlinked(u)' <=> Unlinked(u)
    BY <1>1 DEF Unlinked
  <1>6. ListInv'
    BY <1>1, <1>3, <1>4, <1>5 DEF TableInv, ListInv
  <1> QED
    BY <1>2, <1>6 DEF TableInv

LEMMA TableKept ==
  ASSUME TableInv, UNCHANGED table
  PROVE  TableInv'
  BY DEF TableInv, TableTypeOK, ListInv, Unlinked, table

LEMMA StepTable ==
  ASSUME TableInv, TableStep
  PROVE  TableInv'
  BY CheckTable, LinkTable, TailTable, DeleteTable, UpdateTable DEF TableStep, Insertion

(***************************************************************************)
(* The sender.                                                             *)
(***************************************************************************)
Packets == [op : {"request", "reply"}, ip : Ips]
FrameRecords == [dgram : Nat, hop : Ips, mac : Macs \cup {Garbage}, id : Nat]

MainRecords ==
  [at : {"idle", "fragment", "poll", "put"}, dgram : 0 .. MaxDatagrams,
   dst : Destinations \cup {Target}, frag : 0 .. Fragments, rounds : 0 .. Rounds,
   mac : Macs \cup {NoMac}, captured : BOOLEAN, stale : BOOLEAN]

Types ==
  /\ main \in MainRecords
  /\ main.at # "idle" => main.dst \in Destinations /\ main.frag \in 1 .. Pieces(main.dst)
  /\ main.at = "put" => main.mac # NoMac
  /\ air \in Seq(Packets) /\ asked \subseteq Ips
  /\ id \in Nat /\ id <= main.dgram /\ (main.at # "idle" => id < main.dgram)
  /\ frames \in Seq(FrameRecords)

\* Until an entry is changed every node has the MAC of its address, and main
\* has the MAC it asked for or that of a reply it read meanwhile.
Unedited ==
  /\ \A n \in Nodes : node[n].mac = node[n].ip
  /\ main.at = "poll" => main.captured
  /\ main.at \in {"poll", "put"} /\ main.mac # NoMac =>
       main.mac = NextHop(main.dst) \/ (main.captured /\ main.mac \in strays)

MacInv == TableInv /\ Types /\ (edits = 0 => Unedited) /\ RightMac

LEMMA Bounds ==
  /\ Fragments \in Nat /\ Fragments >= 1 /\ Rounds \in Nat /\ MaxDatagrams \in Nat
  /\ 0 \in 0 .. MaxDatagrams /\ 0 \in 0 .. Fragments /\ 0 \in 0 .. Rounds
  BY ResolveAssumption

LEMMA InitMac == Init => MacInv
  <1> SUFFICES ASSUME Init PROVE MacInv
    OBVIOUS
  <1>1. TableInv
    BY InitTable DEF Init
  <1>2. main \in MainRecords /\ main.at = "idle" /\ main.dgram = 0
    BY Bounds DEF Init, Idle, MainRecords
  <1>3. Types
    BY <1>2, ResolveAssumption DEF Init, Types
  <1>4. Unedited
    BY <1>2 DEF Init, TableInit, Unedited
  <1>5. RightMac
    BY DEF Init, RightMac
  <1> QED
    BY <1>1, <1>3, <1>4, <1>5 DEF MacInv

\* A datagram goes to a host of the network or to the gateway.
LEMMA HopType ==
  ASSUME NEW dst \in Destinations \cup {Target}
  PROVE  NextHop(dst) \in Ips
  BY ResolveAssumption, TableAssumption DEF NextHop

LEMMA PiecesType == \A dst : Pieces(dst) \in 1 .. Fragments
  BY ResolveAssumption DEF Pieces

LEMMA Threading == Main \in Threads /\ Handout \in Threads
  BY ResolveAssumption

\* A step of main that puts no frame and changes no address it holds.
LEMMA MainMoves ==
  ASSUME MacInv, TableInv', main' \in MainRecords,
         main'.at # "idle" => main'.dst \in Destinations /\ main'.frag \in 1 .. Pieces(main'.dst),
         main'.at = "put" => main'.mac # NoMac,
         air' \in Seq(Packets), asked' \subseteq Ips,
         id' = id, id <= main'.dgram, main'.at # "idle" => id < main'.dgram,
         frames' = frames, strays \subseteq strays', edits' \in Nat, edits <= edits',
         edits' = 0 => Unedited'
  PROVE  MacInv'
  <1>1. Types'
    BY DEF MacInv, Types
  <1>2. edits \in Nat
    BY TableAssumption DEF MacInv, TableInv, TableTypeOK
  <1>3. RightMac'
    BY <1>2 DEF MacInv, RightMac
  <1> QED
    BY <1>1, <1>3 DEF MacInv

LEMMA MacFacts ==
  ASSUME MacInv
  PROVE  /\ TableInv /\ main \in MainRecords /\ air \in Seq(Packets) /\ asked \subseteq Ips
         /\ main.at # "idle" => main.dst \in Destinations /\ main.frag \in 1 .. Pieces(main.dst)
         /\ main.at = "put" => main.mac # NoMac
         /\ id \in Nat /\ main.dgram \in 0 .. MaxDatagrams
         /\ id <= main.dgram /\ (main.at # "idle" => id < main.dgram)
         /\ edits \in Nat /\ edits <= edits /\ (edits = 0 => Unedited)
         /\ NextHop(main.dst) \in Ips
  <1>1. main \in MainRecords /\ main.dst \in Destinations \cup {Target}
    BY DEF MacInv, Types, MainRecords
  <1>2. NextHop(main.dst) \in Ips
    BY <1>1, HopType
  <1>3. edits \in Nat
    BY TableAssumption DEF MacInv, TableInv, TableTypeOK
  <1> QED
    BY <1>1, <1>2, <1>3 DEF MacInv, Types, MainRecords

LEMMA SendDatagramMac ==
  ASSUME MacInv, NEW dst \in Destinations, SendDatagram(dst)
  PROVE  MacInv'
  <1> DEFINE next == [main EXCEPT !.at = "fragment", !.dgram = @ + 1, !.dst = dst, !.frag = 1]
  <1>1. /\ main.at = "idle" /\ main.dgram < MaxDatagrams /\ main' = next
        /\ UNCHANGED <<table, air, asked, id, frames, strays>>
    BY DEF SendDatagram
  <1>2. 1 \in 0 .. Fragments /\ main.dgram + 1 \in 0 .. MaxDatagrams
    BY <1>1, Bounds, MacFacts
  <1>3. /\ next \in MainRecords /\ next.at = "fragment" /\ next.dgram = main.dgram + 1
        /\ next.dst = dst /\ next.frag = 1
    BY <1>2, MacFacts DEF MainRecords
  <1> HIDE DEF next
  <1>4. 1 \in 1 .. Pieces(dst) /\ id <= main.dgram + 1 /\ id < main.dgram + 1
    BY PiecesType, MacFacts, Bounds
  <1>5. TableInv'
    BY <1>1, MacFacts, TableKept
  <1>6. edits' = edits /\ node' = node
    BY <1>1 DEF table
  <1>7. edits' = 0 => Unedited'
    BY <1>1, <1>3, <1>6, MacFacts DEF Unedited
  <1> QED
    BY <1>1, <1>3, <1>4, <1>5, <1>6, <1>7, MacFacts, MainMoves

\* main changes fields, and neither the datagram nor its place in it.
LEMMA SameDatagram ==
  ASSUME MacInv, TableInv', main' \in MainRecords,
         main.at # "idle", main'.at # "idle",
         main'.dst = main.dst, main'.frag = main.frag, main'.dgram = main.dgram,
         main'.at = "put" => main'.mac # NoMac,
         air' \in Seq(Packets), asked' \subseteq Ips,
         id' = id, frames' = frames, strays \subseteq strays', edits' = edits,
         edits = 0 => Unedited'
  PROVE  MacInv'
  BY MacFacts, MainMoves

LEMMA FindMacMac ==
  ASSUME MacInv, FindMac
  PROVE  MacInv'
  <1> DEFINE hop == NextHop(main.dst)
             mac == Lookup(hop)
             put == [main EXCEPT !.at = "put", !.mac = mac, !.captured = FALSE]
             poll == [main EXCEPT !.at = "poll", !.mac = NoMac, !.rounds = 0,
                                  !.captured = TRUE, !.stale = FALSE]
  <1>1. /\ main.at = "fragment" /\ UNCHANGED <<table, air, id, frames, strays>>
        /\ \/ mac # NoMac /\ main' = put /\ UNCHANGED asked
           \/ main' = poll /\ asked' = asked \cup {hop}
    BY DEF FindMac
  <1>2. TableInv' /\ edits' = edits /\ node' = node
    BY <1>1, MacFacts, TableKept DEF table
  <1>3. \/ mac = NoMac
        \/ \E n \in allocated : node[n].ip = hop /\ mac = node[n].mac
    BY MacFacts, LookupIs
  <1> HIDE DEF mac, hop
  <1>4. mac \in Macs \cup {NoMac}
    BY <1>3, MacFacts DEF TableInv, TableTypeOK
  <1>5. CASE mac # NoMac /\ main' = put /\ UNCHANGED asked
    <2>1. /\ put \in MainRecords /\ put.at = "put" /\ put.mac = mac /\ put.dst = main.dst
          /\ put.frag = main.frag /\ put.dgram = main.dgram
      BY <1>4, MacFacts DEF MainRecords
    <2> HIDE DEF put
    <2>2. edits = 0 => mac = hop
      BY <1>3, <1>5, MacFacts DEF Unedited, TableInv, TableTypeOK
    <2>3. edits = 0 => Unedited'
      BY <1>2, <1>5, <2>1, <2>2, MacFacts DEF Unedited, hop
    <2> QED
      BY <1>1, <1>2, <1>5, <2>1, <2>3, MacFacts, SameDatagram
  <1>6. CASE main' = poll /\ asked' = asked \cup {hop}
    <2>1. /\ poll \in MainRecords /\ poll.at = "poll" /\ poll.mac = NoMac /\ poll.captured
          /\ poll.dst = main.dst /\ poll.frag = main.frag /\ poll.dgram = main.dgram
      BY Bounds, MacFacts DEF MainRecords
    <2> HIDE DEF poll
    <2>2. edits = 0 => Unedited'
      BY <1>2, <1>6, <2>1, MacFacts DEF Unedited
    <2>3. asked' \subseteq Ips
      BY <1>6, MacFacts DEF hop
    <2> QED
      BY <1>1, <1>2, <1>6, <2>1, <2>2, <2>3, MacFacts, SameDatagram
  <1> QED
    BY <1>1, <1>5, <1>6

\* What Learn makes of the table: a new node's MAC is that of its address.
LEMMA LearnFacts ==
  ASSUME TableInv, NEW t \in Threads, NEW ip \in Ips, Learn(t, ip)
  PROVE  /\ TableInv' /\ edits' = edits
         /\ (\A n \in Nodes : node[n].mac = node[n].ip) =>
               (\A n \in Nodes : node'[n].mac = node'[n].ip)
  <1>1. edits' = edits
    BY DEF Learn
  <1>2. \/ node' = node
        \/ \E n : node' = [node EXCEPT ![n] = [ip |-> ip, mac |-> ip, next |-> Null]]
    BY DEF Learn
  <1>3. (\A n \in Nodes : node[n].mac = node[n].ip) =>
           (\A n \in Nodes : node'[n].mac = node'[n].ip)
    BY <1>2 DEF TableInv, TableTypeOK
  <1> QED
    BY <1>1, <1>3, LearnTable

LEMMA AirTail ==
  ASSUME MacInv, air # <<>>
  PROVE  Head(air) \in Packets /\ Tail(air) \in Seq(Packets) /\ Head(air).ip \in Ips
  <1>1. Head(air) \in Packets /\ Tail(air) \in Seq(Packets)
    BY MacFacts, HeadTailProperties
  <1> QED
    BY <1>1 DEF Packets

LEMMA PollPacketMac ==
  ASSUME MacInv, PollPacket
  PROVE  MacInv'
  <1> DEFINE p == Head(air)
             hop == NextHop(main.dst)
             heard == [main EXCEPT !.mac = p.ip, !.stale = FALSE, !.rounds = @ + 1]
             forgot == [main EXCEPT !.mac = NoMac]
  <1>1. /\ main.at = "poll" /\ main.rounds < Rounds /\ air # <<>> /\ air' = Tail(air)
        /\ \/ /\ Learn(Main, p.ip) /\ main' = heard
              /\ strays' = IF p.ip = hop THEN strays ELSE strays \cup {p.ip}
           \/ main' = forgot /\ UNCHANGED <<table, strays>>
        /\ UNCHANGED <<asked, id, frames>>
    BY DEF PollPacket, Polling
  <1>2. p.ip \in Ips /\ Tail(air) \in Seq(Packets)
    BY <1>1, AirTail
  <1>3. main.rounds + 1 \in 0 .. Rounds
    BY <1>1, Bounds, MacFacts DEF MainRecords
  <1> HIDE DEF p
  <1>4. CASE /\ Learn(Main, p.ip) /\ main' = heard
             /\ strays' = IF p.ip = hop THEN strays ELSE strays \cup {p.ip}
    <2>1. /\ TableInv' /\ edits' = edits
          /\ (\A n \in Nodes : node[n].mac = node[n].ip) =>
                (\A n \in Nodes : node'[n].mac = node'[n].ip)
      BY <1>2, <1>4, LearnFacts, MacFacts, Threading
    <2>2. /\ heard \in MainRecords /\ heard.at = "poll" /\ heard.mac = p.ip
          /\ heard.dst = main.dst /\ heard.frag = main.frag /\ heard.dgram = main.dgram
          /\ heard.captured = main.captured
      BY <1>1, <1>2, <1>3, MacFacts DEF MainRecords, Macs
    <2> HIDE DEF heard, hop
    <2>3. edits = 0 => Unedited'
      BY <1>1, <1>4, <2>1, <2>2, MacFacts DEF Unedited, hop
    <2> QED
      BY <1>1, <1>2, <1>4, <2>1, <2>2, <2>3, MacFacts, SameDatagram
  <1>5. CASE main' = forgot /\ UNCHANGED <<table, strays>>
    <2>1. TableInv' /\ edits' = edits /\ node' = node
      BY <1>5, MacFacts, TableKept DEF table
    <2>2. /\ forgot \in MainRecords /\ forgot.at = "poll" /\ forgot.mac = NoMac
          /\ forgot.dst = main.dst /\ forgot.frag = main.frag /\ forgot.dgram = main.dgram
          /\ forgot.captured = main.captured
      BY <1>1, MacFacts DEF MainRecords
    <2> HIDE DEF forgot
    <2>3. edits = 0 => Unedited'
      BY <1>1, <1>5, <2>1, <2>2, MacFacts DEF Unedited
    <2> QED
      BY <1>1, <1>2, <1>5, <2>1, <2>2, <2>3, MacFacts, SameDatagram
  <1> QED
    BY <1>1, <1>4, <1>5

LEMMA PollNothingMac ==
  ASSUME MacInv, PollNothing
  PROVE  MacInv'
  <1> DEFINE next == [main EXCEPT !.rounds = @ + 1]
  <1>1. /\ main.at = "poll" /\ main.rounds < Rounds /\ main' = next
        /\ UNCHANGED <<table, air, asked, id, frames, strays>>
    BY DEF PollNothing, Polling
  <1>2. main.rounds + 1 \in 0 .. Rounds
    BY <1>1, Bounds, MacFacts DEF MainRecords
  <1>3. /\ next \in MainRecords /\ next.at = "poll" /\ next.mac = main.mac
        /\ next.dst = main.dst /\ next.frag = main.frag /\ next.dgram = main.dgram
        /\ next.captured = main.captured
    BY <1>1, <1>2, MacFacts DEF MainRecords
  <1> HIDE DEF next
  <1>4. TableInv' /\ edits' = edits /\ node' = node
    BY <1>1, MacFacts, TableKept DEF table
  <1>5. edits = 0 => Unedited'
    BY <1>1, <1>3, <1>4, MacFacts DEF Unedited
  <1> QED
    BY <1>1, <1>3, <1>4, <1>5, MacFacts, SameDatagram

LEMMA IdleFacts ==
  ASSUME MacInv
  PROVE  /\ Idle(main.dgram) \in MainRecords /\ Idle(main.dgram).at = "idle"
         /\ Idle(main.dgram).dgram = main.dgram
  BY Bounds, MacFacts DEF Idle, MainRecords

LEMMA PollEndMac ==
  ASSUME MacInv, PollEnd
  PROVE  MacInv'
  <1> DEFINE put == [main EXCEPT !.at = "put"]
  <1>1. /\ main.at = "poll" /\ UNCHANGED <<table, air, asked, id, frames, strays>>
        /\ main' = Idle(main.dgram) \/ (main' = put /\ main.mac # NoMac)
    BY DEF PollEnd
  <1>2. TableInv' /\ edits' = edits /\ node' = node
    BY <1>1, MacFacts, TableKept DEF table
  <1>3. CASE main' = Idle(main.dgram)
    <2>1. edits = 0 => Unedited'
      BY <1>1, <1>2, <1>3, MacFacts, IdleFacts DEF Unedited
    <2> QED
      BY <1>1, <1>2, <1>3, <2>1, MacFacts, IdleFacts, MainMoves
  <1>4. CASE main' = put /\ main.mac # NoMac
    <2>1. /\ put \in MainRecords /\ put.at = "put" /\ put.mac = main.mac
          /\ put.dst = main.dst /\ put.frag = main.frag /\ put.dgram = main.dgram
          /\ put.captured = main.captured
      BY MacFacts DEF MainRecords
    <2> HIDE DEF put
    <2>2. edits = 0 => Unedited'
      BY <1>1, <1>2, <1>4, <2>1, MacFacts DEF Unedited
    <2> QED
      BY <1>1, <1>2, <1>4, <2>1, <2>2, MacFacts, SameDatagram
  <1> QED
    BY <1>1, <1>3, <1>4

LEMMA HandoutTakeMac ==
  ASSUME MacInv, HandoutTake
  PROVE  MacInv'
  <1> DEFINE next == [main EXCEPT !.stale = main.captured /\ main.mac # NoMac]
  <1>1. /\ air # <<>> /\ air' = Tail(air) /\ Learn(Handout, Head(air).ip) /\ main' = next
        /\ UNCHANGED <<asked, id, frames, strays>>
    BY DEF HandoutTake
  <1>2. Head(air).ip \in Ips /\ Tail(air) \in Seq(Packets)
    BY <1>1, AirTail
  <1>3. /\ TableInv' /\ edits' = edits
        /\ (\A n \in Nodes : node[n].mac = node[n].ip) =>
              (\A n \in Nodes : node'[n].mac = node'[n].ip)
    BY <1>1, <1>2, LearnFacts, MacFacts, Threading
  <1>4. /\ next \in MainRecords /\ next.at = main.at /\ next.mac = main.mac
        /\ next.dst = main.dst /\ next.frag = main.frag /\ next.dgram = main.dgram
        /\ next.captured = main.captured
    BY MacFacts DEF MainRecords
  <1> HIDE DEF next
  <1>5. edits = 0 => Unedited'
    BY <1>1, <1>3, <1>4, MacFacts DEF Unedited
  <1> QED
    BY <1>1, <1>2, <1>3, <1>4, <1>5, MacFacts, MainMoves

\* The table changes, and nothing of the sender.
LEMMA TableStepMac ==
  ASSUME MacInv, TableStep, UNCHANGED sending
  PROVE  MacInv'
  <1>1. TableInv'
    BY MacFacts, StepTable
  <1>2. UNCHANGED <<main, air, asked, id, frames, strays>>
    BY DEF sending
  <1>3. \/ edits' = edits + 1
        \/ edits' = edits /\ \E t \in Threads : Insertion(t)
    BY DEF TableStep, Delete, Update, Insertion, InsertCheck, InsertLink, InsertTail
  <1>4. ASSUME NEW t \in Threads, Insertion(t)
        PROVE  \A n \in Nodes : node'[n].mac = node[n].mac /\ node'[n].ip = node[n].ip
    <2>1. node' = node \/ node' = [node EXCEPT ![tail].next = insertion[t].node]
      BY <1>4 DEF Insertion, InsertCheck, InsertLink, InsertTail
    <2> QED
      BY <2>1, MacFacts DEF TableInv, TableTypeOK
  <1>5. /\ edits' \in Nat /\ edits <= edits'
        /\ edits' = 0 => edits = 0 /\ \E t \in Threads : Insertion(t)
    BY <1>3, MacFacts
  <1>6. edits' = 0 => Unedited'
    BY <1>2, <1>4, <1>5, MacFacts DEF Unedited
  <1> QED
    BY <1>1, <1>2, <1>5, <1>6, MacFacts, MainMoves

LEMMA OthersMac ==
  ASSUME MacInv, NEW ip \in Ips,
         Answer(ip) \/ \E op \in {"request", "reply"} : Foreign(op, ip)
  PROVE  MacInv'
  <1>1. /\ UNCHANGED <<table, main, id, frames, strays>>
        /\ asked' \subseteq asked
        /\ \E op \in {"request", "reply"} : air' = Append(air, [op |-> op, ip |-> ip])
    BY DEF Answer, Foreign
  <1>2. air' \in Seq(Packets)
    BY <1>1, MacFacts, AppendProperties DEF Packets
  <1>3. TableInv' /\ edits' = edits /\ node' = node
    BY <1>1, MacFacts, TableKept DEF table
  <1>4. edits' = 0 => Unedited'
    BY <1>1, <1>3, MacFacts DEF Unedited
  <1> QED
    BY <1>1, <1>2, <1>3, <1>4, MacFacts, MainMoves

LEMMA PutFragmentMac ==
  ASSUME MacInv, PutFragment
  PROVE  MacInv'
  <1> DEFINE more == [main EXCEPT !.at = "fragment", !.frag = @ + 1]
  <1>1. PICK mac \in {main.mac, Garbage} : frames' = Append(frames, Frame(mac))
    BY DEF PutFragment
  <1>2. /\ main.at = "put" /\ UNCHANGED <<table, air, asked, strays>>
        /\ \/ main.frag < Pieces(main.dst) /\ main' = more /\ id' = id
           \/ main' = Idle(main.dgram) /\ id' = id + 1
    BY DEF PutFragment
  <1>3. TableInv' /\ edits' = edits /\ node' = node
    BY <1>2, MacFacts, TableKept DEF table
  <1>4. main.mac \in Macs /\ main.dgram \in Nat
    BY <1>2, MacFacts DEF MainRecords
  <1>5. mac \in Macs \cup {Garbage}
    BY <1>1, <1>4
  <1>6. /\ Frame(mac) \in FrameRecords
        /\ Frame(mac).mac = mac /\ Frame(mac).hop = NextHop(main.dst)
    BY <1>4, <1>5, MacFacts DEF Frame, FrameRecords
  <1>7. frames \in Seq(FrameRecords)
    BY DEF MacInv, Types
  <1> DEFINE f == Frame(mac)
             n == Len(frames)
  <1>8. /\ frames' \in Seq(FrameRecords) /\ n \in Nat
        /\ DOMAIN frames = 1 .. n /\ DOMAIN frames' = 1 .. n + 1
        /\ \A k \in 1 .. n : frames'[k] = frames[k]
        /\ frames'[n + 1] = f
    BY <1>1, <1>6, <1>7, AppendProperties, LenProperties
  <1> HIDE DEF f, n
  <1>9. \/ f.mac \in {f.hop, Garbage}
        \/ f.mac \in strays
        \/ edits > 0
    <2>1. CASE edits = 0
      BY <1>1, <1>2, <1>6, <2>1, MacFacts DEF f, Unedited
    <2> QED
      BY <2>1, MacFacts
  <1>10. RightMac'
    <2>1. RightMac
      BY DEF MacInv
    <2> SUFFICES ASSUME NEW k \in 1 .. n + 1
                 PROVE  \/ frames'[k].mac \in {frames'[k].hop, Garbage}
                        \/ frames'[k].mac \in strays
                        \/ edits > 0
      BY <1>2, <1>3, <1>8 DEF RightMac
    <2>2. k \in 1 .. n \/ k = n + 1
      BY <1>8
    <2> QED
      BY <1>8, <1>9, <2>1, <2>2 DEF RightMac
  <1>11. CASE main.frag < Pieces(main.dst) /\ main' = more /\ id' = id
    <2>1. Pieces(main.dst) \in 1 .. Fragments /\ main.frag \in 1 .. Pieces(main.dst)
      BY <1>2, MacFacts, PiecesType
    <2>2. main.frag + 1 \in 1 .. Pieces(main.dst) /\ main.frag + 1 \in 0 .. Fragments
      BY <1>11, <2>1, Bounds
    <2>3. /\ more \in MainRecords /\ more.at = "fragment" /\ more.frag = main.frag + 1
          /\ more.dst = main.dst /\ more.dgram = main.dgram
      BY <2>2, MacFacts DEF MainRecords
    <2> HIDE DEF more
    <2>4. Types'
      BY <1>2, <1>8, <1>11, <2>2, <2>3, MacFacts DEF MacInv, Types
    <2>5. edits = 0 => Unedited'
      BY <1>3, <1>11, <2>3, MacFacts DEF Unedited
    <2> QED
      BY <1>3, <1>10, <2>4, <2>5 DEF MacInv
  <1>12. CASE main' = Idle(main.dgram) /\ id' = id + 1
    <2>1. id + 1 \in Nat /\ id + 1 <= main.dgram
      BY <1>2, MacFacts
    <2>2. Types'
      BY <1>2, <1>8, <1>12, <2>1, MacFacts, IdleFacts DEF MacInv, Types
    <2>3. edits = 0 => Unedited'
      BY <1>3, <1>12, MacFacts, IdleFacts DEF Unedited
    <2> QED
      BY <1>3, <1>10, <2>2, <2>3 DEF MacInv
  <1> QED
    BY <1>2, <1>11, <1>12

\* Every step keeps the sender's invariant.
LEMMA MacStep == MacInv /\ [Next]_vars => MacInv'
  <1> SUFFICES ASSUME MacInv, [Next]_vars PROVE MacInv'
    OBVIOUS
  <1>1. CASE UNCHANGED vars
    <2>1. UNCHANGED <<main, air, asked, id, frames, strays, edits, node>> /\ TableInv'
      BY <1>1, MacFacts, TableKept DEF vars, sending, table
    <2>2. Types' /\ RightMac' /\ (edits' = 0 => Unedited')
      BY <2>1, MacFacts DEF MacInv, Types, RightMac, Unedited
    <2> QED
      BY <2>1, <2>2 DEF MacInv
  <1>2. CASE Next
    BY <1>2, SendDatagramMac, FindMacMac, PollPacketMac, PollNothingMac, PollEndMac,
       PutFragmentMac, HandoutTakeMac, TableStepMac, OthersMac DEF Next, MainStep, Poll
  <1> QED
    BY <1>1, <1>2

LEMMA MacInvGives == MacInv => TypeOK /\ ListSound
  <1> SUFFICES ASSUME MacInv PROVE TypeOK /\ ListSound
    OBVIOUS
  <1>1. /\ main.at \in {"idle", "fragment", "poll", "put"}
        /\ main.rounds \in 0 .. Rounds /\ main.frag \in 0 .. Fragments
        /\ main.dgram \in 0 .. MaxDatagrams /\ main.mac \in Macs \cup {NoMac}
    BY MacFacts DEF MainRecords
  <1>2. id \in 0 .. MaxDatagrams
    BY MacFacts, Bounds
  <1>3. \A k \in DOMAIN frames : frames[k].mac \in Macs \cup {Garbage}
    <2>1. frames \in Seq(FrameRecords)
      BY DEF MacInv, Types
    <2>2. \A k \in DOMAIN frames : frames[k] \in FrameRecords
      BY <2>1, ElementOfSeq, LenProperties
    <2> QED
      BY <2>2 DEF FrameRecords
  <1>4. TypeOK
    BY <1>1, <1>2, <1>3, MacFacts DEF TypeOK, TableInv
  <1> QED
    BY <1>4, MacFacts, TableInvGives

\* The sender and the table keep their types; a datagram is only put into a frame
\* with a MAC.
THEOREM TypeCorrect == Spec => []TypeOK
  BY InitMac, MacStep, MacInvGives, PTL DEF Spec

\* Whatever insertions, deletions and updates of two threads without a lock
\* interleave, and although tail may lead to a node that was freed and given out
\* again, is_existed_ip's walk ends, meets no freed node and starts with the
\* target.
THEOREM ListSoundAlways == Spec => []ListSound
  BY InitMac, MacStep, MacInvGives, PTL DEF Spec

\* A frame's MAC is that of its hop, but when an entry was changed, when main read
\* another host's reply while it waited, or when the capture buffer was refilled:
\* the races of the table alone never give the MAC of another host.
THEOREM RightMacAlways == Spec => []RightMac
  <1>1. MacInv => RightMac
    BY DEF MacInv
  <1> QED
    BY <1>1, InitMac, MacStep, PTL DEF Spec

(***************************************************************************)
(* Ids.                                                                    *)
(***************************************************************************)
(***************************************************************************)
(* What the proof needs to know of the sender's variables.  Which values   *)
(* the frames and the fields of main have does not matter.                 *)
(***************************************************************************)
Shape ==
  /\ DOMAIN main = {"at", "dgram", "dst", "frag", "rounds", "mac", "captured", "stale"}
  /\ main = [f \in DOMAIN main |-> main[f]]
  /\ main.dgram \in Nat
  /\ id \in Nat
  /\ \E S : frames \in Seq(S)

\* Frames are of this datagram or of earlier ones, and their ids are no later
\* than the counter.
FramesSoFar ==
  \A k \in DOMAIN frames :
    /\ frames[k].dgram \in Nat /\ frames[k].dgram <= main.dgram
    /\ frames[k].id \in Nat /\ frames[k].id <= id

\* The id that comes next is on fragments of the datagram being sent and of
\* those that were given up.
NextIdUnused ==
  \A k \in DOMAIN frames :
    frames[k].id = id =>
      \/ main.at # "idle" /\ frames[k].dgram = main.dgram
      \/ frames[k].dgram \in failed

IdInv == Shape /\ FramesSoFar /\ NextIdUnused /\ SameIdOnlyAfterFailure

------------------------------------------------------------------------------
LEMMA InitIdInv == Init => IdInv
  <1> SUFFICES ASSUME Init PROVE IdInv
    OBVIOUS
  <1>1. DOMAIN frames = {} /\ frames \in Seq({})
    BY EmptySeq DEF Init
  <1>2. Shape
    BY <1>1 DEF Init, Shape, Idle
  <1> QED
    BY <1>1, <1>2 DEF IdInv, FramesSoFar, NextIdUnused, SameIdOnlyAfterFailure

\* A step that sends no frame and leaves the counter keeps the invariant when
\* the number of the datagram only grows between two datagrams and a datagram
\* that ends without its last frame is a failed one.
LEMMA NoFrame ==
  ASSUME IdInv,
         UNCHANGED <<frames, id>>,
         DOMAIN main' = DOMAIN main, main' = [f \in DOMAIN main' |-> main'[f]],
         main'.dgram \in Nat, main'.dgram >= main.dgram,
         failed \subseteq failed',
         main.at # "idle" => /\ main'.dgram = main.dgram
                             /\ main'.at # "idle" \/ main.dgram \in failed'
  PROVE  IdInv'
  <1>1. Shape'
    BY DEF IdInv, Shape
  <1>2. FramesSoFar'
    BY DEF IdInv, FramesSoFar, Shape
  <1>3. NextIdUnused'
    BY DEF IdInv, NextIdUnused
  <1>4. SameIdOnlyAfterFailure'
    BY DEF IdInv, SameIdOnlyAfterFailure
  <1> QED
    BY <1>1, <1>2, <1>3, <1>4 DEF IdInv

LEMMA PutIdInv ==
  ASSUME IdInv, PutFragment
  PROVE  IdInv'
  <1> USE DEF IdInv
  <1>1. PICK mac : frames' = Append(frames, Frame(mac))
    BY DEF PutFragment
  <1> DEFINE new == Frame(mac)
  <1>2. PICK S : frames \in Seq(S)
    BY DEF Shape
  <1>3. frames \in Seq(S \cup {new}) /\ new \in S \cup {new}
    BY <1>2, SeqMonotonic
  <1>4. /\ frames' \in Seq(S \cup {new})
        /\ Len(frames') = Len(frames) + 1
        /\ \A k \in 1 .. Len(frames) : frames'[k] = frames[k]
        /\ frames'[Len(frames) + 1] = new
    BY <1>1, <1>3, AppendProperties
  <1>5. /\ Len(frames) \in Nat /\ DOMAIN frames = 1 .. Len(frames)
        /\ DOMAIN frames' = 1 .. Len(frames) + 1
    BY <1>2, <1>4, LenProperties
  <1>6. new.dgram = main.dgram /\ new.id = id
    BY DEF Frame
  <1>7. main.at = "put" /\ failed' = failed
    BY DEF PutFragment
  <1>8. SameIdOnlyAfterFailure'
    <2> SUFFICES ASSUME NEW j \in DOMAIN frames', NEW k \in DOMAIN frames',
                        frames'[j].id = frames'[k].id, frames'[j].dgram < frames'[k].dgram
                 PROVE  frames'[j].dgram \in failed
      BY <1>7 DEF SameIdOnlyAfterFailure
    <2>1. CASE j \in DOMAIN frames /\ k \in DOMAIN frames
      BY <2>1, <1>4, <1>5 DEF SameIdOnlyAfterFailure
    <2>2. CASE j \in DOMAIN frames /\ k = Len(frames) + 1
      <3>1. frames[j].id = id /\ frames[j].dgram < main.dgram
        BY <2>2, <1>4, <1>5, <1>6
      <3>2. frames[j].dgram \in Nat /\ main.dgram \in Nat
        BY <2>2 DEF FramesSoFar, Shape
      <3> QED
        BY <3>1, <3>2, <2>2, <1>4, <1>5 DEF NextIdUnused
    <2>3. CASE j = Len(frames) + 1
      <3>1. frames'[j].dgram = main.dgram
        BY <2>3, <1>4, <1>6
      <3>2. frames'[k].dgram \in Nat /\ frames'[k].dgram <= main.dgram
        BY <1>4, <1>5, <1>6 DEF FramesSoFar, Shape
      <3> QED
        BY <3>1, <3>2 DEF Shape
    <2> QED
      BY <2>1, <2>2, <2>3, <1>5
  <1>9. CASE main.frag < Pieces(main.dst)
    <2>1. main' = [main EXCEPT !.at = "fragment", !.frag = @ + 1] /\ id' = id
      BY <1>9 DEF PutFragment
    <2>2. main'.at = "fragment" /\ main'.dgram = main.dgram /\ DOMAIN main' = DOMAIN main
          /\ main' = [f \in DOMAIN main' |-> main'[f]]
      BY <2>1 DEF Shape
    <2>3. Shape'
      BY <2>1, <2>2, <1>4 DEF Shape
    <2>4. FramesSoFar'
      BY <2>1, <2>2, <1>4, <1>5, <1>6 DEF FramesSoFar, Shape
    <2>5. NextIdUnused'
      BY <2>1, <2>2, <1>4, <1>5, <1>6, <1>7 DEF NextIdUnused, Shape
    <2> QED
      BY <2>3, <2>4, <2>5, <1>8
  <1>10. CASE ~ (main.frag < Pieces(main.dst))
    <2>1. main' = Idle(main.dgram) /\ id' = id + 1
      BY <1>10 DEF PutFragment
    <2>2. main'.dgram = main.dgram
      BY <2>1 DEF Idle
    <2>3. Shape'
      BY <2>1, <2>2, <1>4 DEF Shape, Idle
    <2>4. FramesSoFar'
      BY <2>1, <2>2, <1>4, <1>5, <1>6 DEF FramesSoFar, Shape
    <2>5. NextIdUnused'
      <3>1. \A k \in DOMAIN frames' : frames'[k].id \in Nat /\ frames'[k].id <= id
        BY <1>4, <1>5, <1>6 DEF FramesSoFar, Shape
      <3> QED
        BY <3>1, <2>1 DEF NextIdUnused, Shape
    <2> QED
      BY <2>3, <2>4, <2>5, <1>8
  <1> QED
    BY <1>9, <1>10

LEMMA NextIdInv ==
  ASSUME IdInv, [Next]_vars
  PROVE  IdInv'
  <1> USE DEF IdInv
  <1>1. ASSUME NEW dst \in Destinations, SendDatagram(dst) PROVE IdInv'
    <2>1. /\ main.at = "idle" /\ UNCHANGED <<frames, id, failed>>
          /\ main' = [main EXCEPT !.at = "fragment", !.dgram = @ + 1, !.dst = dst, !.frag = 1]
      BY <1>1 DEF SendDatagram
    <2>2. main'.dgram = main.dgram + 1 /\ DOMAIN main' = DOMAIN main
          /\ main' = [f \in DOMAIN main' |-> main'[f]]
      BY <2>1 DEF Shape
    <2> QED
      BY <2>1, <2>2, NoFrame DEF Shape
  <1>2. CASE FindMac
    <2>1. UNCHANGED <<frames, id, failed>> /\ DOMAIN main' = DOMAIN main
          /\ main' = [f \in DOMAIN main' |-> main'[f]]
          /\ main'.dgram = main.dgram /\ main'.at # "idle"
      BY <1>2 DEF FindMac, Shape
    <2> QED
      BY <2>1, NoFrame DEF Shape
  <1>3. CASE PollPacket
    <2>1. UNCHANGED <<frames, id, failed>> /\ DOMAIN main' = DOMAIN main
          /\ main' = [f \in DOMAIN main' |-> main'[f]]
          /\ main'.dgram = main.dgram /\ main'.at = main.at
      BY <1>3 DEF PollPacket, Shape
    <2> QED
      BY <2>1, NoFrame DEF Shape
  <1>4. CASE PollNothing
    <2>1. UNCHANGED <<frames, id, failed>> /\ DOMAIN main' = DOMAIN main
          /\ main' = [f \in DOMAIN main' |-> main'[f]]
          /\ main'.dgram = main.dgram /\ main'.at = main.at
      BY <1>4 DEF PollNothing, Shape
    <2> QED
      BY <2>1, NoFrame DEF Shape
  <1>5. CASE PollEnd
    <2>1. UNCHANGED <<frames, id>>
      BY <1>5 DEF PollEnd
    <2>2. CASE main.mac = NoMac
      <3>1. main' = Idle(main.dgram) /\ failed' = failed \cup {main.dgram}
        BY <1>5, <2>2 DEF PollEnd
      <3>2. DOMAIN main' = DOMAIN main /\ main' = [f \in DOMAIN main' |-> main'[f]]
            /\ main'.dgram = main.dgram
        BY <3>1 DEF Idle, Shape
      <3> QED
        BY <2>1, <3>1, <3>2, NoFrame DEF Shape
    <2>3. CASE main.mac # NoMac
      <3>1. main' = [main EXCEPT !.at = "put"] /\ failed' = failed
        BY <1>5, <2>3 DEF PollEnd
      <3>2. DOMAIN main' = DOMAIN main /\ main' = [f \in DOMAIN main' |-> main'[f]]
            /\ main'.dgram = main.dgram /\ main'.at = "put"
        BY <3>1 DEF Shape
      <3> QED
        BY <2>1, <3>1, <3>2, NoFrame DEF Shape
    <2> QED
      BY <2>2, <2>3
  <1>6. CASE PutFragment
    BY <1>6, PutIdInv
  <1>7. CASE HandoutTake
    <2>1. UNCHANGED <<frames, id, failed>> /\ DOMAIN main' = DOMAIN main
          /\ main' = [f \in DOMAIN main' |-> main'[f]]
          /\ main'.dgram = main.dgram /\ main'.at = main.at
      BY <1>7 DEF HandoutTake, Shape
    <2> QED
      BY <2>1, NoFrame DEF Shape
  <1>8. CASE UNCHANGED <<main, frames, id, failed>>
    BY <1>8, NoFrame DEF Shape
  <1> QED
    BY <1>1, <1>2, <1>3, <1>4, <1>5, <1>6, <1>7, <1>8
      DEF Next, MainStep, Poll, Answer, Foreign, vars, sending

\* Two datagrams have fragments of one id only when the first was given up in
\* its middle (network_ipv4_send, return 0 before ip_packet_id++), whatever the
\* table, the replies and the other thread do.
THEOREM SameIdOnlyAfterFailureAlways == Spec => []SameIdOnlyAfterFailure
  <1>1. Init => IdInv
    BY InitIdInv
  <1>2. IdInv /\ [Next]_vars => IdInv'
    BY NextIdInv
  <1>3. IdInv => SameIdOnlyAfterFailure
    BY DEF IdInv
  <1> QED
    BY <1>1, <1>2, <1>3, PTL DEF Spec

(***************************************************************************)
(* What the table says: the entry of an address is the first of its nodes  *)
(* on the walk.                                                            *)
(***************************************************************************)
\* w is the walk along the nodes nd.
IsWalk(w, nd) ==
  /\ w[0] = First
  /\ \A k \in 1 .. MaxNodes : w[k] = IF w[k - 1] = Null THEN Null ELSE nd[w[k - 1]].next

LEMMA OneWalk ==
  ASSUME NEW nd, NEW v, NEW w, IsWalk(v, nd), IsWalk(w, nd)
  PROVE  \A k \in Places : v[k] = w[k]
  <1> DEFINE Differ == {k \in Places : v[k] # w[k]}
  <1> SUFFICES ASSUME Differ # {} PROVE FALSE
    OBVIOUS
  <1>1. Differ \in SUBSET Nat
    BY TableAssumption DEF Places
  <1>2. PICK k \in Differ : \A j \in Differ : k <= j
    BY <1>1, Least
  <1>3. k # 0
    BY <1>2 DEF IsWalk
  <1>4. k \in 1 .. MaxNodes /\ k - 1 \in Places /\ k - 1 \notin Differ
    BY <1>2, <1>3, TableAssumption DEF Places
  <1> QED
    BY <1>2, <1>4 DEF IsWalk

\* A list as its walk shows it: it meets no node twice, and ends.
IsList(w, nd) ==
  /\ IsWalk(w, nd)
  /\ w[MaxNodes] = Null
  /\ \A i, j \in Places : i <= j /\ w[j] # Null => w[i] # Null
  /\ \A i, j \in Places : i < j /\ w[j] # Null => w[i] # w[j]

LEMMA WalkIsList ==
  ASSUME TableInv
  PROVE  IsList(Walk, node)
  <1>1. IsWalk(Walk, node)
    BY WalkIs DEF TableInv, IsWalk
  <1> QED
    BY <1>1, WalkEnds, WalkOnce DEF IsList

\* The entry of an address on a walk.
Entry(w, nd, ip) ==
  LET places == {k \in Places : w[k] # Null /\ nd[w[k]].ip = ip}
  IN  IF places # {} THEN nd[w[Earliest(places)]].mac ELSE NoMac

LookupsAreEntries == \A ip : Lookup(ip) = Entry(Walk, node, ip)

LEMMA LookupIsEntry == LookupsAreEntries
  <1> SUFFICES ASSUME NEW ip PROVE Lookup(ip) = Entry(Walk, node, ip)
    BY DEF LookupsAreEntries
  <1> DEFINE places == {k \in Places : Walk[k] # Null /\ node[Walk[k]].ip = ip}
  <1>1. places = {k \in 0 .. MaxNodes : Holds(Walk[k], ip)}
    BY DEF Holds, Places
  <1>2. Place(Walk, ip) = Earliest(places)
    BY <1>1 DEF Place
  <1>3. (places # {}) <=> (\E k \in 0 .. MaxNodes : Holds(Walk[k], ip))
    BY <1>1
  <1> HIDE DEF places
  <1>4. Lookup(ip) = IF places # {} THEN node[Walk[Earliest(places)]].mac ELSE NoMac
    BY <1>2, <1>3 DEF Lookup
  <1> QED
    BY <1>4 DEF Entry, places

LEMMA LookupWasEntry ==
  /\ \A ip : Lookup(ip) = Entry(Walk, node, ip)
  /\ \A ip : Lookup(ip)' = Entry(Walk', node', ip)
  <1>1. LookupsAreEntries'
    BY LookupIsEntry, PTL
  <1> QED
    BY <1>1, LookupIsEntry DEF LookupsAreEntries

\* k is the first place of the address.
FirstAt(w, nd, ip, k) ==
  /\ k \in Places /\ w[k] # Null /\ nd[w[k]].ip = ip
  /\ \A j \in Places : j < k /\ w[j] # Null => nd[w[j]].ip # ip

LEMMA EntryAt ==
  ASSUME NEW w, NEW nd, NEW ip, NEW k, FirstAt(w, nd, ip, k)
  PROVE  Entry(w, nd, ip) = nd[w[k]].mac
  <1> DEFINE places == {j \in Places : w[j] # Null /\ nd[w[j]].ip = ip}
  <1>1. k \in places /\ places \subseteq 0 .. MaxNodes
    BY DEF FirstAt, Places
  <1>2. Earliest(places) \in places /\ Earliest(places) <= k
    BY <1>1, EarliestIs
  <1>3. Earliest(places) = k
    BY <1>1, <1>2, TableAssumption DEF FirstAt
  <1> HIDE DEF places
  <1>4. places # {}
    BY <1>1
  <1> QED
    BY <1>3, <1>4 DEF Entry, places

LEMMA EntryNone ==
  ASSUME NEW w, NEW nd, NEW ip, \A k \in Places : w[k] # Null => nd[w[k]].ip # ip
  PROVE  Entry(w, nd, ip) = NoMac
  BY DEF Entry

LEMMA EntryCases ==
  ASSUME NEW w, NEW nd, NEW ip
  PROVE  \/ \A k \in Places : w[k] # Null => nd[w[k]].ip # ip
         \/ \E k \in Places : FirstAt(w, nd, ip, k)
  <1> DEFINE places == {k \in Places : w[k] # Null /\ nd[w[k]].ip = ip}
  <1>1. CASE places = {}
    BY <1>1
  <1>2. CASE places # {}
    <2>1. places \in SUBSET Nat
      BY DEF Places
    <2>2. PICK k \in places : \A j \in places : k <= j
      BY <1>2, <2>1, Least
    <2>3. FirstAt(w, nd, ip, k)
      <3> SUFFICES ASSUME NEW j \in Places, j < k, w[j] # Null, nd[w[j]].ip = ip PROVE FALSE
        BY <2>2 DEF FirstAt
      <3>1. k <= j
        BY <2>2
      <3> QED
        BY <2>2, <3>1 DEF Places
    <2> QED
      BY <2>2, <2>3
  <1> QED
    BY <1>1, <1>2

\* A walk that meets nodes of the same addresses and MACs has the same entries.
LEMMA EntrySame ==
  ASSUME NEW w, NEW nd, NEW v, NEW md, NEW ip,
         \A k \in Places : w[k] # Null <=> v[k] # Null,
         \A k \in Places : w[k] # Null => /\ (nd[w[k]].ip = ip) <=> (md[v[k]].ip = ip)
                                          /\ nd[w[k]].mac = md[v[k]].mac
  PROVE  Entry(v, md, ip) = Entry(w, nd, ip)
  <1>1. CASE \A k \in Places : w[k] # Null => nd[w[k]].ip # ip
    BY <1>1, EntryNone
  <1>2. CASE \E k \in Places : FirstAt(w, nd, ip, k)
    <2>1. PICK k \in Places : FirstAt(w, nd, ip, k)
      BY <1>2
    <2>2. FirstAt(v, md, ip, k)
      BY <2>1 DEF FirstAt
    <2>3. Entry(w, nd, ip) = nd[w[k]].mac /\ Entry(v, md, ip) = md[v[k]].mac
      BY <2>1, <2>2, EntryAt
    <2> QED
      BY <2>1, <2>3 DEF FirstAt
  <1> QED
    BY <1>1, <1>2, EntryCases

\* The walk when no node of the list has got another successor.
LEMMA SameList ==
  ASSUME NEW w, NEW nd, IsList(w, nd), NEW v, NEW md, IsWalk(v, md),
         \A k \in Places : w[k] # Null => md[w[k]].next = nd[w[k]].next
  PROVE  \A k \in Places : v[k] = w[k]
  <1>1. \A k \in 1 .. MaxNodes : k - 1 \in Places
    BY TableAssumption DEF Places
  <1>2. IsWalk(w, md)
    BY <1>1 DEF IsList, IsWalk
  <1> QED
    BY <1>2, OneWalk

\* The walk when the node at one place has got a new last node for a successor.
LEMMA LinkedList ==
  ASSUME NEW w, NEW nd, IsList(w, nd), NEW v, NEW md, IsWalk(v, md),
         NEW m \in Places, w[m] # Null, NEW n, n # Null,
         md[w[m]].next = n, md[n].next = Null,
         \A k \in Places : w[k] # Null /\ k # m => md[w[k]].next = nd[w[k]].next
  PROVE  \A k \in Places : v[k] = IF k <= m THEN w[k] ELSE IF k = m + 1 THEN n ELSE Null
  <1> DEFINE u == [k \in Places |-> IF k <= m THEN w[k] ELSE IF k = m + 1 THEN n ELSE Null]
  <1>1. \A k \in Places : u[k] = IF k <= m THEN w[k] ELSE IF k = m + 1 THEN n ELSE Null
    OBVIOUS
  <1>2. 0 \in Places /\ MaxNodes \in Nat /\ m \in Nat
    BY TableAssumption DEF Places
  <1> HIDE DEF u
  <1>3. u[0] = First
    BY <1>1, <1>2 DEF IsList, IsWalk
  <1>4. ASSUME NEW k \in 1 .. MaxNodes
        PROVE  u[k] = IF u[k - 1] = Null THEN Null ELSE md[u[k - 1]].next
    <2>1. k \in Places /\ k - 1 \in Places
      BY <1>2 DEF Places
    <2>2. CASE k <= m
      <3>1. k - 1 # m /\ k - 1 <= m
        BY <1>2, <2>1, <2>2 DEF Places
      <3>2. u[k] = w[k] /\ u[k - 1] = w[k - 1] /\ w[k - 1] # Null
        BY <1>1, <2>1, <2>2, <3>1 DEF IsList
      <3> QED
        BY <2>1, <3>1, <3>2 DEF IsList, IsWalk
    <2>3. CASE k = m + 1
      <3>1. u[k] = n /\ u[k - 1] = w[m] /\ k - 1 = m
        BY <1>1, <1>2, <2>1, <2>3
      <3> QED
        BY <3>1
    <2>4. CASE k = m + 2
      <3>1. u[k] = Null /\ u[k - 1] = n
        BY <1>1, <1>2, <2>1, <2>4
      <3> QED
        BY <3>1
    <2>5. CASE k > m + 2
      <3>1. u[k] = Null /\ u[k - 1] = Null
        BY <1>1, <1>2, <2>1, <2>5
      <3> QED
        BY <3>1
    <2> QED
      BY <1>2, <2>1, <2>2, <2>3, <2>4, <2>5 DEF Places
  <1>5. IsWalk(u, md)
    BY <1>3, <1>4 DEF IsWalk
  <1> QED
    BY <1>1, <1>5, OneWalk

\* The walk when the node at one place has been skipped.
LEMMA SkippedList ==
  ASSUME NEW w, NEW nd, IsList(w, nd), NEW v, NEW md, IsWalk(v, md),
         NEW k \in 1 .. MaxNodes, w[k] # Null,
         md[w[k - 1]].next = nd[w[k]].next,
         \A j \in Places : w[j] # Null /\ j # k - 1 => md[w[j]].next = nd[w[j]].next
  PROVE  \A j \in Places : v[j] = IF j < k THEN w[j] ELSE IF j < MaxNodes THEN w[j + 1] ELSE Null
  <1> DEFINE u == [j \in Places |->
                     IF j < k THEN w[j] ELSE IF j < MaxNodes THEN w[j + 1] ELSE Null]
  <1>1. \A j \in Places : u[j] = IF j < k THEN w[j] ELSE IF j < MaxNodes THEN w[j + 1] ELSE Null
    OBVIOUS
  <1>2. 0 \in Places /\ MaxNodes \in Nat /\ k \in Places /\ k - 1 \in Places
    BY TableAssumption DEF Places
  <1>3. /\ w[0] = First /\ w[MaxNodes] = Null
        /\ \A j \in 1 .. MaxNodes : w[j] = IF w[j - 1] = Null THEN Null ELSE nd[w[j - 1]].next
    BY DEF IsList, IsWalk
  <1>4. k < MaxNodes /\ k + 1 \in 1 .. MaxNodes /\ w[k + 1] = nd[w[k]].next /\ w[k - 1] # Null
    <2>1. k < MaxNodes
      BY <1>2, <1>3
    <2>2. k + 1 \in 1 .. MaxNodes /\ (k + 1) - 1 = k
      BY <1>2, <2>1
    <2>3. w[k + 1] = nd[w[k]].next
      BY <1>3, <2>2
    <2>4. w[k - 1] # Null
      BY <1>3
    <2> QED
      BY <2>1, <2>2, <2>3, <2>4
  <1> HIDE DEF u
  <1>5. u[0] = First
    BY <1>1, <1>2, <1>3
  <1>6. ASSUME NEW j \in 1 .. MaxNodes
        PROVE  u[j] = IF u[j - 1] = Null THEN Null ELSE md[u[j - 1]].next
    <2>1. j \in Places /\ j - 1 \in Places
      BY <1>2 DEF Places
    <2>2. CASE j < k
      <3>1. j - 1 # k - 1 /\ u[j] = w[j] /\ u[j - 1] = w[j - 1]
        BY <1>1, <1>2, <2>1, <2>2
      <3> QED
        BY <1>3, <2>1, <3>1
    <2>3. CASE j = k
      <3>1. u[j] = w[k + 1] /\ u[j - 1] = w[k - 1]
        BY <1>1, <1>2, <1>4, <2>1, <2>3
      <3> QED
        BY <1>4, <3>1
    <2>4. CASE j > k /\ j < MaxNodes
      <3>1. u[j] = w[j + 1] /\ u[j - 1] = w[j] /\ j # k - 1
            /\ j + 1 \in 1 .. MaxNodes /\ (j + 1) - 1 = j
        <4>1. u[j] = w[j + 1]
          BY <1>1, <1>2, <2>1, <2>4
        <4>2. u[j - 1] = w[(j - 1) + 1] /\ (j - 1) + 1 = j
          BY <1>1, <1>2, <2>1, <2>4
        <4> QED
          BY <1>2, <2>4, <4>1, <4>2
      <3>2. w[j + 1] = IF w[j] = Null THEN Null ELSE nd[w[j]].next
        BY <1>3, <3>1
      <3> QED
        BY <2>1, <3>1, <3>2
    <2>5. CASE j > k /\ j = MaxNodes
      <3>1. u[j] = Null
        BY <1>1, <1>2, <2>1, <2>5
      <3>2. u[j - 1] = w[(j - 1) + 1] /\ (j - 1) + 1 = j
        BY <1>1, <1>2, <2>1, <2>5
      <3> QED
        BY <1>3, <2>5, <3>1, <3>2
    <2> QED
      BY <1>2, <2>2, <2>3, <2>4, <2>5
  <1>7. IsWalk(u, md)
    BY <1>5, <1>6 DEF IsWalk
  <1> QED
    BY <1>1, <1>7, OneWalk

WalksAreLists == TableInv => IsList(Walk, node)

LEMMA WalkWasList ==
  /\ TableInv => IsList(Walk, node)
  /\ TableInv' => IsList(Walk', node')
  <1>1. WalksAreLists
    BY WalkIsList DEF WalksAreLists
  <1>2. WalksAreLists'
    BY <1>1, PTL
  <1> QED
    BY <1>1, <1>2 DEF WalksAreLists

\* A node of the list.
Reached(n) == n # Null /\ \E k \in Places : Walk[k] = n

LEMMA ReachedFacts ==
  ASSUME TableInv
  PROVE  /\ \A k \in Places : Walk[k] # Null => Walk[k] \in allocated /\ Reached(Walk[k])
         /\ \A n : Reached(n) => n \in allocated /\ n # Null
         /\ allocated \subseteq Nodes
         /\ First \in allocated /\ First # Null /\ Null \notin Nodes
         /\ Walk[0] = First
         /\ node \in [Nodes -> [ip : Ips, mac : Macs, next : Nodes \cup {Null}]]
         /\ insertion \in [Threads -> [at : {"none", "check", "link", "tail"},
                                       node : Nodes \cup {Null}]]
         /\ tail \in Nodes /\ loose \in BOOLEAN
         /\ \A t \in Threads : Unlinked(t) => ~ Reached(insertion[t].node)
  <1>1. \A k \in Places : Walk[k] \in allocated \cup {Null}
    BY ListHasWalk DEF Places
  <1>2. \A k \in Places : k > 0 /\ Walk[k] # Null =>
           Walk[k - 1] \in allocated /\ Walk[k] = node[Walk[k - 1]].next
    BY ListHasWalk DEF Places
  <1>3. Null \notin Nodes /\ Walk[0] = First
    BY WalkIs DEF TableInv, Nodes, Null
  <1>4. /\ First \in allocated
        /\ \A t \in Threads : Unlinked(t) =>
             insertion[t].node # First /\ \A n \in allocated : node[n].next # insertion[t].node
    BY DEF TableInv, ListInv
  <1>5. TableTypeOK
    BY DEF TableInv
  <1>6. First # Null
    BY DEF First, Null
  <1>7. ASSUME NEW t \in Threads, Unlinked(t), Reached(insertion[t].node)
        PROVE  FALSE
    <2>1. PICK k \in Places : Walk[k] = insertion[t].node /\ Walk[k] # Null
      BY <1>7 DEF Reached
    <2>2. k > 0 /\ Walk[k - 1] \in allocated /\ Walk[k] = node[Walk[k - 1]].next
      <3>1. k # 0
        BY <1>3, <1>4, <1>7, <2>1
      <3> QED
        BY <1>2, <2>1, <3>1 DEF Places
    <2> QED
      BY <1>4, <1>7, <2>1, <2>2
  <1>8. \A n : Reached(n) => n \in allocated /\ n # Null
    BY <1>1 DEF Reached
  <1>9. \A k \in Places : Walk[k] # Null => Walk[k] \in allocated /\ Reached(Walk[k])
    BY <1>1 DEF Reached
  <1>10. loose \in BOOLEAN /\ tail \in Nodes /\ allocated \subseteq Nodes
    BY <1>5 DEF TableTypeOK
  <1> QED
    BY <1>3, <1>4, <1>5, <1>6, <1>7, <1>8, <1>9, <1>10 DEF TableTypeOK

\* A step that gives no node of the list another successor.
LEMMA ListKept ==
  ASSUME TableInv, TableInv', \A n : Reached(n) => node'[n].next = node[n].next
  PROVE  /\ \A k \in Places : Walk'[k] = Walk[k]
         /\ \A n : Reached(n)' <=> Reached(n)
  <1>1. IsList(Walk, node) /\ IsWalk(Walk', node')
    BY WalkWasList DEF IsList
  <1>2. \A k \in Places : Walk[k] # Null => node'[Walk[k]].next = node[Walk[k]].next
    BY ReachedFacts
  <1>3. \A k \in Places : Walk'[k] = Walk[k]
    BY <1>1, <1>2, SameList
  <1> QED
    BY <1>3 DEF Reached

\* A step that leaves the nodes of the list as they are.
LEMMA EntriesKept ==
  ASSUME TableInv, TableInv',
         \A n : Reached(n) => /\ node'[n].next = node[n].next
                              /\ node'[n].ip = node[n].ip /\ node'[n].mac = node[n].mac
  PROVE  \A ip : Lookup(ip)' = Lookup(ip)
  <1>1. \A k \in Places : Walk'[k] = Walk[k]
    BY ListKept
  <1>2. \A k \in Places : Walk[k] # Null =>
           node'[Walk'[k]].ip = node[Walk[k]].ip /\ node'[Walk'[k]].mac = node[Walk[k]].mac
    BY <1>1, ReachedFacts
  <1>3. ASSUME NEW ip PROVE Entry(Walk', node', ip) = Entry(Walk, node, ip)
    BY <1>1, <1>2, EntrySame
  <1> QED
    BY <1>3, LookupWasEntry

(***************************************************************************)
(* The last entry.                                                         *)
(***************************************************************************)
\* A thread whose node is in the list, and not yet in tail.
Late(t) == insertion[t].at = "tail"
Pending(t) == Late(t) /\ Reached(insertion[t].node)

\* New entries will be met by the walk.
Attached == Reached(tail) \/ \E t \in Threads : Pending(t)

\* A node that is yet to be linked is as it was made.
FreshInv == \A t \in Threads : Unlinked(t) => node[insertion[t].node].mac = node[insertion[t].node].ip

\* As long as no deletion has met an insertion, a thread will store a node in
\* tail that it has made, and tail points to the last node or the one before.
LateInv ==
  \A t \in Threads : Late(t) =>
    /\ insertion[t].node \in allocated
    /\ \A u \in Threads : Unlinked(u) => insertion[u].node # insertion[t].node

PendingInv ==
  \A t \in Threads : Pending(t) =>
    /\ node[insertion[t].node].next = Null
    /\ Reached(tail) => node[tail].next = insertion[t].node
    /\ \A u \in Threads : Pending(u) => u = t

LastInv ==
  /\ Reached(tail) =>
       node[tail].next = Null \/ \E t \in Threads : Late(t) /\ node[tail].next = insertion[t].node
  /\ Attached =>
       /\ tail \in allocated
       /\ \A t \in Threads : Unlinked(t) =>
            insertion[t].node # tail /\ node[insertion[t].node].next = Null

\* Of two nodes of one address the later one is as it was made.
TwiceInv ==
  \A i, j \in Places :
    i < j /\ Walk[i] # Null /\ Walk[j] # Null /\ node[Walk[i]].ip = node[Walk[j]].ip =>
      node[Walk[j]].mac = node[Walk[j]].ip

TailInv == LateInv /\ PendingInv /\ LastInv /\ TwiceInv

MapInv == TableInv /\ FreshInv /\ (~ loose => TailInv)

LEMMA InitMapInv == TableInit => MapInv
  <1> SUFFICES ASSUME TableInit PROVE MapInv
    OBVIOUS
  <1>1. TableInv
    BY InitTable
  <1>2. /\ \A t \in Threads : insertion[t].at = "none"
        /\ \A n \in Nodes : node[n].mac = node[n].ip /\ node[n].next = Null
        /\ tail \in allocated
    BY DEF TableInit, NoInsertion
  <1>3. \A t \in Threads : ~ Unlinked(t) /\ ~ Late(t) /\ ~ Pending(t)
    BY <1>2 DEF Unlinked, Late, Pending
  <1>4. TwiceInv
    BY <1>1, <1>2, ReachedFacts DEF TwiceInv
  <1>5. tail \in Nodes
    BY <1>1, ReachedFacts
  <1> QED
    BY <1>1, <1>2, <1>3, <1>4, <1>5 DEF MapInv, FreshInv, TailInv, LateInv, PendingInv, LastInv

\* A step that leaves the list and tail as they are, and whose only new
\* insertion is of a new node.
LEMMA LastKept ==
  ASSUME TableInv, TableInv', LateInv, PendingInv, LastInv,
         \A n \in allocated : node'[n].next = node[n].next,
         allocated \subseteq allocated', tail' = tail,
         \A t \in Threads : Late(t)' => Late(t) /\ insertion'[t].node = insertion[t].node,
         \A t \in Threads : Late(t) => Late(t)' /\ insertion'[t].node = insertion[t].node,
         \A t \in Threads : Unlinked(t)' =>
           \/ Unlinked(t) /\ insertion'[t].node = insertion[t].node
           \/ insertion'[t].node \notin allocated /\ node'[insertion'[t].node].next = Null
  PROVE  LateInv' /\ PendingInv' /\ LastInv'
  <1>1. \A k \in Places : Walk'[k] = Walk[k]
    BY ListKept, ReachedFacts
  <1>2. \A t \in Threads : Unlinked(t) => insertion[t].node \in allocated
    BY DEF TableInv, ListInv
  <1>3. Reached(tail)' <=> Reached(tail)
    BY <1>1 DEF Reached
  <1>4. \A t \in Threads : Pending(t)' <=> Pending(t)
    BY <1>1 DEF Pending, Reached
  <1>5. Attached' <=> Attached
    BY <1>3, <1>4 DEF Attached
  <1>6. Reached(tail) => tail \in allocated
    BY ReachedFacts
  <1>7. LateInv'
    BY <1>2 DEF LateInv
  <1>8. PendingInv'
    <2>1. \A t \in Threads : Pending(t) => insertion[t].node \in allocated /\ Late(t)
      BY ReachedFacts DEF Pending
    <2> QED
      BY <1>3, <1>4, <1>6, <2>1 DEF PendingInv
  <1>9. LastInv'
    <2>1. ASSUME Reached(tail)
          PROVE  node'[tail].next = Null
                 \/ \E t \in Threads : Late(t)' /\ node'[tail].next = insertion'[t].node
      BY <1>6, <2>1 DEF LastInv
    <2>2. ASSUME Attached
          PROVE  /\ tail \in allocated'
                 /\ \A t \in Threads : Unlinked(t)' =>
                      insertion'[t].node # tail /\ node'[insertion'[t].node].next = Null
      BY <1>2, <2>2 DEF LastInv
    <2> QED
      BY <1>3, <1>5, <2>1, <2>2 DEF LastInv
  <1> QED
    BY <1>7, <1>8, <1>9

\* A step that leaves the nodes of the list as they are, too.
LEMMA MapInvKept ==
  ASSUME MapInv, TableInv',
         \A n \in allocated : /\ node'[n].next = node[n].next
                              /\ node'[n].ip = node[n].ip /\ node'[n].mac = node[n].mac,
         allocated \subseteq allocated', tail' = tail, loose' = loose,
         \A t \in Threads : Late(t)' => Late(t) /\ insertion'[t].node = insertion[t].node,
         \A t \in Threads : Late(t) => Late(t)' /\ insertion'[t].node = insertion[t].node,
         \A t \in Threads : Unlinked(t)' =>
           \/ Unlinked(t) /\ insertion'[t].node = insertion[t].node
           \/ /\ insertion'[t].node \notin allocated
              /\ node'[insertion'[t].node].mac = node'[insertion'[t].node].ip
              /\ node'[insertion'[t].node].next = Null
  PROVE  MapInv'
  <1>1. TableInv
    BY DEF MapInv
  <1>2. \A t \in Threads : Unlinked(t) => insertion[t].node \in allocated
    BY <1>1 DEF TableInv, ListInv
  <1>3. FreshInv'
    BY <1>2 DEF MapInv, FreshInv
  <1>4. ASSUME TailInv PROVE TailInv'
    <2>1. LateInv' /\ PendingInv' /\ LastInv'
      BY <1>1, <1>4, LastKept DEF TailInv
    <2>2. TwiceInv'
      <3>1. \A k \in Places : Walk[k] # Null => Walk[k] \in allocated
        BY <1>1, ReachedFacts
      <3>2. \A k \in Places : Walk'[k] = Walk[k]
        BY <1>1, ListKept, ReachedFacts
      <3> QED
        BY <1>4, <3>1, <3>2 DEF TailInv, TwiceInv
    <2> QED
      BY <2>1, <2>2 DEF TailInv
  <1> QED
    BY <1>3, <1>4 DEF MapInv

(***************************************************************************)
(* The steps of the map.                                                   *)
(***************************************************************************)
Inserters == {t \in Threads : insertion[t].at \in {"link", "tail"}}
Inserting == Cardinality(Inserters)
Known == [ip \in Ips |-> Lookup(ip)]
mapVars == <<Known, Inserting, loose>>

\* What the table knows changes for one address at most.
Learned(ip, mac) ==
  Lookup(ip)' = mac /\ \A q \in Ips \ {ip} : Lookup(q)' = Lookup(q)

LEMMA KnownChange ==
  ASSUME NEW ip \in Ips, NEW mac, Learned(ip, mac)
  PROVE  Known' = [Known EXCEPT ![ip] = mac]
  <1>1. ASSUME NEW q \in Ips PROVE Known'[q] = [Known EXCEPT ![ip] = mac][q]
    BY DEF Known, Learned
  <1>2. Known' = [q \in Ips |-> Known'[q]]
    BY DEF Known
  <1> QED
    BY <1>1, <1>2 DEF Known

LEMMA KnownSame ==
  ASSUME \A q \in Ips : Lookup(q)' = Lookup(q)
  PROVE  Known' = Known
  BY DEF Known

LEMMA KnownIs == \A ip \in Ips : Known[ip] = Lookup(ip) /\ Known'[ip] = Lookup(ip)'
  BY DEF Known

LEMMA AsLearn ==
  ASSUME NEW ip \in Ips, Inserting > 0, Lookup(ip) = NoMac, Learned(ip, ip),
         Inserting' = Inserting, loose' = loose
  PROVE  Map!Next
  <1>1. Known[ip] = NoMac /\ Known'[ip] = ip /\ ip # NoMac
    BY KnownIs, TableAssumption DEF Learned
  <1>2. Known' = [Known EXCEPT ![ip] = ip]
    BY KnownChange
  <1>3. Map!Learn(ip)
    BY <1>1, <1>2 DEF Map!Learn, Known, Inserting, Inserters
  <1>4. ip \in Map!Changed
    BY <1>1 DEF Map!Changed, Known
  <1> QED
    BY <1>3, <1>4 DEF Map!Next

LEMMA AsReplace ==
  ASSUME NEW ip \in Ips, NEW other \in Ips, Inserting > 1, ip # Target,
         Lookup(ip) # NoMac, Lookup(ip)' = NoMac,
         other # ip => Lookup(other)' = other,
         \A q \in Ips \ {ip, other} : Lookup(q)' = Lookup(q),
         Inserting' = Inserting, loose' = loose
  PROVE  Map!Next
  <1>1. Known[ip] # NoMac /\ Known'[ip] # Known[ip]
    BY KnownIs
  <1>2. Known' = [Known EXCEPT ![ip] = NoMac, ![other] = IF other = ip THEN NoMac ELSE other]
    <2> DEFINE next == [Known EXCEPT ![ip] = NoMac,
                                     ![other] = IF other = ip THEN NoMac ELSE other]
    <2>1. ASSUME NEW q \in Ips PROVE Known'[q] = next[q]
      BY DEF Known
    <2>2. Known' = [q \in Ips |-> Known'[q]] /\ next = [q \in Ips |-> next[q]]
      BY DEF Known
    <2> HIDE DEF next
    <2>3. Known' = next
      BY <2>1, <2>2
    <2> QED
      BY <2>3 DEF next
  <1>3. Map!Replace(ip, other)
    BY <1>1, <1>2 DEF Map!Replace, Known, Inserting, Inserters
  <1>4. ip \in Map!Changed
    BY <1>1 DEF Map!Changed, Known
  <1> QED
    BY <1>3, <1>4 DEF Map!Next

LEMMA AsForget ==
  ASSUME NEW ip \in Ips, ip # Target, Lookup(ip) # NoMac,
         NEW mac \in {NoMac, ip}, Learned(ip, mac), Lookup(ip) # mac,
         loose' = loose \/ loose' = (loose \/ Inserting > 0), Inserting' = Inserting
  PROVE  Map!Next
  <1>1. Known[ip] # NoMac /\ Known'[ip] # Known[ip]
    BY KnownIs DEF Learned
  <1>2. Known' = [Known EXCEPT ![ip] = mac]
    BY KnownChange
  <1>a. loose' \in {loose, loose \/ Inserting > 0}
    OBVIOUS
  <1>3. Map!Forget(ip)
    BY <1>1, <1>2, <1>a DEF Map!Forget, Known, Inserting, Inserters
  <1>4. ip \in Map!Changed
    BY <1>1 DEF Map!Changed, Known
  <1> QED
    BY <1>3, <1>4 DEF Map!Next

LEMMA AsChange ==
  ASSUME NEW ip \in Ips, Lookup(ip) # NoMac, NEW mac \in Macs, Learned(ip, mac),
         Lookup(ip) # mac, Inserting' = Inserting, loose' = loose
  PROVE  Map!Next
  <1>1. Known[ip] # NoMac /\ Known'[ip] # Known[ip]
    BY KnownIs DEF Learned
  <1>2. Known' = [Known EXCEPT ![ip] = mac]
    BY KnownChange
  <1>3. Map!Change(ip, mac)
    BY <1>1, <1>2 DEF Map!Change, Known, Inserting, Inserters
  <1>4. ip \in Map!Changed
    BY <1>1 DEF Map!Changed, Known
  <1> QED
    BY <1>3, <1>4 DEF Map!Next, Map!Macs, Macs

LEMMA AsOverlap ==
  ASSUME Inserting > 0, loose' = TRUE, \A q \in Ips : Lookup(q)' = Lookup(q),
         Inserting' = Inserting
  PROVE  Map!Next
  BY KnownSame DEF Map!Next, Map!Overlap, Known, Inserting, Inserters

LEMMA AsAstray ==
  ASSUME loose, \A q \in Ips : Lookup(q)' \in Macs \cup {NoMac}, Lookup(Target)' = Lookup(Target),
         Inserting' = Inserting, loose' = loose
  PROVE  Map!Next
  <1>1. Known' \in [Ips -> Macs \cup {NoMac}]
    BY DEF Known
  <1>2. Known'[Target] = Known[Target]
    BY KnownIs, TableAssumption
  <1> QED
    BY <1>1, <1>2 DEF Map!Next, Map!Astray, Map!Macs, Macs, Known, Inserting, Inserters

LEMMA AsBegin ==
  ASSUME \A q \in Ips : Lookup(q)' = Lookup(q), Inserting' = Inserting + 1, loose' = loose
  PROVE  Map!Next
  BY KnownSame DEF Map!Next, Map!Begin, Known, Inserting, Inserters

LEMMA AsEnd ==
  ASSUME \A q \in Ips : Lookup(q)' = Lookup(q), Inserting > 0, Inserting' = Inserting - 1,
         loose' = loose
  PROVE  Map!Next
  BY KnownSame DEF Map!Next, Map!End, Known, Inserting, Inserters

LEMMA AsStutter ==
  ASSUME \A q \in Ips : Lookup(q)' = Lookup(q), Inserting' = Inserting, loose' = loose
  PROVE  UNCHANGED mapVars
  BY KnownSame DEF mapVars

LEMMA CountInserters ==
  /\ Inserting \in Nat
  /\ \A t \in Inserters : Inserting > 0 /\ \A u \in Inserters \ {t} : Inserting > 1
  /\ Inserters' = Inserters => Inserting' = Inserting
  /\ \A t \in Threads \ Inserters : Inserters' = Inserters \cup {t} => Inserting' = Inserting + 1
  /\ \A t \in Inserters : Inserters' = Inserters \ {t} => Inserting' = Inserting - 1
  <1>1. IsFiniteSet(Threads) /\ IsFiniteSet({})
    <2>1. IsFiniteSet({}) /\ IsFiniteSet({} \cup {Main}) /\ IsFiniteSet({Main} \cup {Handout})
      BY FS_EmptySet, FS_AddElement
    <2>2. Threads = {Main} \cup {Handout}
      BY ResolveAssumption
    <2> QED
      BY <2>1, <2>2
  <1>2. IsFiniteSet(Inserters) /\ Inserters \subseteq Threads
    BY <1>1, FS_Subset DEF Inserters
  <1>3. Inserting \in Nat
    BY <1>2, FS_CardinalityType DEF Inserting
  <1>4. ASSUME NEW t \in Threads \ Inserters, Inserters' = Inserters \cup {t}
        PROVE  Inserting' = Inserting + 1
    BY <1>2, <1>4, FS_AddElement DEF Inserting
  <1>5. ASSUME NEW t \in Inserters
        PROVE  /\ IsFiniteSet(Inserters \ {t}) /\ Cardinality(Inserters \ {t}) \in Nat
               /\ Cardinality(Inserters \ {t}) = Inserting - 1
    BY <1>2, FS_RemoveElement, FS_CardinalityType DEF Inserting
  <1>6. ASSUME NEW t \in Inserters, NEW u \in Inserters \ {t} PROVE Inserting > 1
    <2> DEFINE one == Inserters \ {t}
               two == one \ {u}
    <2>1. /\ IsFiniteSet(one) /\ Cardinality(one) \in Nat
          /\ Cardinality(one) = Inserting - 1 /\ u \in one
      BY <1>5
    <2> HIDE DEF one
    <2>2. IsFiniteSet(two) /\ Cardinality(two) = Cardinality(one) - 1
      BY <2>1, FS_RemoveElement
    <2>3. Cardinality(two) \in Nat
      BY <2>2, FS_CardinalityType
    <2> HIDE DEF two
    <2> QED
      BY <1>3, <2>1, <2>2, <2>3
  <1>7. ASSUME NEW t \in Inserters PROVE Inserting > 0
    <2> DEFINE one == Inserters \ {t}
    <2>1. Cardinality(one) \in Nat /\ Cardinality(one) = Inserting - 1
      BY <1>5
    <2> HIDE DEF one
    <2> QED
      BY <1>3, <2>1
  <1>8. ASSUME NEW t \in Inserters, Inserters' = Inserters \ {t} PROVE Inserting' = Inserting - 1
    BY <1>5, <1>8 DEF Inserting
  <1> QED
    BY <1>3, <1>4, <1>6, <1>7, <1>8 DEF Inserting

MapStep == Map!Next \/ UNCHANGED mapVars

LEMMA LearnMap ==
  ASSUME MapInv, NEW t \in Threads, NEW ip \in Ips, Learn(t, ip)
  PROVE  MapInv' /\ MapStep
  <1>1. TableInv /\ TableInv' /\ UNCHANGED <<tail, edits, loose>> /\ insertion[t] = NoInsertion
    BY LearnTable DEF MapInv, Learn
  <1>2. \/ UNCHANGED <<node, allocated, insertion>>
        \/ \E n \in Nodes \ allocated :
             /\ node' = [node EXCEPT ![n] = [ip |-> ip, mac |-> ip, next |-> Null]]
             /\ allocated' = allocated \cup {n}
             /\ insertion' = [insertion EXCEPT ![t] = [at |-> "check", node |-> n]]
    BY DEF Learn, Malloc
  <1>3. /\ \A n \in allocated : node'[n] = node[n]
        /\ allocated \subseteq allocated'
        /\ \A u \in Threads : u # t => insertion'[u] = insertion[u]
        /\ \/ insertion'[t] = insertion[t]
           \/ /\ insertion'[t].at = "check"
              /\ insertion'[t].node \notin allocated
              /\ node'[insertion'[t].node].mac = node'[insertion'[t].node].ip
              /\ node'[insertion'[t].node].next = Null
    <2>1. CASE UNCHANGED <<node, allocated, insertion>>
      BY <2>1
    <2>2. CASE \E n \in Nodes \ allocated :
             /\ node' = [node EXCEPT ![n] = [ip |-> ip, mac |-> ip, next |-> Null]]
             /\ allocated' = allocated \cup {n}
             /\ insertion' = [insertion EXCEPT ![t] = [at |-> "check", node |-> n]]
      BY <1>1, <2>2, ReachedFacts
    <2> QED
      BY <1>2, <2>1, <2>2
  <1>4. MapInv'
    <2>1. \A u \in Threads : Late(u)' => Late(u) /\ insertion'[u].node = insertion[u].node
      BY <1>3 DEF Late
    <2>2. \A u \in Threads : Late(u) => Late(u)' /\ insertion'[u].node = insertion[u].node
      BY <1>1, <1>3 DEF Late, NoInsertion
    <2>3. \A u \in Threads : Unlinked(u)' =>
           \/ Unlinked(u) /\ insertion'[u].node = insertion[u].node
           \/ /\ insertion'[u].node \notin allocated
              /\ node'[insertion'[u].node].mac = node'[insertion'[u].node].ip
              /\ node'[insertion'[u].node].next = Null
      BY <1>3 DEF Unlinked
    <2> QED
      BY <1>1, <1>3, <2>1, <2>2, <2>3, MapInvKept
  <1>5. \A q \in Ips : Lookup(q)' = Lookup(q)
    BY <1>1, <1>3, EntriesKept, ReachedFacts
  <1>6. Inserters' = Inserters
    BY <1>1, <1>3 DEF Inserters, NoInsertion
  <1> QED
    BY <1>1, <1>4, <1>5, <1>6, CountInserters, AsStutter DEF MapStep

LEMMA CheckMap ==
  ASSUME MapInv, NEW t \in Threads, InsertCheck(t)
  PROVE  MapInv' /\ MapStep
  <1>1. /\ TableInv /\ TableInv' /\ insertion[t].at = "check"
        /\ UNCHANGED <<node, allocated, tail, edits, loose>>
        /\ \/ insertion' = [insertion EXCEPT ![t] = [@ EXCEPT !.at = "link"]]
           \/ insertion' = [insertion EXCEPT ![t] = NoInsertion]
    BY CheckTable DEF MapInv, InsertCheck
  <1>2. /\ \A u \in Threads : u # t => insertion'[u] = insertion[u]
        /\ \/ insertion'[t].at = "link" /\ insertion'[t].node = insertion[t].node
           \/ insertion'[t].at = "none"
    BY <1>1, ReachedFacts DEF NoInsertion
  <1>3. MapInv'
    <2>1. \A u \in Threads : Late(u)' => Late(u) /\ insertion'[u].node = insertion[u].node
      BY <1>2 DEF Late
    <2>2. \A u \in Threads : Late(u) => Late(u)' /\ insertion'[u].node = insertion[u].node
      BY <1>1, <1>2 DEF Late
    <2>3. \A u \in Threads : Unlinked(u)' =>
           Unlinked(u) /\ insertion'[u].node = insertion[u].node
      BY <1>1, <1>2 DEF Unlinked
    <2> QED
      BY <1>1, <2>1, <2>2, <2>3, MapInvKept
  <1>4. \A q \in Ips : Lookup(q)' = Lookup(q)
    BY <1>1, EntriesKept
  <1>5. t \notin Inserters
    BY <1>1 DEF Inserters
  <1>6. Inserters' = Inserters \/ Inserters' = Inserters \cup {t}
    BY <1>1, <1>2 DEF Inserters
  <1> QED
    BY <1>1, <1>3, <1>4, <1>5, <1>6, CountInserters, AsStutter, AsBegin DEF MapStep

LEMMA TailMap ==
  ASSUME MapInv, NEW t \in Threads, InsertTail(t)
  PROVE  MapInv' /\ MapStep
  <1> DEFINE n == insertion[t].node
  <1>1. /\ TableInv /\ TableInv' /\ Late(t) /\ tail' = n
        /\ insertion' = [insertion EXCEPT ![t] = NoInsertion]
        /\ UNCHANGED <<node, allocated, edits, loose>>
    BY TailTable DEF MapInv, InsertTail, Late
  <1>2. /\ \A u \in Threads : u # t => insertion'[u] = insertion[u]
        /\ insertion'[t].at = "none"
    BY <1>1, ReachedFacts DEF NoInsertion
  <1>3. \A u \in Threads : (Unlinked(u)' <=> Unlinked(u)) /\ (Unlinked(u) => u # t)
    BY <1>1, <1>2 DEF Unlinked, Late
  <1>4. \A u \in Threads : Late(u)' <=> (Late(u) /\ u # t)
    BY <1>1, <1>2 DEF Late
  <1>5. /\ \A k \in Places : Walk'[k] = Walk[k]
        /\ \A m : Reached(m)' <=> Reached(m)
    BY <1>1, ListKept
  <1>6. \A u \in Threads : Pending(u)' <=> (Pending(u) /\ u # t)
    BY <1>2, <1>4, <1>5 DEF Pending, Reached
  <1>7. Reached(tail)' <=> Reached(n)
    BY <1>1, <1>5 DEF Reached
  <1> HIDE DEF n
  <1>8. FreshInv'
    BY <1>1, <1>2, <1>3 DEF MapInv, FreshInv
  <1>9. ASSUME ~ loose PROVE TailInv'
    <2>1. LateInv /\ PendingInv /\ LastInv /\ TwiceInv
      BY <1>9 DEF MapInv, TailInv
    <2>2. LateInv'
      BY <1>1, <1>2, <1>3, <1>4, <2>1 DEF LateInv
    <2>3. Reached(n) => Pending(t)
      BY <1>1 DEF Pending, n
    <2>4. PendingInv'
      <3> SUFFICES ASSUME NEW u \in Threads, Pending(u), u # t
                   PROVE  /\ node[insertion[u].node].next = Null
                          /\ ~ Reached(n)
                          /\ \A v \in Threads : Pending(v) => v = u
        BY <1>1, <1>2, <1>6, <1>7 DEF PendingInv
      <3> QED
        BY <2>1, <2>3 DEF PendingInv
    <2>5. ASSUME Reached(n) PROVE node[n].next = Null
      BY <2>1, <2>3, <2>5 DEF PendingInv, n
    <2>6. Attached' => Attached
      BY <1>6, <1>7, <2>3 DEF Attached
    <2>7. n \in allocated /\ \A u \in Threads : Unlinked(u) => insertion[u].node # n
      BY <1>1, <2>1 DEF LateInv, n
    <2>8. LastInv'
      <3>1. Reached(tail)' => node'[tail'].next = Null
        BY <1>1, <1>7, <2>5
      <3>2. Attached' =>
              /\ tail' \in allocated'
              /\ \A u \in Threads : Unlinked(u)' =>
                   insertion'[u].node # tail' /\ node'[insertion'[u].node].next = Null
        BY <1>1, <1>2, <1>3, <2>1, <2>6, <2>7 DEF LastInv
      <3> QED
        BY <3>1, <3>2 DEF LastInv
    <2>9. TwiceInv'
      BY <1>1, <1>5, <2>1 DEF TwiceInv
    <2> QED
      BY <2>2, <2>4, <2>8, <2>9 DEF TailInv
  <1>10. MapInv'
    BY <1>1, <1>8, <1>9 DEF MapInv
  <1>11. \A q \in Ips : Lookup(q)' = Lookup(q)
    BY <1>1, EntriesKept
  <1>12. t \in Inserters /\ Inserters' = Inserters \ {t}
    BY <1>1, <1>2 DEF Inserters, Late
  <1> QED
    BY <1>1, <1>10, <1>11, <1>12, CountInserters, AsEnd DEF MapStep

MacsLookedUp == TableInv => \A q : Lookup(q) \in Macs \cup {NoMac}

LEMMA LookupTyped ==
  /\ TableInv => \A q : Lookup(q) \in Macs \cup {NoMac}
  /\ TableInv' => \A q : Lookup(q)' \in Macs \cup {NoMac}
  <1>1. MacsLookedUp
    BY LookupIs DEF MacsLookedUp, TableInv, TableTypeOK
  <1>2. MacsLookedUp'
    BY <1>1, PTL
  <1> QED
    BY <1>1, <1>2 DEF MacsLookedUp

\* The target's entry is that of the first node.
TargetFirst == TableInv => FirstAt(Walk, node, Target, 0) /\ Lookup(Target) = node[First].mac

LEMMA TargetIsFirst ==
  /\ TableInv => FirstAt(Walk, node, Target, 0) /\ Lookup(Target) = node[First].mac
  /\ TableInv' => Lookup(Target)' = node'[First].mac
  <1>1. TargetFirst
    <2> SUFFICES ASSUME TableInv
                 PROVE  FirstAt(Walk, node, Target, 0) /\ Lookup(Target) = node[First].mac
      BY DEF TargetFirst
    <2>1. Walk[0] = First /\ First # Null /\ node[First].ip = Target
      BY ReachedFacts DEF TableInv, ListInv
    <2>2. 0 \in Places /\ \A j \in Places : ~ (j < 0)
      BY TableAssumption DEF Places
    <2>3. FirstAt(Walk, node, Target, 0)
      BY <2>1, <2>2 DEF FirstAt
    <2> QED
      BY <2>1, <2>3, EntryAt, LookupWasEntry
  <1>2. TargetFirst'
    BY <1>1, PTL
  <1> QED
    BY <1>1, <1>2 DEF TargetFirst

LEMMA PlaceIs ==
  ASSUME NEW ip, NEW k, FirstAt(Walk, node, ip, k)
  PROVE  Place(Walk, ip) = k
  <1> DEFINE places == {j \in 0 .. MaxNodes : Holds(Walk[j], ip)}
  <1>1. k \in places
    BY DEF FirstAt, Holds, Places
  <1>2. Earliest(places) \in places /\ Earliest(places) <= k
    BY <1>1, EarliestIs
  <1>3. ~ (Earliest(places) < k)
    BY <1>2 DEF FirstAt, Holds, Places
  <1>4. Earliest(places) = k
    BY <1>1, <1>2, <1>3
  <1> QED
    BY <1>4 DEF Place

LEMMA UpdateMap ==
  ASSUME MapInv, NEW t \in Threads, NEW ip \in Ips, NEW mac \in Macs, Update(t, ip, mac)
  PROVE  MapInv' /\ MapStep
  <1> DEFINE w == Walk
  <1>1. /\ TableInv /\ TableInv' /\ Lookup(ip) # NoMac
        /\ node' = [node EXCEPT ![Walk[Place(Walk, ip)]].mac = mac]
        /\ UNCHANGED <<allocated, tail, insertion, loose>>
    BY UpdateTable DEF MapInv, Update
  <1>2. PICK p \in Places : FirstAt(w, node, ip, p)
    BY <1>1, LookupWasEntry, EntryNone, EntryCases
  <1>3. node' = [node EXCEPT ![w[p]].mac = mac]
    BY <1>1, <1>2, PlaceIs
  <1>4. /\ p \in Places /\ w[p] # Null /\ node[w[p]].ip = ip
        /\ \A j \in Places : j < p /\ w[j] # Null => node[w[j]].ip # ip
    BY <1>2 DEF FirstAt
  <1>5. w[p] \in allocated /\ Reached(w[p]) /\ w[p] \in Nodes
    BY <1>1, <1>4, ReachedFacts
  <1>6. /\ \A n \in Nodes : node'[n].next = node[n].next /\ node'[n].ip = node[n].ip
        /\ \A n \in Nodes : n # w[p] => node'[n].mac = node[n].mac
        /\ node'[w[p]].mac = mac
    BY <1>1, <1>3, <1>5, ReachedFacts
  <1>7. \A k \in Places : Walk'[k] = w[k]
    BY <1>1, <1>6, ListKept, ReachedFacts
  <1>8. \A k \in Places : w[k] # Null => w[k] \in Nodes
    BY <1>1, ReachedFacts
  <1>9. \A i, j \in Places : i < j /\ w[j] # Null => w[i] # w[j]
    BY <1>1, WalkIsList DEF IsList
  <1>10. Learned(ip, mac)
    <2>1. FirstAt(Walk', node', ip, p)
      BY <1>4, <1>6, <1>7, <1>8 DEF FirstAt
    <2>2. Lookup(ip)' = mac
      BY <1>4, <1>6, <1>7, <2>1, EntryAt, LookupWasEntry
    <2>3. ASSUME NEW q \in Ips \ {ip} PROVE Lookup(q)' = Lookup(q)
      <3>1. CASE \A k \in Places : w[k] # Null => node[w[k]].ip # q
        <4>1. \A k \in Places : Walk'[k] # Null => node'[Walk'[k]].ip # q
          BY <1>6, <1>7, <1>8, <3>1
        <4> QED
          BY <3>1, <4>1, EntryNone, LookupWasEntry
      <3>2. ASSUME NEW k \in Places, FirstAt(w, node, q, k) PROVE Lookup(q)' = Lookup(q)
        <4>1. FirstAt(Walk', node', q, k)
          BY <1>6, <1>7, <1>8, <3>2 DEF FirstAt
        <4>2. node'[Walk'[k]].mac = node[w[k]].mac
          <5>1. w[k] # w[p] /\ w[k] # Null
            BY <1>4, <3>2 DEF FirstAt
          <5> QED
            BY <1>6, <1>7, <1>8, <5>1
        <4> QED
          BY <3>2, <4>1, <4>2, EntryAt, LookupWasEntry
      <3> QED
        BY <3>1, <3>2, EntryCases
    <2> QED
      BY <2>2, <2>3 DEF Learned
  <1> HIDE DEF w
  <1>11. \A u \in Threads : /\ Unlinked(u)' <=> Unlinked(u)
                            /\ Late(u)' <=> Late(u)
    BY <1>1 DEF Unlinked, Late
  <1>12. FreshInv'
    <2>1. \A u \in Threads : Unlinked(u) => insertion[u].node # w[p] /\ insertion[u].node \in Nodes
      BY <1>1, <1>5, ReachedFacts DEF TableInv, ListInv, Unlinked
    <2> QED
      BY <1>1, <1>6, <1>11, <2>1 DEF MapInv, FreshInv
  <1>13. ASSUME ~ loose PROVE TailInv'
    <2>1. LateInv /\ PendingInv /\ LastInv /\ TwiceInv
      BY <1>13 DEF MapInv, TailInv
    <2>2. LateInv' /\ PendingInv' /\ LastInv'
      BY <1>1, <1>6, <1>11, <2>1, LastKept, ReachedFacts
    <2>3. ASSUME NEW i \in Places, NEW j \in Places, i < j, w[i] # Null, w[j] # Null,
                 node'[w[i]].ip = node'[w[j]].ip
          PROVE  node'[w[j]].mac = node'[w[j]].ip
      <3>1. node[w[i]].ip = node[w[j]].ip
        BY <1>6, <1>8, <2>3
      <3>2. w[j] # w[p]
        <4> SUFFICES ASSUME w[j] = w[p] PROVE FALSE
          OBVIOUS
        <4>1. ~ (j < p) /\ ~ (p < j)
          BY <1>4, <1>9, <2>3
        <4>2. i < p
          BY <1>4, <2>3, <4>1 DEF Places
        <4> QED
          BY <1>4, <2>3, <3>1, <4>2
      <3>3. node[w[j]].mac = node[w[j]].ip
        BY <2>1, <2>3, <3>1 DEF TwiceInv, w
      <3> QED
        BY <1>6, <1>8, <2>3, <3>2, <3>3
    <2>4. TwiceInv'
      BY <1>7, <2>3 DEF TwiceInv
    <2> QED
      BY <2>2, <2>4 DEF TailInv
  <1>14. MapInv'
    BY <1>1, <1>12, <1>13 DEF MapInv
  <1>15. Inserting' = Inserting
    BY <1>1 DEF Inserting, Inserters
  <1>16. MapStep
    <2>1. CASE Lookup(ip) = mac
      <3>1. \A q \in Ips : Lookup(q)' = Lookup(q)
        BY <1>10, <2>1 DEF Learned
      <3> QED
        BY <1>1, <1>15, <3>1, AsStutter DEF MapStep
    <2>2. CASE Lookup(ip) # mac
      BY <1>1, <1>10, <1>15, <2>2, AsChange DEF MapStep
    <2> QED
      BY <2>1, <2>2
  <1> QED
    BY <1>14, <1>16

\* The entries when the node at place k is skipped.
LEMMA SkippedEntry ==
  ASSUME NEW w, NEW nd, NEW v, NEW md, NEW q,
         NEW k \in 1 .. MaxNodes, w[k] # Null, w[MaxNodes] = Null,
         \A j \in Places : v[j] = IF j < k THEN w[j] ELSE IF j < MaxNodes THEN w[j + 1] ELSE Null,
         \A j \in Places : w[j] # Null => md[w[j]].ip = nd[w[j]].ip /\ md[w[j]].mac = nd[w[j]].mac
  PROVE  \/ Entry(v, md, q) = Entry(w, nd, q)
         \/ /\ FirstAt(w, nd, q, k)
            /\ \/ Entry(v, md, q) = NoMac
               \/ \E j \in Places : /\ k < j /\ w[j] # Null /\ nd[w[j]].ip = q
                                    /\ Entry(v, md, q) = nd[w[j]].mac
  <1>1. MaxNodes \in Nat /\ k \in Places /\ k < MaxNodes
    BY TableAssumption DEF Places
  <1>2. CASE \A j \in Places : w[j] # Null => nd[w[j]].ip # q
    <2>1. ASSUME NEW j \in Places, v[j] # Null PROVE md[v[j]].ip # q
      <3>1. CASE j < k
        BY <1>2, <2>1, <3>1
      <3>2. CASE ~ (j < k)
        <4>1. j + 1 \in Places /\ v[j] = w[j + 1]
          BY <1>1, <2>1, <3>2 DEF Places
        <4> QED
          BY <1>2, <2>1, <4>1
      <3> QED
        BY <3>1, <3>2
    <2> QED
      BY <1>2, <2>1, EntryNone
  <1>3. ASSUME NEW f \in Places, FirstAt(w, nd, q, f), f < k
        PROVE  Entry(v, md, q) = Entry(w, nd, q)
    <2>1. v[f] = w[f] /\ w[f] # Null
      BY <1>3 DEF FirstAt
    <2>2. \A j \in Places : j < f => v[j] = w[j]
      BY <1>1, <1>3 DEF Places
    <2>3. FirstAt(v, md, q, f)
      BY <1>3, <2>1, <2>2 DEF FirstAt
    <2> QED
      BY <1>3, <2>1, <2>3, EntryAt
  <1>4. ASSUME NEW f \in Places, FirstAt(w, nd, q, f), k < f
        PROVE  Entry(v, md, q) = Entry(w, nd, q)
    <2>1. f - 1 \in Places /\ v[f - 1] = w[f] /\ w[f] # Null
      <3>1. f - 1 \in Places /\ ~ (f - 1 < k) /\ f - 1 < MaxNodes /\ (f - 1) + 1 = f
        BY <1>1, <1>4 DEF Places
      <3>2. v[f - 1] = w[(f - 1) + 1]
        BY <3>1
      <3> QED
        BY <1>4, <3>1, <3>2 DEF FirstAt
    <2>2. ASSUME NEW j \in Places, j < f - 1, v[j] # Null
          PROVE  md[v[j]].ip # q
      <3>1. CASE j < k
        <4>1. v[j] = w[j] /\ j < f
          BY <1>1, <1>4, <2>2, <3>1 DEF Places
        <4> QED
          BY <1>4, <2>2, <4>1 DEF FirstAt
      <3>2. CASE ~ (j < k)
        <4>1. j + 1 \in Places /\ j + 1 < f /\ v[j] = w[j + 1]
          BY <1>1, <1>4, <2>2, <3>2 DEF Places
        <4> QED
          BY <1>4, <2>2, <4>1 DEF FirstAt
      <3> QED
        BY <3>1, <3>2
    <2>3. FirstAt(v, md, q, f - 1)
      BY <1>4, <2>1, <2>2 DEF FirstAt
    <2> QED
      BY <1>4, <2>1, <2>3, EntryAt
  <1>5. CASE FirstAt(w, nd, q, k)
    <2>1. CASE \A j \in Places : v[j] # Null => md[v[j]].ip # q
      BY <1>5, <2>1, EntryNone
    <2>2. ASSUME NEW f \in Places, FirstAt(v, md, q, f)
          PROVE  \E j \in Places : /\ k < j /\ w[j] # Null /\ nd[w[j]].ip = q
                                   /\ Entry(v, md, q) = nd[w[j]].mac
      <3>1. v[f] # Null /\ md[v[f]].ip = q /\ Entry(v, md, q) = md[v[f]].mac
        BY <2>2, EntryAt DEF FirstAt
      <3>2. ~ (f < k)
        BY <1>5, <2>2, <3>1 DEF FirstAt
      <3>3. f + 1 \in Places /\ v[f] = w[f + 1] /\ k < f + 1
        BY <1>1, <2>2, <3>1, <3>2 DEF Places
      <3> QED
        BY <3>1, <3>3
    <2> QED
      BY <1>5, <2>1, <2>2, EntryCases
  <1>6. ASSUME NEW f \in Places, FirstAt(w, nd, q, f)
        PROVE  f < k \/ k < f \/ FirstAt(w, nd, q, k)
    <2>1. f < k \/ k < f \/ f = k
      BY <1>1 DEF Places
    <2> QED
      BY <1>6, <2>1
  <1> QED
    BY <1>2, <1>3, <1>4, <1>5, <1>6, EntryCases

TailStays == TableInv /\ Reached(tail) => tail \in allocated

LEMMA ReachedTailNext == TableInv' /\ Reached(tail)' => tail' \in allocated'
  <1>1. TailStays
    BY ReachedFacts DEF TailStays
  <1>2. TailStays'
    BY <1>1, PTL
  <1> QED
    BY <1>2 DEF TailStays

LEMMA DeleteMap ==
  ASSUME MapInv, NEW t \in Threads, NEW ip \in Ips, NEW mac \in Macs, Delete(t, ip, mac)
  PROVE  MapInv' /\ MapStep
  <1> DEFINE places == {k \in 1 .. MaxNodes : Holds(Walk[k], ip) /\ node[Walk[k]].mac = mac}
             w == Walk
  <1>1. /\ TableInv /\ TableInv' /\ places # {}
        /\ node' = [node EXCEPT ![w[Earliest(places) - 1]].next = node[w[Earliest(places)]].next]
        /\ allocated' = allocated \ {w[Earliest(places)]}
        /\ loose' = (loose \/ \E u \in Threads : insertion[u].at = "tail")
        /\ UNCHANGED <<tail, insertion>>
    BY DeleteTable DEF MapInv, Delete
  <1>a. Earliest(places) \in places
    BY <1>1, EarliestIs
  <1>2. PICK k \in places : k = Earliest(places)
    BY <1>a
  <1>3. k \in 1 .. MaxNodes /\ w[k] # Null /\ node[w[k]].ip = ip
    BY <1>2 DEF Holds
  <1> HIDE DEF places
  <1>4. /\ node' = [node EXCEPT ![w[k - 1]].next = node[w[k]].next]
        /\ allocated' = allocated \ {w[k]}
    BY <1>1, <1>2
  <1>5. k \in Places /\ k - 1 \in Places /\ MaxNodes \in Nat
    BY <1>3, TableAssumption DEF Places
  <1>6. /\ IsList(w, node) /\ IsWalk(Walk', node')
        /\ w[MaxNodes] = Null
        /\ \A i, j \in Places : i <= j /\ w[j] # Null => w[i] # Null
        /\ \A i, j \in Places : i < j /\ w[j] # Null => w[i] # w[j]
    BY <1>1, WalkWasList DEF IsList
  <1>7. /\ \A j \in Places : w[j] # Null => w[j] \in Nodes /\ w[j] \in allocated /\ Reached(w[j])
        /\ w[k - 1] # Null /\ node[w[k - 1]].next = w[k]
        /\ w[0] = First
    <2>1. w[k - 1] # Null
      BY <1>3, <1>5, <1>6
    <2>2. node[w[k - 1]].next = w[k]
      BY <1>3, <1>6, <2>1 DEF IsList, IsWalk
    <2> QED
      BY <1>1, <2>1, <2>2, ReachedFacts
  <1>8. /\ node'[w[k - 1]].next = node[w[k]].next
        /\ \A n \in Nodes : n # w[k - 1] => node'[n].next = node[n].next
        /\ \A n \in Nodes : node'[n].ip = node[n].ip /\ node'[n].mac = node[n].mac
    BY <1>1, <1>4, <1>5, <1>7, ReachedFacts
  <1>9. \A j \in Places : w[j] # Null /\ j # k - 1 => node'[w[j]].next = node[w[j]].next
    <2> SUFFICES ASSUME NEW j \in Places, w[j] # Null, j # k - 1 PROVE w[j] # w[k - 1]
      BY <1>7, <1>8
    <2>1. j < k - 1 \/ k - 1 < j
      BY <1>5 DEF Places
    <2> QED
      BY <1>5, <1>6, <1>7, <2>1
  <1> HIDE DEF w
  <1>10. \A j \in Places :
            Walk'[j] = IF j < k THEN w[j] ELSE IF j < MaxNodes THEN w[j + 1] ELSE Null
    BY <1>3, <1>6, <1>8, <1>9, SkippedList
  <1>11. \A j \in Places : w[j] # Null =>
            node'[w[j]].ip = node[w[j]].ip /\ node'[w[j]].mac = node[w[j]].mac
    BY <1>7, <1>8
  <1>12. /\ \A u \in Threads : (Unlinked(u)' <=> Unlinked(u)) /\ (Late(u)' <=> Late(u))
         /\ Inserting' = Inserting
    BY <1>1 DEF Unlinked, Late, Inserting, Inserters
  <1>13. FreshInv'
    <2>1. \A u \in Threads : Unlinked(u) => insertion[u].node \in Nodes
      BY <1>1 DEF TableInv, ListInv, Unlinked
    <2> QED
      BY <1>1, <1>8, <1>12, <2>1 DEF MapInv, FreshInv
  \* What is met after the step was met before.
  <1>14. \A j \in Places : Walk'[j] # Null =>
            \E i \in Places : Walk'[j] = w[i] /\ j <= i /\ i <= j + 1 /\ (i = j <=> j < k)
    <2> SUFFICES ASSUME NEW j \in Places, Walk'[j] # Null
                 PROVE \E i \in Places : Walk'[j] = w[i] /\ j <= i /\ i <= j + 1 /\ (i = j <=> j < k)
      OBVIOUS
    <2>1. CASE j < k
      <3>1. Walk'[j] = w[j] /\ j <= j /\ j <= j + 1
        BY <1>10, <2>1 DEF Places
      <3> QED
        BY <2>1, <3>1
    <2>2. CASE ~ (j < k)
      <3>1. j < MaxNodes /\ Walk'[j] = w[j + 1]
        BY <1>10, <2>2
      <3>2. j + 1 \in Places /\ j <= j + 1 /\ j + 1 <= j + 1 /\ j + 1 # j
        BY <1>5, <3>1 DEF Places
      <3> QED
        BY <2>2, <3>1, <3>2
    <2> QED
      BY <2>1, <2>2
  <1>15. \A n : Reached(n)' => Reached(n)
    BY <1>14 DEF Reached, w
  <1>16. ASSUME ~ loose' PROVE TailInv'
    <2>1. ~ loose /\ \A u \in Threads : ~ Late(u)
      BY <1>1, <1>16 DEF Late
    <2>2. LateInv /\ PendingInv /\ LastInv /\ TwiceInv
      BY <2>1 DEF MapInv, TailInv
    <2>3. LateInv' /\ PendingInv'
      BY <1>12, <2>1 DEF LateInv, PendingInv, Pending
    <2>4. Attached' => Reached(tail)' /\ Reached(tail)
      <3>1. \A u \in Threads : ~ Pending(u)'
        BY <1>12, <2>1 DEF Pending
      <3>2. Reached(tail)' => Reached(tail)
        BY <1>1, <1>14 DEF Reached, w
      <3> QED
        BY <3>1, <3>2 DEF Attached
    <2>5. ASSUME Reached(tail)
          PROVE  /\ node[tail].next = Null /\ tail # w[k - 1] /\ tail \in Nodes
                 /\ Attached
      BY <1>1, <1>3, <1>7, <2>1, <2>2, <2>5, ReachedFacts DEF LastInv, Attached
    <2>6. ASSUME Reached(tail)', Reached(tail)
          PROVE  tail' \in allocated' /\ node'[tail'].next = Null
      <3>1. tail' \in allocated'
        BY <1>1, <2>6, ReachedTailNext
      <3> QED
        BY <1>1, <1>8, <2>5, <2>6, <3>1
    <2>7. ASSUME Reached(tail), NEW u \in Threads, Unlinked(u)
          PROVE  insertion[u].node # tail /\ node'[insertion[u].node].next = Null
      <3>1. /\ insertion[u].node # tail /\ node[insertion[u].node].next = Null
            /\ insertion[u].node \in Nodes /\ ~ Reached(insertion[u].node)
        BY <1>1, <2>2, <2>5, <2>7, ReachedFacts DEF LastInv, TableInv, ListInv, Unlinked
      <3>2. insertion[u].node # w[k - 1]
        BY <1>5, <1>7, <3>1
      <3> QED
        BY <1>8, <3>1, <3>2
    <2>8. LastInv'
      BY <1>1, <1>12, <2>4, <2>6, <2>7 DEF LastInv, Attached
    <2>9. TwiceInv'
      <3> SUFFICES ASSUME NEW a \in Places, NEW b \in Places, a < b,
                          Walk'[a] # Null, Walk'[b] # Null,
                          node'[Walk'[a]].ip = node'[Walk'[b]].ip
                   PROVE  node'[Walk'[b]].mac = node'[Walk'[b]].ip
        BY DEF TwiceInv
      <3>1. PICK i \in Places : Walk'[a] = w[i] /\ a <= i /\ i <= a + 1 /\ (i = a <=> a < k)
        BY <1>14
      <3>2. PICK j \in Places : Walk'[b] = w[j] /\ b <= j /\ j <= b + 1 /\ (j = b <=> b < k)
        BY <1>14
      <3>3. i < j
        BY <1>5, <3>1, <3>2 DEF Places
      <3> QED
        BY <1>11, <2>2, <3>1, <3>2, <3>3 DEF TwiceInv, w
    <2> QED
      BY <2>2, <2>3, <2>8, <2>9 DEF TailInv
  <1>17. MapInv'
    BY <1>1, <1>13, <1>16 DEF MapInv
  <1>18. ASSUME NEW q
         PROVE  \/ Lookup(q)' = Lookup(q)
                \/ /\ FirstAt(w, node, q, k)
                   /\ \/ Lookup(q)' = NoMac
                      \/ \E j \in Places : /\ k < j /\ w[j] # Null /\ node[w[j]].ip = q
                                           /\ Lookup(q)' = node[w[j]].mac
    BY <1>3, <1>6, <1>10, <1>11, SkippedEntry, LookupWasEntry DEF w
  <1>19. \A q : q # ip => Lookup(q)' = Lookup(q)
    BY <1>3, <1>18 DEF FirstAt
  <1>20. Lookup(Target)' = Lookup(Target)
    <2>1. First \in Nodes
      BY <1>1, ReachedFacts
    <2> QED
      BY <1>1, <1>8, <2>1, TargetIsFirst
  <1>21. CASE loose
    <2>1. loose' = loose
      BY <1>1, <1>21
    <2>2. \A q \in Ips : Lookup(q)' \in Macs \cup {NoMac}
      BY <1>1, LookupTyped
    <2>3. MapStep
      BY <1>12, <1>20, <1>21, <2>1, <2>2, AsAstray DEF MapStep
    <2> QED
      BY <1>17, <2>3
  <1>22. CASE ~ loose
    <2>1. loose' = loose \/ (loose' = TRUE /\ Inserting > 0)
      <3>1. CASE \E u \in Threads : insertion[u].at = "tail"
        <4>1. \E u \in Threads : u \in Inserters
          BY <3>1 DEF Inserters
        <4>2. Inserting > 0
          BY <4>1, CountInserters
        <4> QED
          BY <1>1, <3>1, <4>2
      <3>2. CASE ~ \E u \in Threads : insertion[u].at = "tail"
        <4>1. loose \in BOOLEAN
          BY <1>1, ReachedFacts
        <4> QED
          BY <1>1, <1>22, <3>2, <4>1
      <3> QED
        BY <3>1, <3>2
    <2>2. CASE Lookup(ip)' = Lookup(ip)
      <3>1. \A q \in Ips : Lookup(q)' = Lookup(q)
        BY <1>19, <2>2
      <3> QED
        BY <1>12, <1>17, <2>1, <3>1, AsStutter, AsOverlap DEF MapStep
    <2>3. CASE Lookup(ip)' # Lookup(ip)
      <3>1. FirstAt(w, node, ip, k)
        BY <1>18, <2>3
      <3>2. Lookup(ip) = node[w[k]].mac /\ node[w[k]].mac \in Macs
        BY <1>1, <1>3, <1>5, <1>7, <3>1, EntryAt, LookupWasEntry, ReachedFacts DEF w
      <3>3. Lookup(ip) # NoMac
        BY <3>2, TableAssumption DEF Macs
      <3>4. ip # Target
        BY <1>20, <2>3
      <3>5. Lookup(ip)' \in {NoMac, ip}
        <4>1. ASSUME NEW j \in Places, k < j, w[j] # Null, node[w[j]].ip = ip
              PROVE  node[w[j]].mac = ip
          <5>1. TwiceInv
            BY <1>22 DEF MapInv, TailInv
          <5> QED
            BY <1>3, <1>5, <4>1, <5>1 DEF TwiceInv, w
        <4> QED
          BY <1>18, <2>3, <4>1
      <3>6. Learned(ip, Lookup(ip)')
        BY <1>19 DEF Learned
      <3>7. loose' = loose \/ loose' = (loose \/ Inserting > 0)
        BY <2>1
      <3>8. MapStep
        BY <1>12, <2>3, <3>3, <3>4, <3>5, <3>6, <3>7, AsForget DEF MapStep
      <3> QED
        BY <1>17, <3>8
    <2> QED
      BY <2>2, <2>3
  <1>23. loose \in BOOLEAN
    BY <1>1, ReachedFacts
  <1> QED
    BY <1>21, <1>22, <1>23

\* An address has a node no later than place m.
Early(w, nd, m, q) == \E j \in Places : j <= m /\ w[j] # Null /\ nd[w[j]].ip = q

\* The node at place m gets the new successor n: what came behind it, one node
\* at most, is cut off.
Linking(w, nd, v, md, m, n) ==
  /\ n # Null /\ m \in Places /\ m < MaxNodes /\ w[m] # Null
  /\ \A i, j \in Places : i <= j /\ w[j] # Null => w[i] # Null
  /\ \A j \in Places : j > m + 1 => w[j] = Null
  /\ \A j \in Places : v[j] = IF j <= m THEN w[j] ELSE IF j = m + 1 THEN n ELSE Null
  /\ \A j \in Places : w[j] # Null => md[w[j]].ip = nd[w[j]].ip /\ md[w[j]].mac = nd[w[j]].mac

LEMMA LinkedEntry ==
  ASSUME NEW w, NEW nd, NEW v, NEW md, NEW m, NEW n, NEW q, Linking(w, nd, v, md, m, n)
  PROVE  /\ Early(w, nd, m, q) => Entry(v, md, q) = Entry(w, nd, q)
         /\ ~ Early(w, nd, m, q) =>
              /\ Entry(v, md, q) = IF md[n].ip = q THEN md[n].mac ELSE NoMac
              /\ Entry(w, nd, q) = IF w[m + 1] # Null /\ nd[w[m + 1]].ip = q
                                     THEN nd[w[m + 1]].mac ELSE NoMac
  <1> USE DEF Linking
  <1>1. MaxNodes \in Nat /\ m + 1 \in Places /\ m \in Nat
    BY TableAssumption DEF Places
  <1>2. ASSUME Early(w, nd, m, q)
        PROVE  Entry(v, md, q) = Entry(w, nd, q)
    <2>1. PICK j \in Places : j <= m /\ w[j] # Null /\ nd[w[j]].ip = q
      BY <1>2 DEF Early
    <2>2. PICK f \in Places : FirstAt(w, nd, q, f)
      BY <2>1, EntryCases
    <2>3. f <= m /\ w[f] # Null
      <3>1. ~ (j < f)
        BY <2>1, <2>2 DEF FirstAt
      <3> QED
        BY <1>1, <2>1, <2>2, <3>1 DEF FirstAt, Places
    <2>4. v[f] = w[f] /\ \A i \in Places : i < f => v[i] = w[i]
      BY <1>1, <2>3 DEF Places
    <2>5. FirstAt(v, md, q, f)
      BY <2>2, <2>4 DEF FirstAt
    <2> QED
      BY <2>2, <2>3, <2>4, <2>5, EntryAt
  <1>3. ASSUME ~ Early(w, nd, m, q)
        PROVE  Entry(v, md, q) = IF md[n].ip = q THEN md[n].mac ELSE NoMac
    <2>1. ASSUME NEW j \in Places, j <= m PROVE v[j] = w[j] /\ w[j] # Null /\ md[v[j]].ip # q
      <3>1. v[j] = w[j] /\ w[j] # Null
        BY <2>1
      <3>2. nd[w[j]].ip # q
        BY <1>3, <2>1, <3>1 DEF Early
      <3> QED
        BY <3>1, <3>2
    <2>2. v[m + 1] = n /\ \A j \in Places : j > m + 1 => v[j] = Null
      BY <1>1 DEF Places
    <2>3. \A j \in Places : j <= m \/ j = m + 1 \/ j > m + 1
      BY <1>1 DEF Places
    <2>4. CASE md[n].ip = q
      <3>1. FirstAt(v, md, q, m + 1)
        <4>1. \A j \in Places : j < m + 1 => j <= m
          BY <1>1 DEF Places
        <4> QED
          BY <1>1, <2>1, <2>2, <2>4, <4>1 DEF FirstAt
      <3> QED
        BY <2>2, <2>4, <3>1, EntryAt
    <2>5. CASE md[n].ip # q
      <3>1. \A j \in Places : v[j] # Null => md[v[j]].ip # q
        BY <2>1, <2>2, <2>3, <2>5
      <3> QED
        BY <2>5, <3>1, EntryNone
    <2> QED
      BY <2>4, <2>5
  <1>4. ASSUME ~ Early(w, nd, m, q)
        PROVE  Entry(w, nd, q) = IF w[m + 1] # Null /\ nd[w[m + 1]].ip = q
                                   THEN nd[w[m + 1]].mac ELSE NoMac
    <2>1. \A j \in Places : j <= m /\ w[j] # Null => nd[w[j]].ip # q
      BY <1>4 DEF Early
    <2>2. \A j \in Places : j <= m \/ j = m + 1 \/ j > m + 1
      BY <1>1 DEF Places
    <2>3. CASE w[m + 1] # Null /\ nd[w[m + 1]].ip = q
      <3>1. FirstAt(w, nd, q, m + 1)
        <4>1. \A j \in Places : j < m + 1 => j <= m
          BY <1>1 DEF Places
        <4> QED
          BY <1>1, <2>1, <2>3, <4>1 DEF FirstAt
      <3> QED
        BY <2>3, <3>1, EntryAt
    <2>4. CASE ~ (w[m + 1] # Null /\ nd[w[m + 1]].ip = q)
      <3>1. \A j \in Places : w[j] # Null => nd[w[j]].ip # q
        BY <2>1, <2>2, <2>4
      <3> QED
        BY <2>4, <3>1, EntryNone
    <2> QED
      BY <2>3, <2>4
  <1> QED
    BY <1>2, <1>3, <1>4

\* What InsertLink does to the nodes and to the insertions.
LEMMA LinkFacts ==
  ASSUME MapInv, NEW t \in Threads, InsertLink(t)
  PROVE  LET n == insertion[t].node IN
         /\ TableInv /\ TableInv' /\ Unlinked(t) /\ n \in allocated /\ n \in Nodes /\ n # Null
         /\ ~ Reached(n) /\ node[n].mac = node[n].ip
         /\ UNCHANGED <<allocated, tail, edits, loose>>
         /\ node'[tail].next = n
         /\ \A x \in Nodes : x # tail => node'[x].next = node[x].next
         /\ \A x \in Nodes : node'[x].ip = node[x].ip /\ node'[x].mac = node[x].mac
         /\ \A u \in Threads : insertion'[u].node = insertion[u].node
         /\ \A u \in Threads : /\ Unlinked(u)' <=> Unlinked(u) /\ u # t
                               /\ Late(u)' <=> Late(u) \/ u = t
         /\ ~ Late(t) /\ t \in Inserters /\ Inserting' = Inserting
         /\ \A u \in Threads : Unlinked(u) => insertion[u].node \in Nodes
         /\ \A u \in Threads \ {t} : Unlinked(u) => insertion[u].node # n
         /\ tail \in Nodes
  <1> DEFINE n == insertion[t].node
  <1>1. /\ TableInv /\ TableInv' /\ insertion[t].at = "link"
        /\ node' = [node EXCEPT ![tail].next = n]
        /\ insertion' = [insertion EXCEPT ![t].at = "tail"]
        /\ UNCHANGED <<allocated, tail, edits, loose>>
    BY LinkTable DEF MapInv, InsertLink
  <1>2. /\ Unlinked(t) /\ ~ Reached(n) /\ n # Null /\ n \in Nodes /\ n \in allocated
        /\ node[n].mac = node[n].ip
        /\ \A u \in Threads : Unlinked(u) => insertion[u].node \in Nodes
        /\ \A u \in Threads \ {t} : Unlinked(u) => insertion[u].node # n
    <2>1. Unlinked(t)
      BY <1>1 DEF Unlinked
    <2>2. /\ n \in allocated
          /\ \A u \in Threads : Unlinked(u) => insertion[u].node \in allocated
          /\ \A u \in Threads \ {t} : Unlinked(u) => insertion[u].node # n
      BY <1>1, <2>1 DEF TableInv, ListInv
    <2>3. node[n].mac = node[n].ip
      BY <2>1 DEF MapInv, FreshInv
    <2> QED
      BY <1>1, <2>1, <2>2, <2>3, ReachedFacts
  <1>3. tail \in Nodes
    BY <1>1, ReachedFacts
  <1> HIDE DEF n
  <1>4. /\ node'[tail].next = n
        /\ \A x \in Nodes : x # tail => node'[x].next = node[x].next
        /\ \A x \in Nodes : node'[x].ip = node[x].ip /\ node'[x].mac = node[x].mac
    BY <1>1, <1>3, ReachedFacts
  <1>5. /\ \A u \in Threads : insertion'[u].node = insertion[u].node
        /\ \A u \in Threads : insertion'[u].at = IF u = t THEN "tail" ELSE insertion[u].at
    BY <1>1, ReachedFacts
  <1>6. \A u \in Threads : /\ Unlinked(u)' <=> Unlinked(u) /\ u # t
                           /\ Late(u)' <=> Late(u) \/ u = t
    BY <1>1, <1>5 DEF Unlinked, Late
  <1>7. ~ Late(t) /\ t \in Inserters
    BY <1>1 DEF Late, Inserters
  <1>8. Inserters' = Inserters
    BY <1>1, <1>5 DEF Inserters
  <1>9. Inserting' = Inserting
    BY <1>8, CountInserters
  <1> QED
    BY <1>1, <1>2, <1>3, <1>4, <1>5, <1>6, <1>7, <1>9 DEF n

\* Linked behind a node that is not in the list, it is not met by the walk.
LEMMA LostLinkMap ==
  ASSUME MapInv, NEW t \in Threads, InsertLink(t), ~ Reached(tail)
  PROVE  MapInv' /\ MapStep
  <1> DEFINE n == insertion[t].node
  <1>1. /\ TableInv /\ TableInv' /\ Unlinked(t) /\ n \in allocated /\ n \in Nodes /\ n # Null
        /\ ~ Reached(n) /\ node[n].mac = node[n].ip
        /\ UNCHANGED <<allocated, tail, edits, loose>>
        /\ \A x \in Nodes : x # tail => node'[x].next = node[x].next
        /\ \A x \in Nodes : node'[x].ip = node[x].ip /\ node'[x].mac = node[x].mac
        /\ \A u \in Threads : insertion'[u].node = insertion[u].node
        /\ \A u \in Threads : /\ Unlinked(u)' <=> Unlinked(u) /\ u # t
                              /\ Late(u)' <=> Late(u) \/ u = t
        /\ ~ Late(t) /\ t \in Inserters /\ Inserting' = Inserting
        /\ \A u \in Threads : Unlinked(u) => insertion[u].node \in Nodes
        /\ \A u \in Threads \ {t} : Unlinked(u) => insertion[u].node # n
    BY LinkFacts
  <1>2. \A x : Reached(x) => x # tail /\ x \in Nodes /\ x \in allocated
    BY <1>1, ReachedFacts
  <1>3. /\ \A k \in Places : Walk'[k] = Walk[k]
        /\ \A q \in Ips : Lookup(q)' = Lookup(q)
    BY <1>1, <1>2, ListKept, EntriesKept
  <1>4. ~ Reached(tail)'
    BY <1>1, <1>3 DEF Reached
  <1>5. \A u \in Threads : Pending(u)' <=> Pending(u)
    BY <1>1, <1>3 DEF Pending, Reached
  <1> HIDE DEF n
  <1>6. Attached' => Attached
    BY <1>4, <1>5 DEF Attached
  <1>7. FreshInv'
    BY <1>1 DEF MapInv, FreshInv
  <1>8. ASSUME ~ loose PROVE TailInv'
    <2>1. LateInv /\ PendingInv /\ LastInv /\ TwiceInv
      BY <1>8 DEF MapInv, TailInv
    <2>2. LateInv'
      BY <1>1, <2>1 DEF LateInv, n
    <2>3. PendingInv'
      <3>1. \A u \in Threads : Pending(u) => Reached(insertion[u].node)
        BY DEF Pending
      <3> QED
        BY <1>1, <1>2, <1>4, <1>5, <2>1, <3>1 DEF PendingInv
    <2>4. LastInv'
      BY <1>1, <1>4, <1>6, <2>1 DEF LastInv
    <2>5. TwiceInv'
      <3>1. \A k \in Places : Walk[k] # Null => Walk[k] \in Nodes
        BY <1>1, ReachedFacts
      <3> QED
        BY <1>1, <1>3, <2>1, <3>1 DEF TwiceInv
    <2> QED
      BY <2>2, <2>3, <2>4, <2>5 DEF TailInv
  <1>9. MapInv'
    BY <1>1, <1>7, <1>8 DEF MapInv
  <1> QED
    BY <1>1, <1>3, <1>9, AsStutter DEF MapStep

\* Once a deletion has met an insertion, a link may do anything to the others.
LEMMA LooseLinkMap ==
  ASSUME MapInv, NEW t \in Threads, InsertLink(t), loose
  PROVE  MapInv' /\ MapStep
  <1>1. /\ TableInv /\ TableInv' /\ UNCHANGED <<allocated, tail, edits, loose>>
        /\ \A x \in Nodes : node'[x].ip = node[x].ip /\ node'[x].mac = node[x].mac
        /\ \A u \in Threads : insertion'[u].node = insertion[u].node
        /\ \A u \in Threads : Unlinked(u)' <=> Unlinked(u) /\ u # t
        /\ Inserting' = Inserting
        /\ \A u \in Threads : Unlinked(u) => insertion[u].node \in Nodes
    BY LinkFacts
  <1>2. FreshInv'
    BY <1>1 DEF MapInv, FreshInv
  <1>3. MapInv'
    BY <1>1, <1>2 DEF MapInv
  <1>4. Lookup(Target)' = Lookup(Target)
    <2>1. First \in Nodes
      BY <1>1, ReachedFacts
    <2> QED
      BY <1>1, <2>1, TargetIsFirst
  <1>5. \A q \in Ips : Lookup(q)' \in Macs \cup {NoMac}
    BY <1>1, LookupTyped
  <1> QED
    BY <1>1, <1>3, <1>4, <1>5, AsAstray DEF MapStep

\* Where the list ends before the link, and what the walk is after it.
LEMMA LinkWalk ==
  ASSUME MapInv, NEW t \in Threads, InsertLink(t), Reached(tail), ~ loose
  PROVE  \E m \in Places :
           /\ Walk[m] = tail /\ m < MaxNodes
           /\ \A j \in Places : j > m + 1 => Walk[j] = Null
           /\ Walk[m + 1] = node[tail].next
           /\ node[insertion[t].node].next = Null /\ insertion[t].node # tail
           /\ node[tail].next # Null =>
                \E u \in Threads : Pending(u) /\ u # t /\ insertion[u].node = node[tail].next
           /\ \A j \in Places : Walk'[j] = IF j <= m THEN Walk[j]
                                           ELSE IF j = m + 1 THEN insertion[t].node ELSE Null
  <1> DEFINE n == insertion[t].node
             w == Walk
             x == node[tail].next
  <1>1. /\ TableInv /\ TableInv' /\ Unlinked(t) /\ n \in Nodes /\ n # Null /\ ~ Reached(n)
        /\ tail \in Nodes /\ node'[tail].next = n
        /\ \A y \in Nodes : y # tail => node'[y].next = node[y].next
        /\ ~ Late(t)
    BY LinkFacts
  <1>2. PICK m \in Places : w[m] = tail /\ tail # Null
    BY DEF Reached
  <1>3. LateInv /\ PendingInv /\ LastInv
    BY DEF MapInv, TailInv
  <1>4. /\ IsList(w, node) /\ IsWalk(Walk', node')
        /\ w[MaxNodes] = Null
        /\ \A i, j \in Places : i <= j /\ w[j] # Null => w[i] # Null
        /\ \A i, j \in Places : i < j /\ w[j] # Null => w[i] # w[j]
        /\ \A k \in 1 .. MaxNodes : w[k] = IF w[k - 1] = Null THEN Null ELSE node[w[k - 1]].next
    BY <1>1, WalkWasList DEF IsList, IsWalk
  <1>5. MaxNodes \in Nat /\ m \in Nat
    BY TableAssumption DEF Places
  <1>6. m < MaxNodes /\ m + 1 \in 1 .. MaxNodes /\ (m + 1) - 1 = m
    BY <1>2, <1>4, <1>5 DEF Places
  <1>7. w[m + 1] = x
    BY <1>2, <1>4, <1>6
  <1>8. Attached
    BY DEF Attached
  <1>9. n # tail /\ node[n].next = Null
    BY <1>1, <1>3, <1>8 DEF LastInv
  <1>10. ASSUME x # Null
         PROVE  /\ node[x].next = Null
                /\ \E u \in Threads : Pending(u) /\ u # t /\ insertion[u].node = x
    <2>1. PICK u \in Threads : Late(u) /\ x = insertion[u].node
      BY <1>3, <1>10 DEF LastInv
    <2>2. Reached(x)
      BY <1>6, <1>7, <1>10 DEF Reached, Places
    <2>3. Pending(u) /\ u # t
      BY <1>1, <2>1, <2>2 DEF Pending
    <2>4. node[x].next = Null
      BY <1>3, <2>1, <2>3 DEF PendingInv
    <2> QED
      BY <2>1, <2>3, <2>4
  <1>11. \A y \in Places : w[y] # Null => w[y] \in Nodes
    BY <1>1, ReachedFacts
  <1> HIDE DEF n, w, x
  <1>12. ASSUME NEW j \in Places, j > m + 1 PROVE w[j] = Null
    <2>1. m + 2 \in 1 .. MaxNodes /\ m + 2 <= j /\ (m + 2) - 1 = m + 1 /\ m + 2 \in Places
      BY <1>5, <1>6, <1>12 DEF Places
    <2>2. w[m + 2] = Null
      BY <1>4, <1>7, <1>10, <2>1
    <2> QED
      BY <1>4, <2>1, <2>2
  <1>13. \A k \in Places : w[k] # Null /\ k # m => node'[w[k]].next = node[w[k]].next
    <2> SUFFICES ASSUME NEW k \in Places, w[k] # Null, k # m PROVE w[k] # tail
      BY <1>1, <1>11
    <2>1. k < m \/ m < k
      BY <1>5 DEF Places
    <2> QED
      BY <1>2, <1>4, <2>1
  <1>14. node'[w[m]].next = n /\ node'[n].next = Null /\ w[m] # Null
    BY <1>1, <1>2, <1>9
  <1>15. \A j \in Places : Walk'[j] = IF j <= m THEN w[j] ELSE IF j = m + 1 THEN n ELSE Null
    BY <1>1, <1>4, <1>13, <1>14, LinkedList
  <1> QED
    BY <1>2, <1>6, <1>7, <1>9, <1>10, <1>12, <1>15 DEF n, w, x

LEMMA LinkedInv ==
  ASSUME MapInv, NEW t \in Threads, InsertLink(t), Reached(tail), ~ loose
  PROVE  MapInv'
  <1> DEFINE n == insertion[t].node
             w == Walk
  <1>1. /\ TableInv /\ TableInv' /\ Unlinked(t) /\ n \in allocated /\ n \in Nodes /\ n # Null
        /\ ~ Reached(n) /\ node[n].mac = node[n].ip
        /\ UNCHANGED <<allocated, tail, edits, loose>>
        /\ node'[tail].next = n
        /\ \A x \in Nodes : x # tail => node'[x].next = node[x].next
        /\ \A x \in Nodes : node'[x].ip = node[x].ip /\ node'[x].mac = node[x].mac
        /\ \A u \in Threads : insertion'[u].node = insertion[u].node
        /\ \A u \in Threads : /\ Unlinked(u)' <=> Unlinked(u) /\ u # t
                              /\ Late(u)' <=> Late(u) \/ u = t
        /\ \A u \in Threads : Unlinked(u) => insertion[u].node \in Nodes
        /\ \A u \in Threads \ {t} : Unlinked(u) => insertion[u].node # n
        /\ tail \in Nodes /\ ~ Late(t)
    BY LinkFacts
  <1>2. PICK m \in Places :
           /\ w[m] = tail /\ m < MaxNodes
           /\ \A j \in Places : j > m + 1 => w[j] = Null
           /\ w[m + 1] = node[tail].next
           /\ node[n].next = Null /\ n # tail
           /\ \A j \in Places : Walk'[j] = IF j <= m THEN w[j] ELSE IF j = m + 1 THEN n ELSE Null
    BY LinkWalk
  <1>3. LateInv /\ PendingInv /\ LastInv /\ TwiceInv
    BY DEF MapInv, TailInv
  <1>4. /\ \A i, j \in Places : i < j /\ w[j] # Null => w[i] # w[j]
        /\ \A y \in Places : w[y] # Null => w[y] \in Nodes
    BY <1>1, WalkIsList, ReachedFacts DEF IsList
  <1>5. MaxNodes \in Nat /\ m \in Nat /\ m + 1 \in Places
    BY <1>2, TableAssumption DEF Places
  <1>6. Attached
    BY DEF Attached
  <1>7. FreshInv'
    BY <1>1 DEF MapInv, FreshInv
  <1> HIDE DEF n, w
  <1>8. LateInv'
    BY <1>1, <1>3 DEF LateInv, n
  <1>9. ASSUME NEW u \in Threads, Pending(u)' PROVE u = t
    <2> SUFFICES ASSUME u # t PROVE FALSE
      OBVIOUS
    <2>1. Late(u)
      BY <1>1, <1>9 DEF Pending
    <2>2. insertion[u].node # n
      BY <1>1, <1>3, <2>1 DEF LateInv, n
    <2>3. PICK j \in Places : Walk'[j] = insertion[u].node /\ insertion[u].node # Null
      BY <1>1, <1>9 DEF Pending, Reached
    <2>4. j <= m /\ w[j] = insertion[u].node
      BY <1>2, <2>2, <2>3
    <2>5. Pending(u)
      BY <2>1, <2>3, <2>4 DEF Pending, Reached, w
    <2>6. w[m + 1] = w[j]
      BY <1>2, <1>3, <2>4, <2>5 DEF PendingInv
    <2>7. j < m + 1
      BY <1>5, <2>4 DEF Places
    <2> QED
      BY <1>4, <1>5, <2>3, <2>4, <2>6, <2>7
  <1>10. PendingInv'
    <2>1. node'[n].next = Null
      BY <1>1, <1>2
    <2> QED
      BY <1>1, <1>9, <2>1 DEF PendingInv, n
  <1>11. LastInv'
    <2>1. Late(t)' /\ node'[tail'].next = insertion'[t].node
      BY <1>1 DEF n
    <2>2. tail' \in allocated'
      BY <1>1, <1>3, <1>6 DEF LastInv
    <2>3. ASSUME NEW u \in Threads, Unlinked(u)'
          PROVE  insertion'[u].node # tail' /\ node'[insertion'[u].node].next = Null
      BY <1>1, <1>3, <1>6, <2>3 DEF LastInv
    <2> QED
      BY <2>1, <2>2, <2>3 DEF LastInv
  <1>12. TwiceInv'
    <2> SUFFICES ASSUME NEW i \in Places, NEW j \in Places, i < j,
                        Walk'[i] # Null, Walk'[j] # Null, node'[Walk'[i]].ip = node'[Walk'[j]].ip
                 PROVE  node'[Walk'[j]].mac = node'[Walk'[j]].ip
      BY DEF TwiceInv
    <2>1. CASE j <= m
      <3>1. i <= m
        BY <1>5, <2>1 DEF Places
      <3>2. Walk'[i] = w[i] /\ Walk'[j] = w[j]
        BY <1>2, <2>1, <3>1
      <3>3. node[w[i]].ip = node[w[j]].ip
        BY <1>1, <1>4, <3>2
      <3>4. node[w[j]].mac = node[w[j]].ip
        BY <1>3, <3>2, <3>3 DEF TwiceInv, w
      <3> QED
        BY <1>1, <1>4, <3>2, <3>4
    <2>2. CASE ~ (j <= m)
      <3>1. Walk'[j] = n
        BY <1>2, <2>2
      <3> QED
        BY <1>1, <3>1
    <2> QED
      BY <2>1, <2>2
  <1> QED
    BY <1>1, <1>7, <1>8, <1>10, <1>11, <1>12 DEF MapInv, TailInv

LEMMA LinkedMap ==
  ASSUME MapInv, NEW t \in Threads, InsertLink(t), Reached(tail), ~ loose
  PROVE  MapStep
  <1> DEFINE w == Walk
  <1>a. PICK n, x : n = insertion[t].node /\ x = node[tail].next
    OBVIOUS
  <1>b. PICK new, old : new = node[n].ip /\ old = node[x].ip
    OBVIOUS
  <1>1. /\ TableInv /\ TableInv' /\ n \in Nodes /\ n # Null /\ node[n].mac = node[n].ip
        /\ loose' = loose /\ tail \in Nodes
        /\ \A y \in Nodes : node'[y].ip = node[y].ip /\ node'[y].mac = node[y].mac
        /\ t \in Inserters /\ Inserting' = Inserting
    BY <1>a, LinkFacts
  <1>2. PICK m \in Places :
           /\ w[m] = tail /\ m < MaxNodes
           /\ \A j \in Places : j > m + 1 => w[j] = Null
           /\ w[m + 1] = x
           /\ x # Null => \E u \in Threads : Pending(u) /\ u # t
           /\ \A j \in Places : Walk'[j] = IF j <= m THEN w[j] ELSE IF j = m + 1 THEN n ELSE Null
    BY <1>a, LinkWalk
  <1>3. /\ \A i, j \in Places : i <= j /\ w[j] # Null => w[i] # Null
        /\ \A y \in Places : w[y] # Null => w[y] \in Nodes
        /\ w[m] # Null /\ m \in Nat /\ m + 1 \in Places
        /\ 0 \in Places /\ 0 <= m /\ w[0] = First /\ First # Null /\ node[First].ip = Target
    <2>1. tail # Null
      BY DEF Reached
    <2> QED
      BY <1>1, <1>2, <2>1, WalkIsList, ReachedFacts, TableAssumption
        DEF IsList, Places, TableInv, ListInv
  <1>4. /\ new \in Ips /\ node'[n].ip = new /\ node'[n].mac = new
        /\ x # Null => old \in Ips /\ node[x].mac \in Macs
    BY <1>1, <1>2, <1>3, <1>b, ReachedFacts
  <1>5. Inserting > 0 /\ (x # Null => Inserting > 1)
    <2>1. \A u \in Threads : Pending(u) => u \in Inserters
      BY DEF Pending, Late, Inserters
    <2> QED
      BY <1>1, <1>2, <2>1, CountInserters
  <1> DEFINE Met(q) == Early(w, node, m, q)
  <1>6. ASSUME NEW q
        PROVE  /\ Met(q) => Lookup(q)' = Lookup(q)
               /\ ~ Met(q) => /\ Lookup(q)' = IF new = q THEN new ELSE NoMac
                              /\ Lookup(q) = IF x # Null /\ old = q THEN node[x].mac ELSE NoMac
    <2>1. \A j \in Places : w[j] # Null =>
             node'[w[j]].ip = node[w[j]].ip /\ node'[w[j]].mac = node[w[j]].mac
      BY <1>1, <1>3
    <2>2. /\ Lookup(q) = Entry(w, node, q)
          /\ Lookup(q)' = Entry(Walk', node', q)
      BY LookupWasEntry
    <2> HIDE DEF w
    <2>a. Linking(w, node, Walk', node', m, n)
      BY <1>1, <1>2, <1>3, <2>1 DEF Linking
    <2>3. /\ Early(w, node, m, q) => Entry(Walk', node', q) = Entry(w, node, q)
          /\ ~ Early(w, node, m, q) =>
               /\ Entry(Walk', node', q) = IF node'[n].ip = q THEN node'[n].mac ELSE NoMac
               /\ Entry(w, node, q) = IF w[m + 1] # Null /\ node[w[m + 1]].ip = q
                                        THEN node[w[m + 1]].mac ELSE NoMac
      BY <2>a, LinkedEntry
    <2> QED
      BY <1>2, <1>4, <1>b, <2>2, <2>3
  <1>7. Met(Target)
    BY <1>3 DEF Early
  <1>8. NoMac \notin Ips /\ Macs = Ips
    BY TableAssumption DEF Macs
  <1> HIDE DEF w, Met
  <1>9. CASE x = Null \/ Met(old)
    <2>1. \A q : ~ Met(q) => Lookup(q) = NoMac
      BY <1>6, <1>9
    <2>2. CASE Met(new)
      <3>1. \A q \in Ips : Lookup(q)' = Lookup(q)
        BY <1>6, <2>1, <2>2
      <3> QED
        BY <1>1, <3>1, AsStutter DEF MapStep
    <2>3. CASE ~ Met(new)
      <3>1. Lookup(new) = NoMac /\ Learned(new, new)
        BY <1>6, <2>1, <2>3 DEF Learned
      <3> QED
        BY <1>1, <1>4, <1>5, <3>1, AsLearn DEF MapStep
    <2> QED
      BY <2>2, <2>3
  <1>10. CASE x # Null /\ ~ Met(old)
    <2>1. old \in Ips /\ Inserting > 1 /\ old # Target /\ Lookup(old) = node[x].mac
      BY <1>4, <1>5, <1>6, <1>7, <1>10
    <2>2. Lookup(old) # NoMac
      BY <1>4, <1>8, <1>10, <2>1
    <2>3. CASE new = old
      <3>1. Learned(old, old)
        BY <1>6, <1>10, <2>3 DEF Learned
      <3>2. CASE Lookup(old) = old
        <4>1. \A q \in Ips : Lookup(q)' = Lookup(q)
          BY <3>1, <3>2 DEF Learned
        <4> QED
          BY <1>1, <4>1, AsStutter DEF MapStep
      <3>3. CASE Lookup(old) # old
        BY <1>1, <1>8, <2>1, <2>2, <3>1, <3>3, AsChange DEF MapStep
      <3> QED
        BY <3>2, <3>3
    <2>4. CASE new # old /\ Met(new)
      <3>1. Lookup(old)' = NoMac /\ \A q \in Ips \ {old} : Lookup(q)' = Lookup(q)
        BY <1>6, <1>10, <2>4
      <3> QED
        BY <1>1, <2>1, <2>2, <3>1, AsReplace DEF MapStep
    <2>5. CASE new # old /\ ~ Met(new)
      <3>1. /\ Lookup(old)' = NoMac /\ Lookup(new)' = new
            /\ \A q \in Ips \ {old, new} : Lookup(q)' = Lookup(q)
        BY <1>6, <1>10, <2>5
      <3> QED
        BY <1>1, <1>4, <2>1, <2>2, <3>1, AsReplace DEF MapStep
    <2> QED
      BY <2>3, <2>4, <2>5
  <1> QED
    BY <1>9, <1>10

LEMMA LinkMap ==
  ASSUME MapInv, NEW t \in Threads, InsertLink(t)
  PROVE  MapInv' /\ MapStep
  BY LooseLinkMap, LostLinkMap, LinkedInv, LinkedMap

LEMMA TableStepMap ==
  ASSUME MapInv, TableStep
  PROVE  MapInv' /\ MapStep
  BY CheckMap, LinkMap, TailMap, DeleteMap, UpdateMap DEF TableStep, Insertion

LEMMA StutterMap ==
  ASSUME MapInv, UNCHANGED table
  PROVE  MapInv' /\ MapStep
  <1>1. TableInv /\ TableInv' /\ UNCHANGED <<node, allocated, tail, insertion, loose>>
    BY TableKept DEF MapInv, table
  <1>2. MapInv'
    BY <1>1, MapInvKept DEF Late, Unlinked
  <1>3. \A q \in Ips : Lookup(q)' = Lookup(q)
    BY <1>1, EntriesKept
  <1>4. Inserting' = Inserting
    BY <1>1 DEF Inserting, Inserters
  <1> QED
    BY <1>1, <1>2, <1>3, <1>4, AsStutter DEF MapStep

LEMMA NextMap ==
  ASSUME MapInv, Types, [Next]_vars
  PROVE  MapInv' /\ MapStep
  <1>1. CASE UNCHANGED table
    BY <1>1, StutterMap
  <1>2. CASE TableStep
    BY <1>2, TableStepMap
  <1>3. CASE PollPacket \/ HandoutTake
    <2>1. \/ UNCHANGED table
          \/ air # <<>> /\ \E t \in Threads : Learn(t, Head(air).ip)
      BY <1>3, Threading DEF PollPacket, HandoutTake
    <2>2. air # <<>> => Head(air).ip \in Ips
      <3>1. air # <<>> => Head(air) \in Packets
        BY HeadTailProperties DEF Types
      <3> QED
        BY <3>1 DEF Packets
    <2> QED
      BY <2>1, <2>2, StutterMap, LearnMap
  <1> QED
    BY <1>1, <1>2, <1>3
      DEF Next, vars, MainStep, Poll, SendDatagram, FindMac, PollNothing, PollEnd, PutFragment,
          Answer, Foreign

\* The table with its links and its tail, written without a lock, implements
\* the map that ArpMap promises (insert_arp_node, delete_arp_node,
\* update_arp_node, is_existed_ip).
THEOREM ImplementsMap == Spec => TableIsMap
  <1>1. Init => Map!Init
    <2> SUFFICES ASSUME Init PROVE Map!Init
      OBVIOUS
    <2>1. TableInv /\ loose = FALSE
      BY InitTable DEF Init, TableInit
    <2>2. Inserters = {}
      BY DEF Init, TableInit, Inserters, NoInsertion
    <2>3. Inserting = 0
      BY <2>2, FS_EmptySet DEF Inserting
    <2>4. ASSUME NEW q \in Ips PROVE Lookup(q) = IF q = Target THEN Target ELSE NoMac
      <3>1. \A k \in Places : Walk[k] # Null => node[Walk[k]].ip = Target
        BY <2>1, ReachedFacts DEF Init, TableInit
      <3>2. CASE q = Target
        <4>1. node[First].mac = Target
          BY <2>1, ReachedFacts DEF Init, TableInit
        <4> QED
          BY <2>1, <3>2, <4>1, TargetIsFirst
      <3>3. CASE q # Target
        BY <3>1, <3>3, EntryNone, LookupWasEntry
      <3> QED
        BY <3>2, <3>3
    <2>5. Known = [q \in Ips |-> IF q = Target THEN Target ELSE NoMac]
      BY <2>4 DEF Known
    <2> QED
      BY <2>1, <2>3, <2>5 DEF Map!Init, Known, Inserting, Inserters
  <1>2. Init => MapInv
    BY InitMapInv DEF Init
  <1>3. MapInv /\ MacInv /\ [Next]_vars => MapInv' /\ [Map!Next]_mapVars
    BY NextMap DEF MapStep, MacInv
  <1>4. Init => MacInv
    BY InitMac
  <1>5. MacInv /\ [Next]_vars => MacInv'
    BY MacStep
  <1> QED
    BY <1>1, <1>2, <1>3, <1>4, <1>5, PTL
      DEF Spec, TableIsMap, Map!Spec, mapVars, Known, Inserting, Inserters
================================================================================
