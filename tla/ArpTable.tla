------------------------------- MODULE ArpTable -------------------------------
(***************************************************************************)
(* The ARP cache table: a linked list that starts with the static entry of *)
(* the target, and a pointer to its last node.  thread_handout and the     *)
(* threads that send insert what ARP packets tell them, without a lock: an *)
(* insertion looks for the address twice, writes tail->next, then tail.    *)
(* A walk along the list is one step.  A node that was freed may be given  *)
(* out by malloc again; a write through a pointer to a freed node writes   *)
(* what is there by then.                                                  *)
(*                                                                         *)
(* The MAC of a host is written like its address.                          *)
(***************************************************************************)
EXTENDS Integers, FiniteSets

CONSTANTS
  Ips,        \* addresses of other hosts
  Target,     \* target_ip
  NoMac,      \* NULL of is_existed_ip
  MaxNodes,   \* bound: nodes that malloc can give
  Threads,
  MaxEdits    \* bound: calls of delete_arp_node and update_arp_node

ASSUME TableAssumption ==
  /\ Target \in Ips /\ NoMac \notin Ips
  /\ MaxNodes \in Nat \ {0} /\ MaxEdits \in Nat

VARIABLES
  node,       \* ip, mac and next of every node
  allocated,  \* the nodes malloc has given and free has not taken
  tail,       \* arp_table.tail; head is First and never changes
  insertion,  \* for each thread, where its insertion is, and its node
  edits,
  loose       \* history: a node was deleted between a link and the store to tail

table == <<node, allocated, tail, insertion, edits, loose>>

Macs == Ips
Nodes == 1 .. MaxNodes
First == 1      \* the node of the static entry
Null == 0
NoInsertion == [at |-> "none", node |-> Null]

\* init_arp_table: the local host's node is made and not linked.
TableInit ==
  /\ node = [n \in Nodes |-> [ip |-> Target, mac |-> Target, next |-> Null]]
  /\ allocated = {First}
  /\ tail = First
  /\ insertion = [t \in Threads |-> NoInsertion]
  /\ edits = 0
  /\ loose = FALSE

\* The nodes that a walk from head meets, in order, and Null behind the last.
Walk ==
  LET next == [n \in {Null} \cup Nodes |-> IF n = Null THEN Null ELSE node[n].next]
      at[k \in 0 .. MaxNodes] == IF k = 0 THEN First ELSE next[at[k - 1]]
  IN  at

Holds(n, ip) == n # Null /\ node[n].ip = ip

\* The first place of the walk whose node fits.
Earliest(places) == CHOOSE k \in places : \A j \in places : k <= j
Place(walk, ip) == Earliest({k \in 0 .. MaxNodes : Holds(walk[k], ip)})

\* Mutant: what is returned is the head's MAC.
BugFirstEntry(ip) ==
  LET walk == Walk
  IN  IF \E k \in 0 .. MaxNodes : Holds(walk[k], ip) THEN node[First].mac ELSE NoMac

\* is_existed_ip
Lookup(ip) ==
  LET walk == Walk
  IN  IF \E k \in 0 .. MaxNodes : Holds(walk[k], ip) THEN node[walk[Place(walk, ip)]].mac
                                                    ELSE NoMac

\* malloc gives a node that was freed or the next one it never gave.
Malloc == {n \in Nodes \ allocated : n - 1 \in allocated}

\* The sender of an accepted ARP packet gets a node if it has none.
Learn(t, ip) ==
  /\ insertion[t] = NoInsertion
  /\ IF Lookup(ip) # NoMac
       THEN UNCHANGED <<node, allocated, insertion>>
       ELSE \E n \in Malloc :
              /\ node' = [node EXCEPT ![n] = [ip |-> ip, mac |-> ip, next |-> Null]]
              /\ allocated' = allocated \cup {n}
              /\ insertion' = [insertion EXCEPT ![t] = [at |-> "check", node |-> n]]
  /\ UNCHANGED <<tail, edits, loose>>

\* insert_arp_node looks again; the node it does not link is never freed.
InsertCheck(t) ==
  /\ insertion[t].at = "check"
  /\ insertion' = [insertion EXCEPT ![t] =
                     IF Lookup(node[@.node].ip) = NoMac
                       THEN [@ EXCEPT !.at = "link"] ELSE NoInsertion]
  /\ UNCHANGED <<node, allocated, tail, edits, loose>>

\* Mutant: the node becomes the head's successor.
BugLinkHead(t) ==
  /\ insertion[t].at = "link"
  /\ node' = [node EXCEPT ![First].next = insertion[t].node]
  /\ insertion' = [insertion EXCEPT ![t].at = "tail"]
  /\ UNCHANGED <<allocated, tail, edits, loose>>

\* Mutant: a ring, as for a queue with head and tail.
BugLinkTwice(t) ==
  /\ insertion[t].at = "link"
  /\ node' = [node EXCEPT ![tail].next = insertion[t].node,
                          ![insertion[t].node].next = First]
  /\ insertion' = [insertion EXCEPT ![t].at = "tail"]
  /\ UNCHANGED <<allocated, tail, edits, loose>>

InsertLink(t) ==
  /\ insertion[t].at = "link"
  /\ node' = [node EXCEPT ![tail].next = insertion[t].node]
  /\ insertion' = [insertion EXCEPT ![t].at = "tail"]
  /\ UNCHANGED <<allocated, tail, edits, loose>>

InsertTail(t) ==
  /\ insertion[t].at = "tail"
  /\ tail' = insertion[t].node
  /\ insertion' = [insertion EXCEPT ![t] = NoInsertion]
  /\ UNCHANGED <<node, allocated, edits, loose>>

\* delete_arp_node never looks at the head, and does not move the tail.  A
\* thread that has linked this node, and not stored it in tail yet, will store
\* it after malloc has given it out again.
Delete(t, ip, mac) ==
  /\ edits < MaxEdits /\ insertion[t] = NoInsertion
  /\ LET walk   == Walk
         places == {k \in 1 .. MaxNodes : Holds(walk[k], ip) /\ node[walk[k]].mac = mac}
         k      == Earliest(places)
     IN  /\ places # {}
         /\ node' = [node EXCEPT ![walk[k - 1]].next = node[walk[k]].next]
         /\ allocated' = allocated \ {walk[k]}
  /\ edits' = edits + 1
  /\ loose' = (loose \/ \E u \in Threads : insertion[u].at = "tail")
  /\ UNCHANGED <<tail, insertion>>

\* update_arp_node
Update(t, ip, mac) ==
  /\ edits < MaxEdits /\ insertion[t] = NoInsertion
  /\ Lookup(ip) # NoMac
  /\ node' = [node EXCEPT ![Walk[Place(Walk, ip)]].mac = mac]
  /\ edits' = edits + 1
  /\ UNCHANGED <<allocated, tail, insertion, loose>>

Insertion(t) == InsertCheck(t) \/ InsertLink(t) \/ InsertTail(t)

TableStep ==
  \E t \in Threads :
    \/ Insertion(t)
    \/ \E ip \in Ips, mac \in Macs : Delete(t, ip, mac) \/ Update(t, ip, mac)

------------------------------------------------------------------------------
TableTypeOK ==
  /\ node \in [Nodes -> [ip : Ips, mac : Macs, next : Nodes \cup {Null}]]
  /\ allocated \subseteq Nodes
  /\ tail \in Nodes
  /\ insertion \in [Threads -> [at : {"none", "check", "link", "tail"},
                                node : Nodes \cup {Null}]]
  /\ edits \in 0 .. MaxEdits /\ loose \in BOOLEAN

\* Whatever insertions and deletions interleave, the walk along the list ends,
\* meets no freed node, and starts with the target's entry: is_existed_ip
\* returns, and a datagram to the target never waits for ARP.
ListSound ==
  /\ Walk[MaxNodes] = Null
  /\ \A k \in 0 .. MaxNodes : Walk[k] \in allocated \cup {Null}
  /\ node[First].ip = Target

\* The table is the map that ArpMap promises.
Map == INSTANCE ArpMap WITH
  known <- [ip \in Ips |-> Lookup(ip)],
  inserting <- Cardinality({t \in Threads : insertion[t].at \in {"link", "tail"}})

TableIsMap == Map!Spec
===============================================================================
