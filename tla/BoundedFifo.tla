----------------------------- MODULE BoundedFifo -----------------------------
(***************************************************************************)
(* What every packet buffer of the stack promises the two layers it joins: *)
(* a first-in first-out queue of at most Size packets.  The implementation *)
(* (a ring of slots, two indices and three counters) is module PVRing.     *)
(***************************************************************************)
EXTENDS Naturals, Sequences

CONSTANTS
  Consumers,   \* the threads that take packets out
  Size,        \* MAX_QUE, the number of slots
  Items,       \* the packets
  NoItem       \* what a consumer's local buffer holds before its first packet

VARIABLES
  queue,       \* the packets put and not yet taken, oldest first
  copy         \* copy[c] is the last packet consumer c took

vars == <<queue, copy>>

Init ==
  /\ queue = <<>>
  /\ copy = [c \in Consumers |-> NoItem]

Put(x) ==
  /\ Len(queue) < Size
  /\ queue' = Append(queue, x)
  /\ UNCHANGED copy

Get(c) ==
  /\ queue # <<>>
  /\ copy' = [copy EXCEPT ![c] = Head(queue)]
  /\ queue' = Tail(queue)

Next ==
  \/ \E x \in Items : Put(x)
  \/ \E c \in Consumers : Get(c)

Spec == Init /\ [][Next]_vars
==============================================================================
