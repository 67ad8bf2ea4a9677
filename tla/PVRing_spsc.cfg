\* One producing and one consuming thread, as on ethernet_recv, ip_recv and
\* udp_recv; each update of a semaphore is one instruction.
CONSTANTS
  Producers = {p1}
  Consumers = {c1}
  Size = 3
  Items = {a, b}
  NoItem = NoItem
  Split = FALSE
SPECIFICATION FairSpec
INVARIANTS TypeOK SlotsDisjoint CountersBounded
PROPERTIES ImplementsFifo PacketsDrain
