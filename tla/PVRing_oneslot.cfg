\* Updates of a semaphore are a load and a store; a ring of one slot.
CONSTANTS
  Producers = {p1}
  Consumers = {c1}
  Size = 1
  Items = {a, b, c}
  NoItem = NoItem
  Split = TRUE
SPECIFICATION FairSpec
INVARIANTS SectionExclusive CountersBounded
PROPERTIES ImplementsFifo
