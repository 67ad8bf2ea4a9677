\* Two producing threads, as on ip_send and ethernet_send.
CONSTANTS
  Producers = {p1, p2}
  Consumers = {c1}
  Size = 3
  Items = {a}
  NoItem = NoItem
  Split = FALSE
SPECIFICATION Spec
INVARIANTS SectionExclusive
