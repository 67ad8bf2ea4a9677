\* No frame is lost; an ARP request is answered or fails.
CONSTANTS
  MaxFrags = 3
  IdMod = 2
  LinkSize = 3
  QueSize = 2
  ArpOutcomes = {"answer", "none"}
  MaxDatagrams = 4
  MaxLoss = 0
  MaxPause = 0
SPECIFICATION FairSpec
INVARIANTS TypeOK ExactDelivery
PROPERTIES AllHandedUp
CHECK_DEADLOCK FALSE
