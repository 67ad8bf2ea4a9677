\* One lost frame of a fragmented datagram.
CONSTANTS
  MaxFrags = 2
  IdMod = 4
  LinkSize = 2
  QueSize = 1
  ArpOutcomes = {"answer"}
  MaxDatagrams = 2
  MaxLoss = 1
  MaxPause = 0
SPECIFICATION Spec
INVARIANTS WholeDatagrams
CHECK_DEADLOCK FALSE
