\* Lost frames, silences and ARP replies of another host.
CONSTANTS
  MaxFrags = 3
  IdMod = 4
  LinkSize = 3
  QueSize = 1
  ArpOutcomes = {"answer", "other", "none"}
  MaxDatagrams = 4
  MaxLoss = 2
  MaxPause = 1
SPECIFICATION Spec
INVARIANTS NoMixing InOrderOnce
PROPERTIES GapPersists
CHECK_DEADLOCK FALSE
