\* A peer whose frames arrive and one that main sends to, rings of one packet.
CONSTANTS
  Peers = {q}
  Targets = {p}
  EthQue = 1
  IpQue = 1
  UdpQue = 1
  MaxRequests = 1
  MaxDatagrams = 2
  MaxStrays = 1
  MaxCalls = 2
  MaxEvents = 6
SPECIFICATION Spec
INVARIANTS TypeOK 
  
CHECK_DEADLOCK FALSE
