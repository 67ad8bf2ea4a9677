\* A host and a gateway that have to be asked; two datagrams, two fragments.
CONSTANTS
  Ips = {target, host, gateway}
  Target = target
  NoMac = noMac
  MaxNodes = 6
  Threads = {main, handout}
  Main = main
  Handout = handout
  MaxEdits = 1
  Destinations = {host, far}
  Lan = {target, host, gateway}
  Gateway = gateway
  Long = {far}
  Fragments = 2
  Rounds = 2
  MaxDatagrams = 2
  MaxEvents = 1
SPECIFICATION Spec
INVARIANTS TypeOK ListSound RightMac SameIdOnlyAfterFailure
  
CHECK_DEADLOCK FALSE
