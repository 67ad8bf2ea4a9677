\* Two clients; one is accepted, the other's request is queued, dropped by
\* accept or read by recv, with a number in recv's window or not.
CONSTANTS
  Clients = {a, b}
  BufLen = 2
  Window = 2
  Calls = 1
  Seqs = {0, 1}
  RingSize = 2
  MaxRequests = 1
  MaxFaults = 1
SPECIFICATION FairSpec
INVARIANTS TypeOK  BothConnected BitExplained
 
CHECK_DEADLOCK FALSE
