\* Four segments, the last one short, in windows of two; lost segments and
\* acknowledgements, and a stray segment at the sender.
CONSTANTS
  MSS = 2
  Window = 4
  BufLen = 7
  SeqMod = 16
  InitSeq = 3
  MaxLoss = 1
  MaxStray = 1
SPECIFICATION FairSpec
INVARIANTS TypeOK DataIntact RecvReturnsAll AckedIsReceived
PROPERTIES TransferCompletes
CHECK_DEADLOCK FALSE
