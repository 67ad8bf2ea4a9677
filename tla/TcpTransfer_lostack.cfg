CONSTANTS
  MSS = 2
  Window = 4
  BufLen = 3
  SeqMod = 16
  InitSeq = 3
  MaxLoss = 1
  MaxStray = 0
SPECIFICATION FairSpec
PROPERTIES LossIsRepaired
CHECK_DEADLOCK FALSE
