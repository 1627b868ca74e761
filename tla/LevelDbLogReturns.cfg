CONSTANTS
  Readers = {r1}
  BlockSize = 8
  HeaderSize = 2
  BatchHeader = 1
  MaxBatches = 2
  MaxRecs = 1
  MaxPasses = 2
  KeyLens = {1}
  ValLens = {2}
  LiveWriter = TRUE
  ZeroTails = FALSE
SPECIFICATION FairSpec
PROPERTY NextReturns
CHECK_DEADLOCK FALSE
