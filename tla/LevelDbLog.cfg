CONSTANTS
  Readers = {r1, r2}
  BlockSize = 8
  HeaderSize = 2
  BatchHeader = 1
  MaxBatches = 2
  MaxRecs = 2
  MaxPasses = 3
  KeyLens = {1}
  ValLens = {2}
  LiveWriter = FALSE
  ZeroTails = TRUE
SPECIFICATION Spec
SYMMETRY IteratorSymmetry
INVARIANTS
  TypeOK
  InOrder
  DamageConfined
  NothingLost
  NoSpuriousError
  OffsetsGrow
CHECK_DEADLOCK FALSE
