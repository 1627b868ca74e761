CONSTANTS
  Keys = {1}
  Values = {"v"}
  WriteBatches <- SmallBatches
  MaxSeq = 3
  MaxFile = 5
  LiveBrowser = TRUE
SPECIFICATION Spec
INVARIANTS
  TypeOK
  SnapshotCovered
CHECK_DEADLOCK FALSE
