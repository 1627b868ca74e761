CONSTANTS
  Keys = {1, 2, 3, 4, 5, 6}
  Hosts = {"h1", "h2"}
  NoHost = "none"
  Scripts = {"s1", "s2"}
  Meaning <- SmallMeaning
  Values = {"good", "bad", "huge"}
  Decodable = {"good"}
  Overflowing = {"huge"}
  WriteBatches <- SmallBatches
  MaxSeq = 6
  MaxFile = 5
  LiveBrowser = FALSE
SPECIFICATION LsSpec
INVARIANTS
  LsTypeOK
  BatchIsRun
  Disjoint
  OneWriteBatch
  CurrentVisible
  FindsBatchOfRecord
  WholeRunIfClean
  NewestIsCurrent
  NoRecordTwice
CHECK_DEADLOCK FALSE
