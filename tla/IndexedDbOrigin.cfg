CONSTANTS
  Keys = {1, 2, 3, 4, 5, 6, 7, 8, 9, 10, 11}
  UserKey <- SmallUserKey
  Values <- SmallValues
  WriteBatches <- VersionBatch
  Origin <- AsciiOrigin
  DbNames <- SmallDbNames
  StoreNames <- SmallStoreNames
  DbIds = {127, 128}
  StoreIds = {1, 2}
  IdbKeys <- SmallIdbKeys
  Payloads <- SmallPayloads
  ReadValue <- SmallReadValue
  MaxSeq = 3
  MaxFile = 3
  LiveBrowser = FALSE
SPECIFICATION IdbSpec
INVARIANT DatabasesListed
CHECK_DEADLOCK FALSE
