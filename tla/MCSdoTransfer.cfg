SPECIFICATION FairSpec
CONSTANTS
  Segments = 4
  Objects <- MCObjects
  Size <- MCSize
  MaxCnt = 3
  PoolSize = 4
  Mortal = TRUE
  Faulty = {"request", "acknowledge", "reply", "late", "pool"}
  MaxFaults = 1
INVARIANTS UploadIsWhole DownloadIsWhole
PROPERTY TransferEnds
