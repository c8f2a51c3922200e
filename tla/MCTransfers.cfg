SPECIFICATION Spec
CONSTANTS
  Items = {"full", "part"}
  Size <- MCSize
  MaxData = 3
  Block = 2
  Stamp = 1
  FrameNos = 3
  MaxBusy = 1
  MaxFragments = 2
  MaxSub = 1
  MaxSM = 4
  Mappings <- MCMappings
  Applications <- MCMixedApplications
  MaxFailed = 2
  Rooms <- MCRooms
  MaxCnt = 4
  PoolSize = 3
  Mortal = TRUE
  Faulty = {"request", "acknowledge", "reply", "late", "pool"}
  MaxFaults = 1
CHECK_DEADLOCK FALSE
INVARIANTS FoeIsWhole SoeWriteIsWhole FramesAreWhole DictionaryIsTrue CoeIsTrue NoMailboxKept
