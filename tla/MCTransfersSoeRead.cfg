SPECIFICATION Spec
CONSTANTS
  Items = {"full", "part"}
  Size <- MCSize
  MaxData = 3
  Block = 2
  Stamp = 1
  FrameNos = 3
  MaxBusy = 1
  MaxFragments = 2
  MaxSub = 1
  MaxSM = 4
  Mappings <- MCMappings
  Applications <- MCApplications
  MaxFailed = 1
  Rooms <- MCRooms
  MaxCnt = 3
  PoolSize = 3
  Mortal = FALSE
  Faulty = {}
  MaxFaults = 0
CHECK_DEADLOCK FALSE
INVARIANT SoeReadCopies
