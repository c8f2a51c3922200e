SPECIFICATION Spec
CONSTANTS
  SlaveCount = 2
  Strangers = {9}
  MaxLost = 1
  MaxChanges = 2
  Identity <- MCIdentity
  PerFrame = 1
  Requests = {4, 8}
  Wide = {1}
  SiiWords = 2
  Applications <- MCApplications
CHECK_DEADLOCK FALSE
INVARIANTS NoStrangerAddressed ReportedStateWasSeen EepromIsTrue
