SPECIFICATION Spec
CONSTANTS
  MaxSlaves = 4
  Networks <- MCNetworks
  HalfTime = 128
  CycleTop = 8
  SyncDelay = 1
  Cycles = {0, 2, 5}
  Shifts = {0, 1}
  MaxTime = 3
  SyncNetworks <- MCSyncNetworks
  MaxSyncs = 2
INVARIANTS ParentIsTrue DelayIsTrue SyncInPhase
CHECK_DEADLOCK FALSE
