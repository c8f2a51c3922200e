SPECIFICATION Spec
CONSTANTS
  MaxObjects = 7
  MaxMaps = 3
  MaxBytes = 2
  InitFails = TRUE
INVARIANTS   ExchangeUsesIoMap
CHECK_DEADLOCK FALSE
