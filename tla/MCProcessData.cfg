SPECIFICATION Spec
CONSTANTS
  Sizes <- MCSizes
  Networks <- MCNetworks
  MaxData = 5
  DCDatagram = 2
  MaxSegments = 64
  MaxBuf = 5
  MaxCycles = 2
  MaxWrites = 1
  MaxLost = 1
INVARIANTS ExpectedWkcReached FreshWhenExpected OutputsKept ImageSentOnce BuffersOnStack
