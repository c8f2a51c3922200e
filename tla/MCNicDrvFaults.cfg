SPECIFICATION FairSpec
CONSTANTS
  t1 = t1
  t2 = t2
  Threads = {t1, t2}
  MaxBuf = 2
  MaxTx = 1
  MaxAge = 0
  SendFails = TRUE
  Preempt = TRUE

PROPERTY ExchangeEnds
