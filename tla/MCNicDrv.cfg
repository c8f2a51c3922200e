SPECIFICATION Spec
CONSTANTS
  t1 = t1
  t2 = t2
  Threads = {t1, t2}
  MaxBuf = 3
  MaxTx = 2
  MaxAge = 1
  SendFails = FALSE
  Preempt = FALSE
SYMMETRY ThreadSymmetry
INVARIANTS IndexExclusive NoOrphanBuffer ReplyMatchesRequest
PROPERTY ReplyNotDiscarded
