SPECIFICATION MbxInSpec
CONSTANTS
  Users <- MCUsers
  Receivers <- MCReceivers
  Messages <- MCMessages
  PoolSize = 2
  MaxErrors = 1
  Concurrent = FALSE
  MaxLost = 1
INVARIANTS RingConsistent OneHolder MailboxesInOrder DeliveredOrCounted ErrorsInOrder
PROPERTY RefinesPool
