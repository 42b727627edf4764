SPECIFICATION FairSpec
CONSTANTS
  T1 = T1
  H1 = H1
  S = S
  P1 = P1
  P2 = P2
  None = None
  Threads <- OneThread
  SyncThread = S
  Handles <- OneHandle
  Promises <- TwoPromises
  BatchLimit = 1
CHECK_DEADLOCK FALSE
INVARIANTS TypeOK OneOwner CancelledByCaller
PROPERTIES Implements AllSettle
