SPECIFICATION SyncSpec
CONSTANTS
  S0 = S0
  S1 = S1
  W0 = W0
  W1 = W1
  V0 = V0
  K1 = K1
  K2 = K2
  T1 = T1
  T2 = T2
  Read = Read
  Clock = Clock
  Write = Write
  Free = Free
  None = None
  Parent <- MCParent
  Thread <- MCThread
  Depth <- MCDepth
  Size <- MCSize
  ReplyBytes = 1
  SeqModulus = 2
  Slots <- NestedSlots
  Tasks <- Empty
  Operations <- NestedOperations
  AsyncOps <- Empty
  Queued <- Empty
  Release = None
  Outcomes <- MCOutcomes
  Ringers <- NestedSlots
  WaitSlots = 2
  Callbacks <- OneCallback
  BodyOps <- NestedOperations
  TaskOps <- Empty
  MaxBody = 1
  MaxTask = 1
  Generations = 3
INVARIANTS SyncTypeOK ServedOnce
PROPERTY Implements
