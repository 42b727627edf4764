SPECIFICATION SyncFairSpec
CONSTANTS
  S0 = S0
  S1 = S1
  W0 = W0
  W1 = W1
  V0 = V0
  K1 = K1
  K2 = K2
  T1 = T1
  T2 = T2
  Read = Read
  Clock = Clock
  Write = Write
  Free = Free
  None = None
  Parent <- MCParent
  Thread <- MCThread
  Depth <- MCDepth
  Size <- MCSize
  ReplyBytes = 1
  SeqModulus = 2
  Slots <- TaskSlots
  Tasks <- OneTask
  Operations <- TaskOperations
  AsyncOps <- Empty
  Queued <- Empty
  Release = None
  Outcomes <- MCOutcomes
  Ringers <- SingleSlot
  WaitSlots = 2
  Callbacks <- OneCallback
  BodyOps <- Empty
  TaskOps <- Empty
  MaxBody = 3
  MaxTask = 1
  Generations = 3
PROPERTY CallbacksReturn
INVARIANT NoWrongStop
