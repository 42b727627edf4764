SPECIFICATION FairSpec
CONSTANTS
  A0 = A0
  A1 = A1
  Read = Read
  Clock = Clock
  None = None
  Slots <- NestedSlots
  Parent <- NestedParent
  Operations <- BothOperations
  AsyncOps <- BothAsync
  Outcomes <- MCOutcomes
  Size <- BothSize
  ReplyBytes = 1
  SeqModulus = 2
  Ringers <- NestedRingers
  WaitSlots = 1
INVARIANTS SlotInv NoLostWakeup AtMostOnce
PROPERTIES Implements CallsReturn
