SPECIFICATION FairSpec
CONSTANTS
  Main = Main
  W = W
  F = F
  C1 = C1
  C2 = C2
  P1 = P1
  Thread = Thread
  None = None
  Workers <- MCWorkers
  Functions <- MCFunctions
  Calls <- MCCalls
  Promises <- MCPromises
  BatchLimit = 2
  MaxRearms = 1
CHECK_DEADLOCK FALSE
INVARIANTS TypeOK OnePoller EventsAreWatched PromiseHeld NoCallRefused
PROPERTIES Implements EventsDelivered
