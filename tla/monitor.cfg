SPECIFICATION FairSpec
CONSTANTS
  j1 = j1
  j2 = j2
  l1 = l1
  Jobs = {j1, j2}
  Lookups = {l1}
  PeekLimit = 1
  PeeksFail = TRUE
  Remote = TRUE
INVARIANTS
  TypeOK
  NotFoundIsExplained
  WatchPrintsOnce
PROPERTY WatchSeesWaiting
CHECK_DEADLOCK FALSE
