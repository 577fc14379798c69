SPECIFICATION FairSpec
CONSTANTS
  RepoCount = 2
  MaxWorker = 1
  PageSize = 1
  Cutoff = 2
  MaxTime = 2
  MaxEvents = 2
  MaxPushes = 2
  MaxPage = 5
  Faults <- MCMoved
  MayMiss = FALSE
INVARIANTS TypeOK ExactAfterCutoff 
PROPERTIES Collected
CHECK_DEADLOCK FALSE
