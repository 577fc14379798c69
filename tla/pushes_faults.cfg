SPECIFICATION Spec
CONSTANTS
  RepoCount = 1
  MaxWorker = 1
  PageSize = 1
  Cutoff = 3
  MaxTime = 3
  MaxEvents = 2
  MaxPushes = 2
  MaxPage = 5
  Faults <- MCAll
  MayMiss = TRUE
INVARIANTS NeverOvercharged DatedBeforeCutoff
CHECK_DEADLOCK FALSE
