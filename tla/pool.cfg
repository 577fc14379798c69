SPECIFICATION FairSpec
CONSTANTS
  ThreadCount = 2
  WorkCount = 2
  PipeCap = 1
  Programs <- MCPrograms
  Prepared <- MCTwo
  Faults <- MCNoFaults
INVARIANTS TypeOK OwnedOnce CallbacksExclude
PROPERTY PromiseKept
