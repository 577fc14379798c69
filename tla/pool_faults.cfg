SPECIFICATION Spec
CONSTANTS
  ThreadCount = 2
  WorkCount = 2
  PipeCap = 1
  Programs <- MCPrograms
  Prepared <- MCFirst
  Faults <- MCAllFaults
INVARIANTS UnpreparedFails ReturnComplete CodesMatch HangsOnlyUnread OutputComplete
PROPERTIES PromiseSafety
\* A child blocked on a pipe nobody reads any more really hangs the program.
CHECK_DEADLOCK FALSE
