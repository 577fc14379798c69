SPECIFICATION Spec
CONSTANTS
  StudentCount = 2
  MaxRound = 2
  MaxIssues = 2
  Announcing = TRUE
  DryRuns <- WithAndWithoutDry
  OnlyRepos <- All
  Faults <- Interrupted
CHECK_DEADLOCK FALSE
INVARIANTS OneIssue PushPossible
