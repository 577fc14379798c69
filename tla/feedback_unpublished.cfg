SPECIFICATION Spec
CONSTANTS
  StudentCount = 2
  MaxRound = 3
  MaxIssues = 2
  Announcing = TRUE
  DryRuns <- NeverDry
  OnlyRepos <- All
  Faults <- PushFault
CHECK_DEADLOCK FALSE
INVARIANT AnnouncedIsPublished
