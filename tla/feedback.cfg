SPECIFICATION Spec
CONSTANTS
  StudentCount = 2
  MaxRound = 3
  MaxIssues = 2
  Announcing = TRUE
  DryRuns <- WithAndWithoutDry
  OnlyRepos <- AllOrFirst
  Faults <- Requests
CHECK_DEADLOCK FALSE
INVARIANTS TypeOK AnnouncedIsPublished ScoresMatchReports
PROPERTIES AnnouncedAdvances PublishedAdvances
