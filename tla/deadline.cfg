SPECIFICATION FairSpec
CONSTANTS
  Deadlines <- MCDeadlines
  CutoffDays <- MCDays
  Offsets <- MCOffsets
INVARIANTS TypeOK WithinCutoffDays MatchesCalendar
PROPERTIES LaterCostsMore CutoffReturned
CHECK_DEADLOCK FALSE
