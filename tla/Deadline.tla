------------------------------ MODULE Deadline ------------------------------
(***************************************************************************)
(* The late-submission arithmetic: calculate_cutoff turns a deadline and a *)
(* number of days into the end of late submission, one iteration of its    *)
(* loop per step, and calculate_late_submission_day turns an accepted push *)
(* into the days of penalty. Times are seconds since the epoch.            *)
(***************************************************************************)
EXTENDS Integers, FiniteSets

CONSTANTS
  Deadlines,   \* deadlines a command may be given
  CutoffDays,  \* values atoi(cutoff_days) may have, negative ones included
  Offsets      \* push times to consider, relative to the deadline

Day  == 86400
Hour == 3600
UTC8 == 8 * Hour

ASSUME DeadlinesAreTimes == Deadlines \subseteq Nat
ASSUME DaysAreInts       == CutoffDays \subseteq Int
ASSUME OffsetsAreInts    == Offsets \subseteq Int

-----------------------------------------------------------------------------
\* tm_wday of calendar_time; day 0 of the epoch was a Thursday, Sunday is 0.
Weekday(time) == ((time + UTC8) \div Day + 4) % 7

\* Mutant: noon belongs to the morning.
Morning_Noon(time) == ((time + UTC8) % Day) \div Hour <= 12

\* tm_hour < 12
Morning(time) == ((time + UTC8) % Day) \div Hour < 12

\* The weekday that the 24 hours after a time count as.
CountsAs(time) == IF Morning(time) THEN Weekday(time) ELSE (Weekday(time) + 1) % 7

\* Mutant: the rounding of the Sundays is off by one.
WeekendDaysBefore_OffByOne(x) == (x + 5) \div 7 + x \div 7

\* Weekend days among days 0 to x - 1, where day 0 is a Sunday.
WeekendDaysBefore(x) == (x + 6) \div 7 + x \div 7

\* Weekend days among n days that start on weekday first.
WeekendDays(first, n) == WeekendDaysBefore(first + n) - WeekendDaysBefore(first)

\* Mutant: weekend days are taken off twice each.
Charged_Doubled(first, n) == n - WeekendDays(first, n) * 2

\* Days of a delay of n days that are charged when two weekend days count as one.
Charged(first, n) == n - WeekendDays(first, n) \div 2

\* Mutant: the weekday is taken from the submission instead of the deadline.
LateDays_FromSubmission(deadline, time, weekends) ==
  LET delay == (time - deadline + Day - 1) \div Day IN
  IF time <= deadline THEN 0
  ELSE IF weekends THEN Charged(CountsAs(time), delay)
  ELSE delay

\* calculate_late_submission_day
LateDays(deadline, time, weekends) ==
  LET delay == (time - deadline + Day - 1) \div Day IN
  IF time <= deadline THEN 0
  ELSE IF weekends THEN Charged(CountsAs(deadline), delay)
  ELSE delay

-----------------------------------------------------------------------------
VARIABLES
  deadline,     \* the parsed argument
  cutoff_days,  \* the parsed argument
  weekends,     \* the weekends_as_one_day configuration
  phase,        \* "loop" inside calculate_cutoff, "open" once it returned
  cutoff,       \* its local, then the value returned
  day_left,     \* its local
  push,         \* time of the push last found before the cutoff
  delay         \* its late days

input == <<deadline, cutoff_days, weekends>>
vars  == <<input, phase, cutoff, day_left, push, delay>>

TypeOK ==
  /\ deadline \in Deadlines
  /\ cutoff_days \in CutoffDays
  /\ weekends \in BOOLEAN
  /\ phase \in {"loop", "open"}
  /\ cutoff \in Int
  /\ day_left \in Int
  /\ push \in Int
  /\ delay \in Nat

Init ==
  /\ deadline \in Deadlines
  /\ cutoff_days \in CutoffDays
  /\ weekends \in BOOLEAN
  /\ phase = "loop"
  /\ cutoff = deadline
  /\ day_left = cutoff_days
  /\ push = 0
  /\ delay = 0

\* Mutant: the loop goes on when no day is left.
MoreDays_OrNone == weekends /\ day_left >= 0

\* The condition of the loop: only weekends-as-one-day extends the cutoff again.
MoreDays == weekends /\ day_left > 0

\* Mutant: every iteration starts from the weekday of the deadline.
Extend_FromDeadline ==
  /\ phase = "loop"
  /\ MoreDays
  /\ cutoff' = cutoff + day_left * Day
  /\ day_left' = WeekendDays(CountsAs(deadline), day_left) \div 2
  /\ UNCHANGED <<input, phase, push, delay>>

\* One iteration: the days left are granted, and every two weekend days among
\* them are granted once more.
Extend ==
  /\ phase = "loop"
  /\ MoreDays
  /\ cutoff' = cutoff + day_left * Day
  /\ day_left' = WeekendDays(CountsAs(cutoff), day_left) \div 2
  /\ UNCHANGED <<input, phase, push, delay>>

ReturnCutoff ==
  /\ phase = "loop"
  /\ ~MoreDays
  /\ cutoff' = cutoff + day_left * Day
  /\ phase' = "open"
  /\ UNCHANGED <<input, day_left, push, delay>>

\* A later run finds a newer push. It is taken only if it is before the cutoff.
Collect(time) ==
  /\ phase = "open"
  /\ push < time /\ time < cutoff
  /\ push' = time
  /\ delay' = LateDays(deadline, time, weekends)
  /\ UNCHANGED <<input, phase, cutoff, day_left>>

Next ==
  \/ Extend
  \/ ReturnCutoff
  \/ \E o \in Offsets : Collect(deadline + o)

Spec == Init /\ [][Next]_vars

\* calculate_cutoff runs on one thread and nothing stops it.
FairSpec == Spec /\ WF_vars(Extend \/ ReturnCutoff)

-----------------------------------------------------------------------------
(* Properties.                                                             *)

\* Nobody is charged more late days than cutoff_days allows: the cutoff, which
\* calculate_cutoff extends weekend by weekend, is never later than the penalty
\* of calculate_late_submission_day, computed in one go from the deadline, admits.
WithinCutoffDays ==
  delay <= IF cutoff_days > 0 THEN cutoff_days ELSE 0

\* Weekends never make lateness free: a push after the deadline costs a day.
LateIsCharged == push > deadline => delay >= 1

\* The weekend discount is the calendar's: the first late 24 hours count as the
\* weekday most of them fall on, the later one when they are equal, as the comment
\* in calculate_cutoff says, and of the days from there on every two that are
\* Saturday or Sunday count once.
MatchesCalendar ==
  weekends /\ push > deadline =>
    LET days  == (push - deadline + Day - 1) \div Day
        today == Day - ((deadline + UTC8) % Day)    \* of the 24 hours, on the deadline's day
        first == Weekday(deadline) + (IF today > Day - today THEN 0 ELSE 1)
        free  == {i \in 0..days - 1 : (first + i) % 7 \in {0, 6}}
    IN delay = days - Cardinality(free) \div 2

\* Pushing later never costs less.
LaterCostsMore == [][push' > push => delay' >= delay]_vars

\* Every iteration of the loop leaves at most half of the days it was given, so
\* it ends after logarithmically many, and it never takes back a day granted.
LoopHalves ==
  [][phase = "loop" /\ phase' = "loop" =>
       /\ 2 * day_left' <= day_left
       /\ cutoff' > cutoff]_vars

\* calculate_cutoff returns.
CutoffReturned == <>(phase = "open")

=============================================================================
