--------------------------- MODULE DeadlineProof ---------------------------
(***************************************************************************)
(* Proofs about the late-submission arithmetic for every deadline, every   *)
(* number of days and every push time.                                     *)
(***************************************************************************)
EXTENDS Deadline, FiniteSetTheorems, WellFoundedInduction, TLAPS

-----------------------------------------------------------------------------
(* Arithmetic of weekend days.                                             *)

\* A time counts as one of the seven weekdays.
LEMMA WeekdayRange == ASSUME NEW t \in Int PROVE CountsAs(t) \in 0..6
<1>1. Weekday(t) \in 0..6
  BY DEF Weekday, UTC8, Hour, Day
<1> QED BY <1>1 DEF CountsAs

\* Whole days later, a time counts as the weekday that many days later.
LEMMA WeekdayShift ==
  ASSUME NEW t \in Int, NEW n \in Nat
  PROVE  CountsAs(t + n * Day) = (CountsAs(t) + n) % 7
<1>1. Weekday(t + n * Day) = (Weekday(t) + n) % 7
  BY DEF Weekday, UTC8, Hour, Day
<1>2. Morning(t + n * Day) = Morning(t)
  BY DEF Morning, UTC8, Hour, Day
<1>3. Weekday(t) \in Int
  BY DEF Weekday, UTC8, Hour, Day
<1> QED BY <1>1, <1>2, <1>3 DEF CountsAs

\* n days have between 0 and n weekend days.
LEMMA WeekendDaysRange ==
  ASSUME NEW f \in 0..6, NEW n \in Nat
  PROVE  WeekendDays(f, n) \in 0..n
BY DEF WeekendDays, WeekendDaysBefore

\* Weekend days add up over consecutive stretches of days.
LEMMA WeekendDaysAdd ==
  ASSUME NEW f \in 0..6, NEW m \in Nat, NEW n \in Nat
  PROVE  WeekendDays(f, m + n) = WeekendDays(f, m) + WeekendDays((f + m) % 7, n)
BY DEF WeekendDays, WeekendDaysBefore

\* One more day of delay costs one day more or nothing, and the first costs one.
LEMMA ChargedMonotone ==
  ASSUME NEW f \in 0..6, NEW m \in Nat, NEW n \in Nat, m <= n
  PROVE  Charged(f, m) <= Charged(f, n)
<1>1. PICK k \in Nat : n = m + k
  <2>1. n - m \in Nat /\ n = m + (n - m)
    OBVIOUS
  <2> QED BY <2>1
<1>2. WeekendDays(f, m + k) = WeekendDays(f, m) + WeekendDays((f + m) % 7, k)
  BY WeekendDaysAdd
<1>3. (f + m) % 7 \in 0..6
  OBVIOUS
<1>4. WeekendDays((f + m) % 7, k) \in 0..k
  BY <1>3, WeekendDaysRange
<1>5. WeekendDays(f, m) \in 0..m
  BY WeekendDaysRange
<1> QED BY <1>1, <1>2, <1>4, <1>5 DEF Charged

\* A delay is charged at most in full, and at least one day.
LEMMA ChargedRange ==
  ASSUME NEW f \in 0..6, NEW n \in Nat
  PROVE  Charged(f, n) \in 0..n /\ (n > 0 => Charged(f, n) > 0)
<1>1. WeekendDays(f, n) \in 0..n
  BY WeekendDaysRange
<1> QED BY <1>1 DEF Charged

-----------------------------------------------------------------------------
(* The loop of calculate_cutoff.                                           *)

\* The days granted so far, less the weekend discount a push at the end of them
\* would get, and the days still to grant never exceed cutoff_days.
Granted ==
  /\ deadline \in Int /\ cutoff_days \in Int /\ weekends \in BOOLEAN
  /\ phase \in {"loop", "open"} /\ cutoff \in Int /\ day_left \in Int /\ delay \in Int
  /\ push \in Int
  /\ IF weekends /\ cutoff_days > 0
     THEN \E n \in Nat :
            /\ cutoff = deadline + n * Day
            /\ day_left >= 0
            /\ phase = "open" => day_left = 0
            /\ Charged(CountsAs(deadline), n) + day_left <= cutoff_days
     ELSE /\ day_left = cutoff_days
          /\ phase = "loop" => cutoff = deadline
          /\ phase = "open" => cutoff = deadline + cutoff_days * Day

\* Days handed out in the loop are paid for by the weekend days among them.
LEMMA GrantStep ==
  ASSUME NEW f \in 0..6, NEW n \in Nat, NEW d \in Nat
  PROVE  LET e == WeekendDays((f + n) % 7, d) \div 2
         IN e \in Nat /\ 2 * e <= d /\ Charged(f, n + d) + e <= Charged(f, n) + d
<1>1. WeekendDays(f, n + d) = WeekendDays(f, n) + WeekendDays((f + n) % 7, d)
  BY WeekendDaysAdd
<1>2. WeekendDays((f + n) % 7, d) \in 0..d
  <2>1. (f + n) % 7 \in 0..6
    OBVIOUS
  <2> QED BY <2>1, WeekendDaysRange
<1>3. WeekendDays(f, n) \in 0..n
  BY WeekendDaysRange
<1> QED BY <1>1, <1>2, <1>3 DEF Charged

\* calculate_cutoff starts with every day left and none granted.
LEMMA GrantedInit == Init => Granted
<1> SUFFICES ASSUME Init PROVE Granted
  OBVIOUS
<1>1. deadline \in Int /\ cutoff_days \in Int
  BY DeadlinesAreTimes, DaysAreInts DEF Init
<1>2. Charged(CountsAs(deadline), 0) \in 0..0
  BY <1>1, WeekdayRange, ChargedRange
<1>3. cutoff = deadline + 0 * Day
  BY <1>1 DEF Init, Day
<1> QED BY <1>1, <1>2, <1>3 DEF Init, Granted

\* Late days are charged for a delay of some days, and not more days than lie
\* between the deadline and any later whole number of days.
LEMMA LateDaysCharged ==
  ASSUME NEW d \in Int, NEW t \in Int, NEW w \in BOOLEAN, t > d
  PROVE  LET n == (t - d + Day - 1) \div Day
         IN /\ n \in Nat \ {0}
            /\ LateDays(d, t, w) = IF w THEN Charged(CountsAs(d), n) ELSE n
            /\ \A m \in Nat : t < d + m * Day => n <= m
BY DEF LateDays, Day

\* An iteration of the loop grants exactly the days the weekends among the days
\* before have freed: what is charged plus what is left stays within cutoff_days.
LEMMA ExtendGrants == Granted /\ Extend => Granted'
<1> SUFFICES ASSUME Granted, Extend PROVE Granted'
  OBVIOUS
<1>1. phase = "loop" /\ weekends /\ day_left > 0 /\ UNCHANGED <<input, phase, push, delay>>
  BY DEF Extend, MoreDays
<1>2. cutoff_days > 0
  BY <1>1 DEF Granted
<1>3. PICK n \in Nat : /\ cutoff = deadline + n * Day
                      /\ Charged(CountsAs(deadline), n) + day_left <= cutoff_days
  BY <1>1, <1>2 DEF Granted
<1> DEFINE f == CountsAs(deadline)
<1>4. f \in 0..6 /\ CountsAs(cutoff) = (f + n) % 7
  BY <1>3, WeekdayRange, WeekdayShift DEF Granted
<1>5. day_left \in Nat
  BY <1>1 DEF Granted
<1>6. /\ day_left' \in Nat /\ 2 * day_left' <= day_left
      /\ Charged(f, n + day_left) + day_left' <= Charged(f, n) + day_left
  BY <1>4, <1>5, GrantStep DEF Extend
<1>7. cutoff' = deadline + (n + day_left) * Day
  BY <1>3, <1>5 DEF Extend, Day, Granted
<1>8. Charged(f, n) \in Int /\ Charged(f, n + day_left) \in Int
  <2>1. n + day_left \in Nat
    BY <1>5
  <2>2. Charged(f, n) \in 0..n /\ Charged(f, n + day_left) \in 0..(n + day_left)
    BY <1>4, <2>1, ChargedRange
  <2> QED BY <2>1, <2>2
<1>9. Charged(f, n + day_left) + day_left' <= cutoff_days
  BY <1>3, <1>5, <1>6, <1>8 DEF Granted
<1>10. n + day_left \in Nat /\ cutoff' \in Int /\ f' = f
  BY <1>1, <1>5, <1>7 DEF input, Granted, Day
<1>11. \E m \in Nat : /\ cutoff' = deadline + m * Day
                      /\ Charged(f, m) + day_left' <= cutoff_days
  BY <1>7, <1>9, <1>10
<1> HIDE DEF f
<1> QED BY <1>1, <1>2, <1>6, <1>10, <1>11 DEF Granted, input, f

\* Returning adds the days left: none after the loop, all of them without it.
LEMMA ReturnGrants == Granted /\ ReturnCutoff => Granted'
<1> SUFFICES ASSUME Granted, ReturnCutoff PROVE Granted'
  OBVIOUS
<1>1. CASE weekends /\ cutoff_days > 0
  <2>1. day_left = 0 /\ cutoff' = cutoff
    BY <1>1 DEF Granted, ReturnCutoff, MoreDays, Day
  <2> QED BY <1>1, <2>1 DEF Granted, ReturnCutoff, input
<1>2. CASE ~(weekends /\ cutoff_days > 0)
  <2>1. cutoff' = deadline + cutoff_days * Day /\ cutoff' \in Int
    BY <1>2 DEF Granted, ReturnCutoff, MoreDays, Day
  <2> QED BY <1>2, <2>1 DEF Granted, ReturnCutoff, input
<1> QED BY <1>1, <1>2

\* What a push before the cutoff is charged, which is all Collect lets in.
LEMMA AcceptedWithin ==
  ASSUME Granted, phase = "open", NEW t \in Int, t < cutoff
  PROVE  /\ LateDays(deadline, t, weekends) \in Nat
         /\ LateDays(deadline, t, weekends) <= IF cutoff_days > 0 THEN cutoff_days ELSE 0
         /\ t > deadline => LateDays(deadline, t, weekends) >= 1
<1> DEFINE late == LateDays(deadline, t, weekends)
<1>1. CASE t <= deadline
  BY <1>1 DEF LateDays, Granted
<1>2. CASE t > deadline
  <2> DEFINE n == (t - deadline + Day - 1) \div Day
  <2> DEFINE f == CountsAs(deadline)
  <2>1. /\ n \in Nat \ {0}
        /\ late = IF weekends THEN Charged(f, n) ELSE n
        /\ \A m \in Nat : t < deadline + m * Day => n <= m
    BY <1>2, LateDaysCharged DEF Granted
  <2>2. f \in 0..6
    BY WeekdayRange DEF Granted
  <2> HIDE DEF n, f, late
  <2>3. Charged(f, n) \in 0..n /\ Charged(f, n) > 0
    <3>1. n \in Nat /\ n > 0
      BY <2>1
    <3> QED BY <2>2, <3>1, ChargedRange
  <2>4. CASE weekends /\ cutoff_days > 0
    <3>1. PICK m \in Nat : cutoff = deadline + m * Day /\ Charged(f, m) <= cutoff_days
      <4>1. PICK m \in Nat : cutoff = deadline + m * Day /\ Charged(f, m) + day_left <= cutoff_days
        BY <2>4 DEF Granted, f
      <4>2. day_left = 0
        BY <2>4 DEF Granted
      <4>3. Charged(f, m) \in 0..m
        BY <2>2, ChargedRange
      <4> QED BY <4>1, <4>2, <4>3
    <3>2. n <= m
      BY <2>1, <3>1
    <3>3. Charged(f, n) <= Charged(f, m)
      BY <2>1, <2>2, <3>2, ChargedMonotone
    <3>4. Charged(f, m) \in 0..m
      BY <2>2, ChargedRange
    <3>5. late <= cutoff_days /\ late >= 1 /\ late \in Nat
      BY <2>1, <2>3, <2>4, <3>1, <3>3, <3>4 DEF Granted
    <3> QED BY <2>4, <3>5 DEF late
  <2>5. CASE ~(weekends /\ cutoff_days > 0)
    <3>1. cutoff = deadline + cutoff_days * Day
      BY <2>5 DEF Granted
    <3>2. cutoff_days > 0
      BY <1>2, <3>1 DEF Granted, Day
    <3>3. ~weekends /\ n <= cutoff_days
      BY <2>1, <2>5, <3>1, <3>2 DEF Granted
    <3> QED BY <2>1, <3>2, <3>3 DEF late, Granted
  <2> QED BY <2>4, <2>5
<1> QED BY <1>1, <1>2 DEF Granted

\* The invariant of the whole command: the loop's, and what was charged.
Priced ==
  /\ Granted
  /\ phase = "loop" => push = 0 /\ delay = 0
  /\ deadline \in Nat
  /\ delay = LateDays(deadline, push, weekends)
  /\ WithinCutoffDays /\ LateIsCharged

\* A push that retrieve_pushes_before_cutoff accepts is charged within the limit.
LEMMA CollectGrants == ASSUME NEW t \in Int PROVE Priced /\ Collect(t) => Priced'
<1> SUFFICES ASSUME Priced, Collect(t) PROVE Priced'
  OBVIOUS
<1>1. Granted /\ phase = "open" /\ t < cutoff /\ UNCHANGED <<input, phase, cutoff, day_left>>
      /\ push' = t /\ delay' = LateDays(deadline, t, weekends)
  BY DEF Priced, Collect
<1>2. delay' \in Nat
  BY <1>1, AcceptedWithin
<1>3. Granted'
  BY <1>1, <1>2 DEF Granted, input
<1>4. delay' <= (IF cutoff_days > 0 THEN cutoff_days ELSE 0) /\ (t > deadline => delay' >= 1)
  BY <1>1, AcceptedWithin
<1> QED BY <1>1, <1>3, <1>4 DEF Priced, input, WithinCutoffDays, LateIsCharged

\* The invariant of the penalties is inductive.
LEMMA PricedStep == Priced /\ [Next]_vars => Priced'
<1> SUFFICES ASSUME Priced, [Next]_vars PROVE Priced'
  OBVIOUS
<1>1. CASE Extend
  <2>1. Granted'
    BY <1>1, ExtendGrants DEF Priced
  <2> QED BY <1>1, <2>1 DEF Priced, Extend, input, WithinCutoffDays, LateIsCharged
<1>2. CASE ReturnCutoff
  <2>1. Granted'
    BY <1>2, ReturnGrants DEF Priced
  <2> QED BY <1>2, <2>1 DEF Priced, ReturnCutoff, MoreDays, input, WithinCutoffDays, LateIsCharged
<1>3. ASSUME NEW o \in Offsets, Collect(deadline + o) PROVE Priced'
  <2>1. deadline + o \in Int
    BY OffsetsAreInts DEF Priced
  <2> QED BY <1>3, <2>1, CollectGrants
<1>4. CASE UNCHANGED vars
  BY <1>4 DEF vars, input, Priced, Granted, WithinCutoffDays, LateIsCharged
<1> QED BY <1>1, <1>2, <1>3, <1>4 DEF Next

\* Every reachable state satisfies it.
LEMMA PricedAlways == Spec => []Priced
<1>1. Init => Priced
  <2> SUFFICES ASSUME Init PROVE Priced
    OBVIOUS
  <2>1. deadline \in Nat /\ cutoff_days \in Int
    BY DeadlinesAreTimes, DaysAreInts DEF Init
  <2>2. LateDays(deadline, 0, weekends) = 0
    BY <2>1 DEF LateDays
  <2> QED BY <2>1, <2>2, GrantedInit DEF Init, Priced, WithinCutoffDays, LateIsCharged
<1> QED BY <1>1, PricedStep, PTL DEF Spec

\* For every deadline and number of days, a push before the cutoff is charged at
\* most cutoff_days late days: calculate_cutoff and calculate_late_submission_day
\* agree although one works weekend by weekend and the other in one division.
THEOREM CutoffIsSound == Spec => []WithinCutoffDays
<1>1. Priced => WithinCutoffDays
  BY DEF Priced
<1> QED BY <1>1, PricedAlways, PTL

\* For every deadline, the weekend discount never makes a late push free.
THEOREM LatenessIsCharged == Spec => []LateIsCharged
<1>1. Priced => LateIsCharged
  BY DEF Priced
<1> QED BY <1>1, PricedAlways, PTL

\* For every deadline and every two push times, the later one costs no less.
THEOREM PenaltyIsMonotone == Spec => LaterCostsMore
<1>1. Priced /\ [Next]_vars => [push' > push => delay' >= delay]_vars
  <2> SUFFICES ASSUME Priced, NEW o \in Offsets, Collect(deadline + o)
               PROVE  delay' >= delay
    BY DEF Next, Extend, ReturnCutoff, MoreDays, Priced, Granted
  <2> DEFINE t == deadline + o
  <2> DEFINE f == CountsAs(deadline)
  <2> DEFINE N(u) == (u - deadline + Day - 1) \div Day
  <2>1. t \in Int /\ push \in Int /\ deadline \in Int /\ weekends \in BOOLEAN /\ push < t
    BY OffsetsAreInts DEF Priced, Granted, Collect
  <2>2. delay = LateDays(deadline, push, weekends) /\ delay' = LateDays(deadline, t, weekends)
    BY DEF Priced, Collect
  <2>3. delay' \in Nat
    BY <2>1, AcceptedWithin DEF Priced, Collect
  <2>4. CASE push <= deadline
    BY <2>2, <2>3, <2>4 DEF LateDays
  <2>5. CASE push > deadline
    <3>1. N(push) \in Nat /\ N(t) \in Nat /\ N(push) <= N(t)
      BY <2>1, <2>5 DEF Day
    <3>2. /\ delay = (IF weekends THEN Charged(f, N(push)) ELSE N(push))
          /\ delay' = (IF weekends THEN Charged(f, N(t)) ELSE N(t))
      BY <2>1, <2>2, <2>5 DEF LateDays
    <3>3. f \in 0..6
      BY <2>1, WeekdayRange
    <3> HIDE DEF N, f
    <3>4. /\ Charged(f, N(push)) <= Charged(f, N(t))
          /\ Charged(f, N(push)) \in 0..N(push) /\ Charged(f, N(t)) \in 0..N(t)
      BY <3>1, <3>3, ChargedMonotone, ChargedRange
    <3> QED BY <3>1, <3>2, <3>4
  <2> QED BY <2>1, <2>4, <2>5
<1> QED BY <1>1, PricedAlways, PTL DEF LaterCostsMore, Spec

\* For every number of days, each iteration of the loop leaves at most half the
\* days and moves the cutoff on, so the loop ends.
THEOREM LoopShrinks == Spec => LoopHalves
<1>1. Priced /\ [Next]_vars =>
        [phase = "loop" /\ phase' = "loop" => 2 * day_left' <= day_left /\ cutoff' > cutoff]_vars
  <2> SUFFICES ASSUME Priced, Extend
               PROVE  2 * day_left' <= day_left /\ cutoff' > cutoff
    BY DEF Next, ReturnCutoff, Collect
  <2>1. day_left \in Nat \ {0} /\ cutoff \in Int
    BY DEF Priced, Granted, Extend, MoreDays
  <2>2. CountsAs(cutoff) \in 0..6
    BY <2>1, WeekdayRange
  <2>3. WeekendDays(CountsAs(cutoff), day_left) \in 0..day_left
    BY <2>1, <2>2, WeekendDaysRange
  <2>4. day_left' = WeekendDays(CountsAs(cutoff), day_left) \div 2 /\ cutoff' = cutoff + day_left * Day
    BY DEF Extend
  <2> QED BY <2>1, <2>3, <2>4 DEF Day
<1> QED BY <1>1, PricedAlways, PTL DEF LoopHalves, Spec

\* The types: no product of days and seconds and no division leaves the integers,
\* and a penalty is never negative.
THEOREM DeadlineTypeCorrect == Spec => []TypeOK
<1>1. Init => TypeOK
  BY DeadlinesAreTimes, DaysAreInts DEF Init, TypeOK
<1>2. TypeOK /\ Priced /\ [Next]_vars => TypeOK'
  <2> SUFFICES ASSUME TypeOK, Priced, [Next]_vars PROVE TypeOK'
    OBVIOUS
  <2>1. CASE Extend
    <3>1. Granted'
      BY <2>1, ExtendGrants DEF Priced
    <3> QED BY <2>1, <3>1 DEF Extend, TypeOK, Granted, input
  <2>2. CASE ReturnCutoff
    <3>1. Granted'
      BY <2>2, ReturnGrants DEF Priced
    <3> QED BY <2>2, <3>1 DEF ReturnCutoff, TypeOK, Granted, input
  <2>3. ASSUME NEW o \in Offsets, Collect(deadline + o) PROVE TypeOK'
    <3>1. deadline + o \in Int
      BY OffsetsAreInts DEF Priced
    <3>2. delay' \in Nat
      BY <2>3, <3>1, AcceptedWithin DEF Priced, Collect
    <3> QED BY <2>3, <3>1, <3>2 DEF Collect, TypeOK, input
  <2>4. CASE UNCHANGED vars
    BY <2>4 DEF vars, input, TypeOK
  <2> QED BY <2>1, <2>2, <2>3, <2>4 DEF Next
<1> QED BY <1>1, <1>2, PricedAlways, PTL DEF Spec

-----------------------------------------------------------------------------
(* The calendar.                                                           *)

LEMMA NatMin ==
  ASSUME NEW S \in SUBSET Nat, S # {}
  PROVE  \E x \in S : \A y \in S : x <= y
<1>1. PICK x \in S : \A y \in S : ~(<<y, x>> \in OpToRel(<, Nat))
  BY NatLessThanWellFounded, WFMin
<1>2. \A y \in S : ~(y < x)
  BY <1>1 DEF OpToRel
<1> QED BY <1>2

IsWeekend(d)    == d % 7 \in {0, 6}
Weekends(f, n)  == {i \in 0..n - 1 : IsWeekend(f + i)}

\* One more day is one more weekend day if it is one.
LEMMA OneMoreDay ==
  ASSUME NEW f \in 0..6, NEW n \in Nat
  PROVE  WeekendDays(f, n + 1) = WeekendDays(f, n) + IF IsWeekend(f + n) THEN 1 ELSE 0
BY DEF WeekendDays, WeekendDaysBefore, IsWeekend

\* The closed form of the code counts the weekend days of any stretch of days.
LEMMA WeekendCount ==
  ASSUME NEW f \in 0..6
  PROVE  \A n \in Nat : /\ IsFiniteSet(Weekends(f, n))
                        /\ Cardinality(Weekends(f, n)) = WeekendDays(f, n)
<1> DEFINE P(n) == /\ IsFiniteSet(Weekends(f, n))
                   /\ Cardinality(Weekends(f, n)) = WeekendDays(f, n)
<1>1. P(0)
  <2>1. Weekends(f, 0) = {}
    BY DEF Weekends
  <2>2. WeekendDays(f, 0) = 0
    BY DEF WeekendDays, WeekendDaysBefore
  <2> QED BY <2>1, <2>2, FS_EmptySet
<1>2. ASSUME NEW n \in Nat, P(n) PROVE P(n + 1)
  <2>1. WeekendDays(f, n + 1) = WeekendDays(f, n) + IF IsWeekend(f + n) THEN 1 ELSE 0
    BY OneMoreDay
  <2>2. n \notin Weekends(f, n)
    BY DEF Weekends
  <2>3. CASE IsWeekend(f + n)
    <3>1. Weekends(f, n + 1) = Weekends(f, n) \cup {n}
      BY <2>3 DEF Weekends
    <3>2. /\ IsFiniteSet(Weekends(f, n) \cup {n})
          /\ Cardinality(Weekends(f, n) \cup {n}) = Cardinality(Weekends(f, n)) + 1
      BY <1>2, <2>2, FS_AddElement
    <3> QED BY <1>2, <2>1, <2>3, <3>1, <3>2
  <2>4. CASE ~IsWeekend(f + n)
    <3>1. Weekends(f, n + 1) = Weekends(f, n)
      BY <2>4 DEF Weekends
    <3>2. WeekendDays(f, n + 1) = WeekendDays(f, n)
      <4>1. WeekendDays(f, n) \in Int
        BY DEF WeekendDays, WeekendDaysBefore
      <4> QED BY <2>1, <2>4, <4>1
    <3> QED BY <1>2, <3>1, <3>2
  <2> QED BY <2>3, <2>4
<1> HIDE DEF P
<1>3. {n \in Nat : ~P(n)} = {}
  <2> SUFFICES ASSUME {n \in Nat : ~P(n)} # {} PROVE FALSE
    OBVIOUS
  <2>1. PICK n \in {m \in Nat : ~P(m)} : \A y \in {m \in Nat : ~P(m)} : n <= y
    BY NatMin
  <2>2. n \in Nat \ {0} /\ n - 1 \in Nat /\ (n - 1) + 1 = n
    BY <1>1, <2>1
  <2>3. P(n - 1)
    BY <2>1, <2>2
  <2>4. P((n - 1) + 1)
    BY <1>2, <2>2, <2>3
  <2> QED BY <2>1, <2>2, <2>4
<1> QED BY <1>3 DEF P

\* The 24 hours after a deadline before noon lie for the most part on its own day,
\* those after any other deadline do not.
LEMMA MostOfTheDay ==
  ASSUME NEW d \in Int
  PROVE  LET today == Day - ((d + UTC8) % Day)
             first == Weekday(d) + (IF today > Day - today THEN 0 ELSE 1)
         IN first \in 0..7 /\ CountsAs(d) = first % 7
<1> DEFINE x     == (d + UTC8) % Day
           today == Day - x
           first == Weekday(d) + (IF today > Day - today THEN 0 ELSE 1)
<1>1. x \in Int /\ 0 <= x /\ x < Day
  BY SMT DEF UTC8, Hour, Day
<1>2. Morning(d) <=> x \div Hour < 12
  BY SMT DEF Morning
<1> HIDE DEF x
<1>3. Morning(d) <=> today > Day - today
  BY <1>1, <1>2, SMT DEF Hour, Day
<1>4. Weekday(d) \in 0..6
  BY SMT DEF Weekday, UTC8, Hour, Day
<1>5. first = Weekday(d) + IF Morning(d) THEN 0 ELSE 1
  BY <1>3, SMT
<1> HIDE DEF first
<1>6. first \in 0..7 /\ CountsAs(d) = first % 7
  BY <1>4, <1>5, SMT DEF CountsAs
<1> QED BY <1>6, SMT DEF first, x

\* For every deadline and push time the weekend discount, computed by two
\* divisions, is what counting the days one by one on the calendar gives.
THEOREM DiscountIsTheCalendars == Spec => []MatchesCalendar
<1>1. Priced => MatchesCalendar
  <2> SUFFICES ASSUME Priced, weekends, push > deadline PROVE MatchesCalendar
    BY DEF MatchesCalendar
  <2> DEFINE days  == (push - deadline + Day - 1) \div Day
             today == Day - ((deadline + UTC8) % Day)
             first == Weekday(deadline) + (IF today > Day - today THEN 0 ELSE 1)
             f     == CountsAs(deadline)
  <2>1. deadline \in Int /\ push \in Int /\ weekends \in BOOLEAN
    BY DEF Priced, Granted
  <2>2. days \in Nat /\ delay = Charged(f, days)
    BY <2>1, LateDaysCharged DEF Priced
  <2>3. f \in 0..6 /\ first \in 0..7 /\ f = first % 7
    BY <2>1, WeekdayRange, MostOfTheDay
  <2> HIDE DEF days, first, f
  <2>4. {i \in 0..days - 1 : (first + i) % 7 \in {0, 6}} = Weekends(f, days)
    <3>1. \A i \in Nat : (first + i) % 7 = (f + i) % 7
      BY <2>3
    <3>2. \A i \in 0..days - 1 : i \in Nat
      BY <2>2
    <3> QED BY <3>1, <3>2 DEF Weekends, IsWeekend
  <2>5. Cardinality(Weekends(f, days)) = WeekendDays(f, days)
    BY <2>2, <2>3, WeekendCount
  <2>6. delay = days - Cardinality({i \in 0..days - 1 : (first + i) % 7 \in {0, 6}}) \div 2
    BY <2>2, <2>4, <2>5 DEF Charged
  <2> QED BY <2>6 DEF MatchesCalendar, days, first
<1> QED BY <1>1, PricedAlways, PTL

=============================================================================
