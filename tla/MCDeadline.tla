----------------------------- MODULE MCDeadline -----------------------------
(* A week of deadlines at the times of day where the weekday changes.      *)
EXTENDS Deadline

\* In UTC+8: 11:59:59, 12:00:00, 23:59:59 and 00:00:00 of the next day.
MCDeadlines == {d * Day + h : d \in 1..7, h \in {14399, 14400, 57599, 57600}}
\* A negative and a zero argument, and enough days for four iterations.
MCDays == -1..16
\* The deadline itself, then the ends of days and a second around them.
MCOffsets == {-1, 0} \cup {n * Day + e : n \in 0..24, e \in {1, Day}}
=============================================================================
