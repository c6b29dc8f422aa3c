-------------------------- MODULE MCMonthlySchedule --------------------------
(* A small instance of MonthlySchedule: an hour is a tick, and the clock    *)
(* visits three firings, for the last month of a year, the first of the     *)
(* next, and a leap February, and an instant before midnight from which a   *)
(* delivery may wait into the next month.                                   *)
EXTENDS MonthlySchedule, TLC

CONSTANTS b1, b2, s1, s2, artifacts_bucket, rule1, rule2,
          cron, rate

MonthOf(y, m) == 12 * y + m - 1

Day(y, m, d) == [month |-> MonthOf(y, m), day |-> d]
First(k) == [month |-> k, day |-> 1]
Last(k) == [month |-> k, day |-> DaysIn(k)]

Dec == MonthOf(2023, 12)
Jan == MonthOf(2024, 1)
Feb == MonthOf(2024, 2)
Mar == MonthOf(2024, 3)

MCClock == {At(First(k), 3) : k \in {Jan, Feb, Mar}} \cup {At(Last(Jan), LastTick)}

MCTimestamps ==
    {At(First(k), 0) : k \in {Dec, Jan, Feb, Mar}}
        \cup {At(Last(k), LastTick) : k \in {Dec, Jan, Feb}}

(* The README's event, already February in UTC; an event without a time;    *)
(* a backfill; half an override.                                            *)
Timed(d, t, o) == [time |-> [at |-> At(d, t), offset |-> o], start |-> None, end |-> None]
MCManual ==
    { Timed(Day(2024, 1, 31), 23, -5),
      [time |-> None, start |-> None, end |-> None],
      [time |-> None, start |-> Day(2024, 1, 1), end |-> Day(2024, 1, 31)],
      [time |-> None, start |-> Day(2024, 1, 1), end |-> None] }

Deploy(b, s, r, e) ==
    [build |-> b, settings |-> s, bucket |-> artifacts_bucket,
     ensure |-> {artifacts_bucket}, rule |-> r, schedule |-> e]

MCConfigs == {Deploy(b1, s1, rule1, cron), Deploy(b2, s2, rule2, rate)}
=============================================================================
