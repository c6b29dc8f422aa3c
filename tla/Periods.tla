------------------------------- MODULE Periods -------------------------------
(***************************************************************************)
(* Which month a scheduled event reports, and which instants belong to the *)
(* report of a period: previous_month_period, ScheduledReportEvent and the *)
(* boundaries of TransactionRepository.list_for_period.                    *)
(*                                                                         *)
(* Month k is month (k % 12) + 1 of year k \div 12.  A date is a month and *)
(* a day, an instant (in UTC) also a tick, the resolution of timestamps: a *)
(* microsecond in Python and in PostgreSQL, an hour in the runs.           *)
(***************************************************************************)
EXTENDS Integers

CONSTANTS
    LastTick,   \* the ticks of a day are 0 .. LastTick: time.min .. time.max
    None        \* a field an event does not have

ASSUME TickAssumption == LastTick \in Nat

-----------------------------------------------------------------------------
(* Python's datetime (external): the proleptic Gregorian calendar.         *)

IsLeap(y) == y % 4 = 0 /\ (y % 100 # 0 \/ y % 400 = 0)

DaysIn(k) ==
    IF k % 12 = 1 THEN IF IsLeap(k \div 12) THEN 29 ELSE 28
    ELSE IF k % 12 \in {3, 5, 8, 10} THEN 30 ELSE 31

Dates == {d \in [month : Int, day : 1 .. 31] : d.day <= DaysIn(d.month)}

Instants ==
    {i \in [month : Int, day : 1 .. 31, tick : 0 .. LastTick] :
        i.day <= DaysIn(i.month)}

DateOf(i) == [month |-> i.month, day |-> i.day]
At(d, t) == [month |-> d.month, day |-> d.day, tick |-> t]

DateAtOrBefore(a, b) ==
    a.month < b.month \/ (a.month = b.month /\ a.day <= b.day)

AtOrBefore(a, b) ==
    IF DateOf(a) = DateOf(b) THEN a.tick <= b.tick ELSE DateAtOrBefore(a, b)

(* Faulty: day arithmetic without the calendar.                            *)
DayBeforeUncarried(d) == [d EXCEPT !.day = @ - 1]

DayBefore(d) ==
    IF d.day > 1 THEN [d EXCEPT !.day = @ - 1]
    ELSE [month |-> d.month - 1, day |-> DaysIn(d.month - 1)]

DayAfter(d) ==
    IF d.day < DaysIn(d.month) THEN [d EXCEPT !.day = @ + 1]
    ELSE [month |-> d.month + 1, day |-> 1]

(* astimezone(UTC).  A wall-clock time is an instant and its offset from   *)
(* UTC in ticks, or None if it is naive: resolve_period takes it for UTC.  *)
Offsets == -LastTick .. LastTick
Times == [at : Instants, offset : Offsets \cup {None}]

AsUtc(t) ==
    IF t.offset = None THEN t.at
    ELSE LET tick == t.at.tick - t.offset
             date == DateOf(t.at)
         IN IF tick < 0 THEN At(DayBefore(date), tick + LastTick + 1)
            ELSE IF tick > LastTick THEN At(DayAfter(date), tick - LastTick - 1)
            ELSE At(date, tick)

-----------------------------------------------------------------------------
(* The period policy.                                                      *)

PreviousMonthPeriod(reference) ==
    LET last == DayBefore([reference EXCEPT !.day = 1])
    IN [start |-> [last EXCEPT !.day = 1], end |-> last]

(* An event as the handler parses it.                                      *)
Events ==
    [time : Times \cup {None}, start : Dates \cup {None}, end : Dates \cup {None}]

(* _validate_period_override; the handler raises for any other event.      *)
IsValid(e) ==
    /\ e.start = None <=> e.end = None
    /\ e.start # None => DateAtOrBefore(e.start, e.end)

(* Faulty: the date of an event's time in its own offset.                  *)
ResolveLocalPeriod(e, now) ==
    IF e.start # None /\ e.end # None THEN [start |-> e.start, end |-> e.end]
    ELSE PreviousMonthPeriod(DateOf(IF e.time # None THEN e.time.at ELSE now))

ResolvePeriod(e, now) ==
    IF e.start # None /\ e.end # None THEN [start |-> e.start, end |-> e.end]
    ELSE PreviousMonthPeriod(DateOf(IF e.time # None THEN AsUtc(e.time) ELSE now))

-----------------------------------------------------------------------------
(* The transactions of a period.                                           *)

(* Faulty: up to midnight after the last day, which the next period has.   *)
InPeriodThroughMidnight(i, p) ==
    AtOrBefore(At(p.start, 0), i) /\ AtOrBefore(i, At(DayAfter(p.end), 0))

(* Faulty: the end's date is taken for its midnight.                       *)
InPeriodToMidnight(i, p) ==
    AtOrBefore(At(p.start, 0), i) /\ AtOrBefore(i, At(p.end, 0))

InPeriod(i, p) ==
    AtOrBefore(At(p.start, 0), i) /\ AtOrBefore(i, At(p.end, LastTick))
=============================================================================
