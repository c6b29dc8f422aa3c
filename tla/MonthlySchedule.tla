--------------------------- MODULE MonthlySchedule ---------------------------
(***************************************************************************)
(* The deployed schedule over the months: the provisioned rules fire as    *)
(* the clock advances, operators send events of their own (backfills), and *)
(* the handler resolves the period of each delivery and reports it.        *)
(* Deliveries wait, raise, are retried and are duplicated while the clock  *)
(* goes on and while the script provisions again.  An invocation is one    *)
(* step here; ScheduledReport has it transaction by transaction.           *)
(***************************************************************************)
EXTENDS Provisioning, Periods, FiniteSets

CONSTANTS
    Clock,          \* the instants the clock visits
    FireTick,       \* when the monthly schedule fires on the first, 03:00
    Monthly,        \* the schedule cron(0 3 1 * ? *); the others are rates
    Manual,         \* events operators may send, each once
    MaxSent,        \* bounds the events sent by hand
    MaxAttempts,    \* Lambda's first attempt and its retries
    MaxAge,         \* ticks Lambda keeps an event for, six hours
    Timestamps      \* instants of transactions

ASSUME ScheduleAssumption ==
    /\ Clock \subseteq Instants
    /\ FireTick \in 0 .. LastTick
    /\ Monthly \in Schedules
    /\ Manual \subseteq Events
    /\ MaxSent \in Nat /\ MaxAttempts \in Nat \ {0} /\ MaxAge \in 0 .. LastTick
    /\ Timestamps \subseteq Instants
    /\ None \notin Times \cup Dates \cup Rules \cup Offsets

(* EventBridge misses no firing instant, so neither does the clock.        *)
ASSUME FiringAssumption ==
    \A i, j \in Clock : \A k \in i.month .. j.month :
        LET f == [month |-> k, day |-> 1, tick |-> FireTick] IN
        AtOrBefore(i, f) /\ AtOrBefore(f, j) => f \in Clock

VARIABLES
    now,        \* the clock, in UTC
    fired,      \* events so far: [rule, event], rule None if sent by hand
    owed,       \* deliveries Lambda owes: the event, since when, attempts left
    answers,    \* successful invocations: the event, the instant it counts
                \* from, and the period reported
    givenUp     \* events whose last attempt raised

scheduleVars == <<now, fired, owed, answers, givenUp>>
allVars == <<provisionVars, scheduleVars>>

Fired == [rule : Rules \cup {None}, event : Events]
Period == [start : Dates, end : Dates]

ScheduleTypeOK ==
    /\ ProvisioningTypeOK
    /\ now \in Clock
    /\ fired \subseteq Fired
    /\ owed \subseteq [fired : fired, since : Clock, left : 1 .. MaxAttempts]
    /\ answers \subseteq [fired : fired, reference : Instants, period : Period]
    /\ givenUp \subseteq fired

ScheduleInit ==
    /\ ProvisioningInit
    /\ now \in Clock /\ \A i \in Clock : AtOrBefore(now, i)
    /\ fired = {} /\ owed = {} /\ answers = {} /\ givenUp = {}

-----------------------------------------------------------------------------
(* EventBridge and Lambda (external).                                      *)

(* No instant of the clock is jumped over.                                 *)
IsNext(i) ==
    /\ i \in Clock /\ i # now
    /\ AtOrBefore(now, i)
    /\ \A j \in Clock : AtOrBefore(j, now) \/ AtOrBefore(i, j)

FireInstant(k) == [month |-> k, day |-> 1, tick |-> FireTick]

(* A rate of minutes fires at every instant.                               *)
IsDue(schedule, i) ==
    IF schedule = Monthly THEN i = FireInstant(i.month) ELSE schedule # Absent

(* The standard scheduled event.  Its time is in UTC.                      *)
ScheduledEvent(i) == [time |-> [at |-> i, offset |-> 0], start |-> None, end |-> None]

Due(i) == {[rule |-> r, event |-> ScheduledEvent(i)] :
              r \in {r \in targeted : IsDue(rules[r], i)}}

(* EventBridge drops an event it may not deliver.                          *)
Deliverable == {r \in permitted : FunctionExists}

Owe(f, i) == [fired |-> f, since |-> i, left |-> MaxAttempts]

(* An event is delivered, or its attempts are used up, within MaxAge.      *)
Later(i, ticks) == AsUtc([at |-> i, offset |-> - ticks])

Tick ==
    \E i \in Clock :
        /\ IsNext(i)
        /\ \A d \in owed : AtOrBefore(i, Later(d.since, MaxAge))
        /\ now' = i
        /\ fired' = fired \cup Due(i)
        /\ owed' = owed \cup {Owe(f, i) : f \in {f \in Due(i) : f.rule \in Deliverable}}
        /\ UNCHANGED <<provisionVars, answers, givenUp>>

(* aws lambda invoke.                                                      *)
Send(e) ==
    LET f == [rule |-> None, event |-> e] IN
    /\ FunctionExists
    /\ f \notin fired
    /\ Cardinality({g \in fired : g.rule = None}) < MaxSent
    /\ fired' = fired \cup {f}
    /\ owed' = owed \cup {Owe(f, now)}
    /\ UNCHANGED <<provisionVars, now, answers, givenUp>>

-----------------------------------------------------------------------------
(* The handler.                                                            *)

(* The instant an event counts from: its own, or the attempt's.            *)
Reference(e) == IF e.time = None THEN now ELSE AsUtc(e.time)

(* The report is made, or the one of the period reused.  Delivery is at    *)
(* least once: what was answered may be delivered again.                   *)
Report(d) ==
    /\ IsValid(d.fired.event)
    /\ answers' = answers \cup {[fired |-> d.fired,
                                 reference |-> Reference(d.fired.event),
                                 period |-> ResolvePeriod(d.fired.event, now)]}
    /\ \/ owed' = owed \ {d}
       \/ /\ d.left > 1
          /\ owed' = (owed \ {d}) \cup {[d EXCEPT !.left = @ - 1]}
    /\ UNCHANGED <<provisionVars, now, fired, givenUp>>

(* The event is invalid, or anything below raises; Lambda tries again.     *)
Raise(d) ==
    /\ IF d.left > 1
       THEN /\ owed' = (owed \ {d}) \cup {[d EXCEPT !.left = @ - 1]}
            /\ UNCHANGED givenUp
       ELSE /\ owed' = owed \ {d}
            /\ givenUp' = givenUp \cup {d.fired}
    /\ UNCHANGED <<provisionVars, now, fired, answers>>

ScheduleNext ==
    \/ ProvisioningNext /\ UNCHANGED scheduleVars
    \/ Tick
    \/ \E e \in Manual : Send(e)
    \/ \E d \in owed : Report(d) \/ Raise(d)

ScheduleSpec == ScheduleInit /\ [][ScheduleNext]_allVars

-----------------------------------------------------------------------------
(* The properties.                                                         *)

MonthPeriod(k) ==
    [start |-> [month |-> k, day |-> 1], end |-> [month |-> k, day |-> DaysIn(k)]]

(* An event without dates reports the whole calendar month before the one  *)
(* its time falls in, in UTC and whatever its offset, in every attempt;    *)
(* without a time, the month before the attempt's.                         *)
MonthThatJustEnded ==
    \A a \in answers : a.fired.event.start = None =>
        a.period = MonthPeriod(a.reference.month - 1)

ReportedPeriods == {a.period : a \in {a \in answers : a.fired.event.start = None}}

(* A transaction is in the report of at most one month: the months that    *)
(* are reported do not overlap, to the tick.                               *)
NoInstantIsReportedTwice ==
    \A i \in Timestamps : \A p, q \in ReportedPeriods :
        InPeriod(i, p) /\ InPeriod(i, q) => p = q

(* Once a rule has fired, no month is skipped however the function and its *)
(* rules are provisioned again: when a month's firing instant has passed,  *)
(* each instant of the month is in a report, or the month's event is still *)
(* owed an attempt, or its attempts were used up.                          *)
NoInstantIsSkipped ==
    \A f \in fired : \A i \in Timestamps :
        /\ f.rule # None
        /\ AtOrBefore(f.event.time.at, FireInstant(i.month + 1))
        /\ AtOrBefore(FireInstant(i.month + 1), now)
        => \/ \E p \in ReportedPeriods : InPeriod(i, p)
           \/ \E g \in givenUp \cup {d.fired : d \in owed} :
                g.rule # None /\ g.event.time.at = FireInstant(i.month + 1)
=============================================================================
