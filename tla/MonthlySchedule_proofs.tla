------------------------ MODULE MonthlySchedule_proofs ------------------------
(***************************************************************************)
(* Proofs about the calendar, the provisioning script and the schedule.    *)
(***************************************************************************)
EXTENDS MonthlySchedule, TLAPS

-----------------------------------------------------------------------------
(* The calendar.                                                           *)

LEMMA MonthLengths == \A k \in Int : DaysIn(k) \in 28 .. 31
  BY DEF DaysIn, IsLeap

LEMMA DatesNearby ==
    ASSUME NEW d \in Dates
    PROVE  DayBefore(d) \in Dates /\ DayAfter(d) \in Dates
  <1>1. d.month \in Int /\ d.day \in 1 .. 31 /\ d.day <= DaysIn(d.month)
    BY DEF Dates
  <1>2. DaysIn(d.month - 1) \in 28 .. 31 /\ DaysIn(d.month + 1) \in 28 .. 31
        /\ DaysIn(d.month) \in 28 .. 31
    BY <1>1, MonthLengths
  <1>3. DayBefore(d) \in Dates
    BY <1>1, <1>2 DEF DayBefore, Dates
  <1>4. DayAfter(d) \in Dates
    BY <1>1, <1>2 DEF DayAfter, Dates
  <1> QED BY <1>3, <1>4

LEMMA InstantsHaveDates == \A i \in Instants : DateOf(i) \in Dates
  BY DEF Instants, DateOf, Dates

LEMMA AtIsAnInstant ==
    ASSUME NEW d \in Dates, NEW t \in 0 .. LastTick
    PROVE  At(d, t) \in Instants
  BY DEF At, Instants, Dates

(* Every wall-clock time is an instant in UTC.                             *)
LEMMA UtcInstants ==
    ASSUME NEW t \in Times
    PROVE  AsUtc(t) \in Instants
  <1>1. t.at \in Instants /\ t.offset \in Offsets \cup {None}
    BY DEF Times
  <1>2. CASE t.offset = None
    BY <1>1, <1>2 DEF AsUtc
  <1>3. CASE t.offset # None
    <2> DEFINE tick == t.at.tick - t.offset
               date == DateOf(t.at)
    <2>1. t.offset \in -LastTick .. LastTick /\ t.at.tick \in 0 .. LastTick
      BY <1>1, <1>3 DEF Offsets, Instants
    <2>2. date \in Dates
      BY <1>1, InstantsHaveDates
    <2>3. DayBefore(date) \in Dates /\ DayAfter(date) \in Dates
      BY <2>2, DatesNearby
    <2>4. CASE tick < 0
      <3>1. tick + LastTick + 1 \in 0 .. LastTick
        BY <2>1, <2>4, TickAssumption
      <3> QED BY <1>3, <2>3, <2>4, <3>1, AtIsAnInstant DEF AsUtc
    <2>5. CASE tick > LastTick
      <3>1. tick - LastTick - 1 \in 0 .. LastTick /\ ~ tick < 0
        BY <2>1, <2>5, TickAssumption
      <3> QED BY <1>3, <2>3, <2>5, <3>1, AtIsAnInstant DEF AsUtc
    <2>6. CASE ~ tick < 0 /\ ~ tick > LastTick
      <3>1. tick \in 0 .. LastTick
        BY <2>1, <2>6, TickAssumption
      <3> QED BY <1>3, <2>2, <2>6, <3>1, AtIsAnInstant DEF AsUtc
    <2> QED BY <2>4, <2>5, <2>6
  <1> QED BY <1>2, <1>3

(* previous_month_period: all of the month before the reference's, at the  *)
(* end of a year and in leap years too.                                    *)
THEOREM PreviousMonthIsWhole ==
    ASSUME NEW d \in Dates
    PROVE  PreviousMonthPeriod(d) = MonthPeriod(d.month - 1)
  <1>1. d.month \in Int /\ d.day \in 1 .. 31
    BY DEF Dates
  <1>2. DayBefore([d EXCEPT !.day = 1]) = [month |-> d.month - 1, day |-> DaysIn(d.month - 1)]
    BY <1>1 DEF DayBefore, Dates
  <1> QED BY <1>2 DEF PreviousMonthPeriod, MonthPeriod

(* list_for_period: an instant belongs to the period of its own month and  *)
(* of no other, so months leave no gap and share no tick.                  *)
THEOREM MonthsPartitionTime ==
    ASSUME NEW i \in Instants, NEW k \in Int
    PROVE  InPeriod(i, MonthPeriod(k)) <=> i.month = k
  <1>1. /\ i.month \in Int /\ i.day \in 1 .. 31 /\ i.tick \in 0 .. LastTick
        /\ i.day <= DaysIn(i.month)
    BY DEF Instants
  <1>2. DaysIn(k) \in 28 .. 31
    BY MonthLengths
  <1>3. LastTick \in Nat
    BY TickAssumption
  <1>4. AtOrBefore(At(MonthPeriod(k).start, 0), i) <=> k <= i.month
    BY <1>1, <1>3 DEF AtOrBefore, DateAtOrBefore, DateOf, At, MonthPeriod
  <1>5. AtOrBefore(i, At(MonthPeriod(k).end, LastTick)) <=> i.month <= k
    BY <1>1, <1>2, <1>3 DEF AtOrBefore, DateAtOrBefore, DateOf, At, MonthPeriod
  <1> QED BY <1>1, <1>4, <1>5 DEF InPeriod

(* The instants are ordered.                                               *)
LEMMA InstantsAreOrdered ==
    ASSUME NEW i \in Instants, NEW j \in Instants
    PROVE  /\ AtOrBefore(i, i)
           /\ AtOrBefore(i, j) \/ AtOrBefore(j, i)
           /\ AtOrBefore(i, j) /\ AtOrBefore(j, i) => i = j
           /\ AtOrBefore(i, j) => i.month <= j.month
           /\ \A k \in Instants : AtOrBefore(i, j) /\ AtOrBefore(j, k) => AtOrBefore(i, k)
  <1> USE TickAssumption DEF AtOrBefore, DateAtOrBefore, DateOf
  <1>1. \A k \in Instants : /\ k = [month |-> k.month, day |-> k.day, tick |-> k.tick]
                            /\ k.month \in Int /\ k.day \in Int /\ k.tick \in Int
    BY DEF Instants
  <1>2. AtOrBefore(i, i)
    BY <1>1
  <1>3. AtOrBefore(i, j) \/ AtOrBefore(j, i)
    BY <1>1
  <1>4. AtOrBefore(i, j) /\ AtOrBefore(j, i) => i = j
    BY <1>1
  <1>5. AtOrBefore(i, j) => i.month <= j.month
    BY <1>1
  <1>6. ASSUME NEW k \in Instants, AtOrBefore(i, j), AtOrBefore(j, k)
        PROVE  AtOrBefore(i, k)
    BY <1>1, <1>6
  <1> QED BY <1>2, <1>3, <1>4, <1>5, <1>6

LEMMA FireInstants == \A k \in Int : FireInstant(k) \in Instants
  BY MonthLengths, ScheduleAssumption DEF FireInstant, Instants

-----------------------------------------------------------------------------
(* The provisioning script.                                                *)

LEMMA ProvisioningTypes ==
    ASSUME ProvisioningTypeOK, ProvisioningNext
    PROVE  ProvisioningTypeOK'
  <1> USE ProvisioningAssumption DEF ProvisionConfig, ProvisioningTypeOK, Goto,
                                     awsVars, scriptVars, Ended, Steps
  <1>0. stage \in Steps => Package \in Builds \cup {Absent}
    <2>1. SUFFICES ASSUME config \in Configs PROVE Package \in Builds \cup {Absent}
      OBVIOUS
    <2>2. config.bucket \in Buckets /\ config.build \in Builds
      BY <2>1
    <2> QED BY <2>2 DEF Package, ArtifactKey
  <1>1. ASSUME NEW c \in Configs, Begin(c) PROVE ProvisioningTypeOK'
    BY <1>1 DEF Begin
  <1>2. ASSUME NEW b \in Buckets, EnsureBucket(b) PROVE ProvisioningTypeOK'
    BY <1>2 DEF EnsureBucket
  <1>3. CASE EnsuredBuckets
    BY <1>3 DEF EnsuredBuckets
  <1>4. CASE UploadPackage
    BY <1>4 DEF UploadPackage, ArtifactKey
  <1>5. CASE LookupFunction
    BY <1>5 DEF LookupFunction
  <1>6. CASE UpdateFunctionCode
    BY <1>6, <1>0 DEF UpdateFunctionCode
  <1>7. CASE UpdateFunctionConfiguration
    BY <1>7 DEF UpdateFunctionConfiguration
  <1>8. CASE CreateFunction
    BY <1>8, <1>0 DEF CreateFunction
  <1>9. CASE WaitUntilUpdatable
    BY <1>9 DEF WaitUntilUpdatable
  <1>10. CASE PutRule
    BY <1>10 DEF PutRule
  <1>11. CASE AddPermission
    BY <1>11 DEF AddPermission
  <1>12. CASE PutTargets
    BY <1>12 DEF PutTargets
  <1>13. CASE Fail
    BY <1>13 DEF Fail
  <1>14. CASE Settle
    BY <1>14 DEF Settle
  <1> QED BY <1>1, <1>2, <1>3, <1>4, <1>5, <1>6, <1>7, <1>8, <1>9, <1>10, <1>11,
             <1>12, <1>13, <1>14 DEF ProvisioningNext, Provision

(* What a run has established by the time it is at a stage; each call      *)
(* relies on what the calls before it left.                                *)
AfterUpload == {"lookup", "create", "code", "wait_code", "settings", "wait",
                "rule", "permit", "target", "done"}
AfterCode == {"wait_code", "settings", "wait", "rule", "permit", "target", "done"}
AfterSettings == {"wait", "rule", "permit", "target", "done"}

Established ==
    /\ \A b \in Buckets : \A k \in Builds : artifacts[b][k] \in {k, Absent}
    /\ stage \in AfterUpload => artifacts[config.bucket][config.build] = config.build
    /\ stage \in {"code"} \cup AfterCode => FunctionExists
    /\ stage \in AfterCode => function.code = config.build
    /\ stage \in AfterSettings => function.settings = config.settings
    /\ stage \in {"settings", "rule", "permit", "target", "done"} => settled
    /\ stage \in {"permit", "target", "done"} => rules[config.rule] = config.schedule
    /\ stage \in {"target", "done"} => config.rule \in permitted

ProvisioningInv == ProvisioningTypeOK /\ TargetsAreReachable /\ Established

LEMMA ProvisioningStep ==
    ASSUME ProvisioningInv, ProvisioningNext
    PROVE  TargetsAreReachable' /\ Established'
  <1> USE ProvisioningAssumption
      DEF ProvisionConfig, ProvisioningInv, ProvisioningTypeOK, TargetsAreReachable,
          Established, FunctionExists, Goto, awsVars, scriptVars, Ended, Steps, AfterUpload,
          AfterCode, AfterSettings
  <1>1. ASSUME NEW c \in Configs, Begin(c) PROVE TargetsAreReachable' /\ Established'
    BY <1>1 DEF Begin
  <1>2. ASSUME NEW b \in Buckets, EnsureBucket(b)
        PROVE  TargetsAreReachable' /\ Established'
    BY <1>2 DEF EnsureBucket
  <1>3. CASE EnsuredBuckets
    BY <1>3 DEF EnsuredBuckets
  <1>4. CASE UploadPackage
    BY <1>4 DEF UploadPackage, ArtifactKey
  <1>5. CASE LookupFunction
    BY <1>5 DEF LookupFunction
  <1>6. CASE UpdateFunctionCode
    BY <1>6 DEF UpdateFunctionCode, Package, ArtifactKey
  <1>7. CASE UpdateFunctionConfiguration
    BY <1>7 DEF UpdateFunctionConfiguration
  <1>8. CASE CreateFunction
    BY <1>8 DEF CreateFunction, Package, ArtifactKey
  <1>9. CASE WaitUntilUpdatable
    BY <1>9 DEF WaitUntilUpdatable
  <1>10. CASE PutRule
    BY <1>10 DEF PutRule
  <1>11. CASE AddPermission
    BY <1>11 DEF AddPermission
  <1>12. CASE PutTargets
    BY <1>12 DEF PutTargets
  <1>13. CASE Fail
    BY <1>13 DEF Fail
  <1>14. CASE Settle
    BY <1>14 DEF Settle
  <1> QED BY <1>1, <1>2, <1>3, <1>4, <1>5, <1>6, <1>7, <1>8, <1>9, <1>10, <1>11,
             <1>12, <1>13, <1>14 DEF ProvisioningNext, Provision

-----------------------------------------------------------------------------
(* The schedule.                                                           *)

(* What an answer reports follows from its event and the instant it counts *)
(* from; an event with a time counts from that.                            *)
AnswersFollowTheirEvents ==
    \A a \in answers :
        /\ a.fired.event.start = None =>
               a.period = MonthPeriod(a.reference.month - 1)
        /\ a.fired.event.time # None => a.reference = AsUtc(a.fired.event.time)

Ruled == {f \in fired : f.rule # None}

(* Rules that have fired still have their target; what they fired is in    *)
(* the past.                                                               *)
FiredByTargets ==
    \A f \in Ruled :
        /\ f.rule \in targeted
        /\ f.event.time.at \in Clock
        /\ f.event = ScheduledEvent(f.event.time.at)
        /\ AtOrBefore(f.event.time.at, now)

(* A rule that has fired has fired at every firing instant since.          *)
FiredEverySince ==
    \A f \in Ruled : \A k \in Int :
        AtOrBefore(f.event.time.at, FireInstant(k)) /\ AtOrBefore(FireInstant(k), now) =>
            [rule |-> f.rule, event |-> ScheduledEvent(FireInstant(k))] \in fired

(* No event is lost on its way to an answer or to its last attempt.        *)
FiredIsTakenUp ==
    \A f \in Ruled :
        \/ f \in givenUp
        \/ \E d \in owed : d.fired = f
        \/ \E a \in answers : a.fired = f

ScheduleInv ==
    /\ ScheduleTypeOK
    /\ TargetsAreReachable
    /\ Established
    /\ AnswersFollowTheirEvents
    /\ FiredByTargets
    /\ FiredEverySince
    /\ FiredIsTakenUp

LEMMA ScheduledEvents ==
    ASSUME NEW i \in Instants
    PROVE  /\ ScheduledEvent(i) \in Events
           /\ ScheduledEvent(i).time # None
           /\ ScheduledEvent(i).time.at = i
           /\ AsUtc(ScheduledEvent(i).time) = i
  <1>1. 0 \in Offsets /\ 0 # None
    BY TickAssumption, ScheduleAssumption DEF Offsets
  <1>2. [at |-> i, offset |-> 0] \in Times
    BY <1>1 DEF Times
  <1>3. ScheduledEvent(i) \in Events /\ ScheduledEvent(i).time # None
    BY <1>2, ScheduleAssumption DEF ScheduledEvent, Events
  <1>4. i.tick \in 0 .. LastTick /\ LastTick \in Nat
    BY TickAssumption DEF Instants
  <1>5. AsUtc([at |-> i, offset |-> 0]) = At(DateOf(i), i.tick)
    BY <1>1, <1>4 DEF AsUtc
  <1>6. At(DateOf(i), i.tick) = i
    BY DEF At, DateOf, Instants
  <1> QED BY <1>3, <1>5, <1>6 DEF ScheduledEvent

LEMMA ResolvedPeriods ==
    ASSUME NEW e \in Events, IsValid(e), NEW i \in Instants
    PROVE  /\ ResolvePeriod(e, i) \in Period
           /\ e.start = None =>
                ResolvePeriod(e, i) =
                  MonthPeriod((IF e.time # None THEN AsUtc(e.time) ELSE i).month - 1)
  <1> DEFINE reference == IF e.time # None THEN AsUtc(e.time) ELSE i
  <1>1. /\ e.time \in Times \cup {None} /\ e.start \in Dates \cup {None}
        /\ e.end \in Dates \cup {None}
    BY DEF Events
  <1>2. reference \in Instants
    BY <1>1, UtcInstants
  <1>3. DateOf(reference) \in Dates /\ DateOf(reference).month = reference.month
    BY <1>2, InstantsHaveDates DEF DateOf
  <1>4. PreviousMonthPeriod(DateOf(reference)) = MonthPeriod(reference.month - 1)
    BY <1>3, PreviousMonthIsWhole
  <1>5. CASE e.start = None
    <2>1. ResolvePeriod(e, i) = MonthPeriod(reference.month - 1)
      BY <1>4, <1>5 DEF ResolvePeriod
    <2>2. reference.month - 1 \in Int
      BY <1>2 DEF Instants
    <2>3. MonthPeriod(reference.month - 1) \in Period
      BY <2>2, MonthLengths DEF MonthPeriod, Period, Dates
    <2> QED BY <1>5, <2>1, <2>3
  <1>6. CASE e.start # None
    <2>1. e.end # None
      BY <1>6 DEF IsValid
    <2> QED BY <1>1, <1>6, <2>1 DEF ResolvePeriod, Period
  <1> QED BY <1>5, <1>6

LEMMA TypesAfterTick ==
    ASSUME ScheduleInv, Tick
    PROVE  ScheduleTypeOK'
  <1> PICK i \in Clock :
         /\ now' = i
         /\ fired' = fired \cup Due(i)
         /\ owed' = owed \cup {Owe(f, i) : f \in {f \in Due(i) : f.rule \in Deliverable}}
         /\ UNCHANGED <<provisionVars, answers, givenUp>>
    BY DEF Tick
  <1>1. ScheduledEvent(i) \in Events
    BY ScheduledEvents, ScheduleAssumption
  <1>2. Due(i) \subseteq Fired
    BY <1>1 DEF Due, Fired, ScheduleInv, ScheduleTypeOK, ProvisioningTypeOK
  <1>3. \A f \in Due(i) : Owe(f, i) \in [fired : fired', since : Clock, left : 1 .. MaxAttempts]
    BY ScheduleAssumption DEF Owe
  <1>4. ProvisioningTypeOK'
    BY DEF ScheduleInv, ScheduleTypeOK, ProvisioningTypeOK, provisionVars, awsVars, scriptVars
  <1>5. owed' \subseteq [fired : fired', since : Clock, left : 1 .. MaxAttempts]
    BY <1>3 DEF ScheduleInv, ScheduleTypeOK
  <1> QED BY <1>2, <1>4, <1>5 DEF ScheduleInv, ScheduleTypeOK

LEMMA TypesAfterSend ==
    ASSUME ScheduleInv, NEW e \in Manual, Send(e)
    PROVE  ScheduleTypeOK'
  <1> DEFINE f == [rule |-> None, event |-> e]
  <1>1. f \in Fired
    BY ScheduleAssumption DEF Fired
  <1>2. ProvisioningTypeOK'
    BY DEF Send, ScheduleInv, ScheduleTypeOK, ProvisioningTypeOK, provisionVars, awsVars, scriptVars
  <1>3. Owe(f, now) \in [fired : fired', since : Clock, left : 1 .. MaxAttempts]
    BY ScheduleAssumption DEF Owe, Send, ScheduleInv, ScheduleTypeOK
  <1>4. owed' \subseteq [fired : fired', since : Clock, left : 1 .. MaxAttempts]
    BY <1>3 DEF Send, ScheduleInv, ScheduleTypeOK
  <1> QED BY <1>1, <1>2, <1>4 DEF Send, ScheduleInv, ScheduleTypeOK

LEMMA AttemptUsed ==
    ASSUME ScheduleTypeOK, NEW d \in owed, d.left > 1
    PROVE  /\ [d EXCEPT !.left = @ - 1] \in [fired : fired, since : Clock, left : 1 .. MaxAttempts]
           /\ [d EXCEPT !.left = @ - 1].fired = d.fired
  BY ScheduleAssumption DEF ScheduleTypeOK

LEMMA TypesAfterReport ==
    ASSUME ScheduleInv, NEW d \in owed, Report(d)
    PROVE  ScheduleTypeOK'
  <1> DEFINE e == d.fired.event
  <1>1. d.fired \in fired /\ e \in Events /\ now \in Instants
    BY ScheduleAssumption DEF ScheduleInv, ScheduleTypeOK, Fired
  <1>2. Reference(e) \in Instants
    BY <1>1, UtcInstants DEF Reference, Events
  <1>3. ResolvePeriod(e, now) \in Period
    BY <1>1, ResolvedPeriods DEF Report
  <1>4. answers' \subseteq [fired : fired', reference : Instants, period : Period]
    BY <1>1, <1>2, <1>3 DEF Report, ScheduleInv, ScheduleTypeOK
  <1>5. owed' \subseteq [fired : fired', since : Clock, left : 1 .. MaxAttempts]
    <2>1. CASE d.left > 1
      BY <2>1, AttemptUsed DEF Report, ScheduleInv, ScheduleTypeOK
    <2>2. CASE ~ d.left > 1
      BY <2>2 DEF Report, ScheduleInv, ScheduleTypeOK
    <2> QED BY <2>1, <2>2
  <1>6. ProvisioningTypeOK'
    BY DEF Report, ScheduleInv, ScheduleTypeOK, ProvisioningTypeOK, provisionVars, awsVars, scriptVars
  <1> QED BY <1>4, <1>5, <1>6 DEF Report, ScheduleInv, ScheduleTypeOK

LEMMA TypesAfterRaise ==
    ASSUME ScheduleInv, NEW d \in owed, Raise(d)
    PROVE  ScheduleTypeOK'
  <1>1. d.fired \in fired
    BY DEF ScheduleInv, ScheduleTypeOK
  <1>2. owed' \subseteq [fired : fired', since : Clock, left : 1 .. MaxAttempts]
    <2>1. CASE d.left > 1
      BY <2>1, AttemptUsed DEF Raise, ScheduleInv, ScheduleTypeOK
    <2>2. CASE ~ d.left > 1
      BY <2>2 DEF Raise, ScheduleInv, ScheduleTypeOK
    <2> QED BY <2>1, <2>2
  <1>3. givenUp' \subseteq fired'
    BY <1>1 DEF Raise, ScheduleInv, ScheduleTypeOK
  <1>4. ProvisioningTypeOK'
    BY DEF Raise, ScheduleInv, ScheduleTypeOK, ProvisioningTypeOK, provisionVars, awsVars, scriptVars
  <1> QED BY <1>2, <1>3, <1>4 DEF Raise, ScheduleInv, ScheduleTypeOK

LEMMA TypesAfterProvisioning ==
    ASSUME ScheduleInv, ProvisioningNext, UNCHANGED scheduleVars
    PROVE  ScheduleTypeOK'
  BY ProvisioningTypes DEF ScheduleInv, ScheduleTypeOK, scheduleVars

HistoryInv ==
    AnswersFollowTheirEvents /\ FiredByTargets /\ FiredEverySince /\ FiredIsTakenUp

LEMMA ProvisioningUndisturbed ==
    ASSUME TargetsAreReachable, Established, UNCHANGED provisionVars
    PROVE  TargetsAreReachable' /\ Established'
  BY DEF TargetsAreReachable, Established, FunctionExists, provisionVars, awsVars, scriptVars

(* The script removes no target.                                           *)
LEMMA TargetsStay ==
    ASSUME ProvisioningNext
    PROVE  targeted \subseteq targeted'
  BY DEF ProvisioningNext, Provision, Begin, EnsureBucket, EnsuredBuckets, UploadPackage,
         LookupFunction, UpdateFunctionCode, UpdateFunctionConfiguration, CreateFunction,
         WaitUntilUpdatable, PutRule, AddPermission, PutTargets, Fail, Settle, Goto, awsVars

LEMMA HistoryAfterProvisioning ==
    ASSUME ScheduleInv, ProvisioningNext, UNCHANGED scheduleVars
    PROVE  HistoryInv'
  <1>1. FiredByTargets'
    BY TargetsStay DEF ScheduleInv, FiredByTargets, Ruled, scheduleVars
  <1> QED BY <1>1 DEF ScheduleInv, HistoryInv, AnswersFollowTheirEvents, FiredEverySince,
                      FiredIsTakenUp, Ruled, scheduleVars

LEMMA HistoryAfterSend ==
    ASSUME ScheduleInv, NEW e \in Manual, Send(e)
    PROVE  HistoryInv'
  <1>1. Ruled' = Ruled
    BY DEF Send, Ruled
  <1>2. fired \subseteq fired' /\ owed \subseteq owed'
        /\ UNCHANGED <<now, answers, givenUp, targeted>>
    BY DEF Send, provisionVars, awsVars
  <1>3. AnswersFollowTheirEvents'
    BY <1>2 DEF ScheduleInv, AnswersFollowTheirEvents
  <1>4. FiredByTargets'
    BY <1>1, <1>2 DEF ScheduleInv, FiredByTargets
  <1>5. FiredEverySince'
    BY <1>1, <1>2 DEF ScheduleInv, FiredEverySince
  <1>6. FiredIsTakenUp'
    BY <1>1, <1>2 DEF ScheduleInv, FiredIsTakenUp
  <1> QED BY <1>3, <1>4, <1>5, <1>6 DEF HistoryInv

LEMMA HistoryAfterReport ==
    ASSUME ScheduleInv, NEW d \in owed, Report(d)
    PROVE  HistoryInv'
  <1> DEFINE e == d.fired.event
             a == [fired |-> d.fired, reference |-> Reference(e), period |-> ResolvePeriod(e, now)]
  <1>1. e \in Events /\ now \in Instants
    BY ScheduleAssumption DEF ScheduleInv, ScheduleTypeOK, Fired
  <1>2. /\ UNCHANGED <<now, fired, givenUp, targeted>>
        /\ answers' = answers \cup {a}
        /\ IsValid(e)
    BY DEF Report, provisionVars, awsVars
  <1>3. AnswersFollowTheirEvents'
    <2>1. e.start = None => a.period = MonthPeriod(a.reference.month - 1)
      BY <1>1, <1>2, ResolvedPeriods DEF Reference
    <2>2. e.time # None => a.reference = AsUtc(e.time)
      BY DEF Reference
    <2> QED BY <1>2, <2>1, <2>2 DEF ScheduleInv, AnswersFollowTheirEvents
  <1>4. FiredByTargets' /\ FiredEverySince'
    BY <1>2 DEF ScheduleInv, FiredByTargets, FiredEverySince, Ruled
  <1>5. FiredIsTakenUp'
    <2>1. \A c \in owed : c \in owed' \/ c.fired = a.fired
      BY DEF Report
    <2> QED BY <1>2, <2>1 DEF ScheduleInv, FiredIsTakenUp, Ruled
  <1> QED BY <1>3, <1>4, <1>5 DEF HistoryInv

LEMMA HistoryAfterRaise ==
    ASSUME ScheduleInv, NEW d \in owed, Raise(d)
    PROVE  HistoryInv'
  <1>1. UNCHANGED <<now, fired, answers, targeted>> /\ givenUp \subseteq givenUp'
    BY DEF Raise, provisionVars, awsVars
  <1>2. AnswersFollowTheirEvents' /\ FiredByTargets' /\ FiredEverySince'
    BY <1>1 DEF ScheduleInv, AnswersFollowTheirEvents, FiredByTargets, FiredEverySince, Ruled
  <1>3. FiredIsTakenUp'
    <2>1. CASE d.left > 1
      <3>1. \A c \in owed : \E b \in owed' : b.fired = c.fired
        BY <2>1, AttemptUsed DEF Raise, ScheduleInv
      <3> QED BY <1>1, <3>1 DEF ScheduleInv, FiredIsTakenUp, Ruled
    <2>2. CASE ~ d.left > 1
      <3>1. \A c \in owed : c \in owed' \/ c.fired \in givenUp'
        BY <2>2 DEF Raise
      <3> QED BY <1>1, <3>1 DEF ScheduleInv, FiredIsTakenUp, Ruled
    <2> QED BY <2>1, <2>2
  <1> QED BY <1>2, <1>3 DEF HistoryInv

(* A tick passes no firing instant but the one it arrives at.              *)
LEMMA NoFiringIsJumped ==
    ASSUME ScheduleInv, NEW i \in Clock, IsNext(i), NEW k \in Int,
           AtOrBefore(FireInstant(k), i), ~ AtOrBefore(FireInstant(k), now)
    PROVE  FireInstant(k) = i
  <1> DEFINE f == FireInstant(k)
  <1>1. f \in Instants /\ i \in Instants /\ now \in Clock /\ now \in Instants
    BY FireInstants, ScheduleAssumption DEF ScheduleInv, ScheduleTypeOK
  <1>2. AtOrBefore(now, f)
    BY <1>1, InstantsAreOrdered
  <1>3. k \in now.month .. i.month
    <2>1. now.month <= f.month /\ f.month <= i.month
      BY <1>1, <1>2, InstantsAreOrdered
    <2>2. f.month = k /\ now.month \in Int /\ i.month \in Int
      BY <1>1 DEF FireInstant, Instants
    <2> QED BY <2>1, <2>2
  <1>4. f \in Clock
    BY <1>1, <1>2, <1>3, FiringAssumption DEF FireInstant
  <1>5. AtOrBefore(i, f)
    BY <1>4 DEF IsNext
  <1> QED BY <1>1, <1>5, InstantsAreOrdered

LEMMA HistoryAfterTick ==
    ASSUME ScheduleInv, Tick
    PROVE  HistoryInv'
  <1> PICK i \in Clock :
         /\ IsNext(i)
         /\ now' = i
         /\ fired' = fired \cup Due(i)
         /\ owed' = owed \cup {Owe(f, i) : f \in {f \in Due(i) : f.rule \in Deliverable}}
         /\ UNCHANGED <<provisionVars, answers, givenUp>>
    BY DEF Tick
  <1>1. /\ i \in Instants /\ now \in Instants /\ AtOrBefore(now, i)
        /\ ScheduledEvent(i).time.at = i
        /\ UNCHANGED <<targeted, answers, givenUp>>
    BY ScheduleAssumption, ScheduledEvents
       DEF ScheduleInv, ScheduleTypeOK, IsNext, provisionVars, awsVars
  <1>2. \A f \in Due(i) : /\ f.rule \in targeted
                          /\ f.event = ScheduledEvent(i)
                          /\ f.event.time.at = i
    BY <1>1 DEF Due
  <1>3. Ruled' \subseteq Ruled \cup Due(i) /\ Ruled \subseteq fired
    BY DEF Ruled
  <1>4. AnswersFollowTheirEvents'
    BY <1>1 DEF ScheduleInv, AnswersFollowTheirEvents
  <1>5. FiredByTargets'
    <2>1. ASSUME NEW f \in Ruled PROVE AtOrBefore(f.event.time.at, i)
      <3>1. f.event.time.at \in Instants /\ AtOrBefore(f.event.time.at, now)
        BY ScheduleAssumption DEF ScheduleInv, FiredByTargets
      <3> QED BY <1>1, <3>1, InstantsAreOrdered
    <2>2. AtOrBefore(i, i)
      BY <1>1, InstantsAreOrdered
    <2> QED BY <1>1, <1>2, <1>3, <2>1, <2>2 DEF ScheduleInv, FiredByTargets
  <1>6. FiredEverySince'
    <2> SUFFICES ASSUME NEW f \in Ruled', NEW k \in Int,
                        AtOrBefore(f.event.time.at, FireInstant(k)),
                        AtOrBefore(FireInstant(k), i)
                 PROVE  [rule |-> f.rule, event |-> ScheduledEvent(FireInstant(k))] \in fired'
      BY DEF FiredEverySince
    <2>1. CASE f \in Ruled /\ AtOrBefore(FireInstant(k), now)
      BY <2>1 DEF ScheduleInv, FiredEverySince
    <2>2. CASE f \in Ruled /\ ~ AtOrBefore(FireInstant(k), now)
      <3>1. FireInstant(k) = i /\ i.month = k
        BY <2>2, NoFiringIsJumped DEF FireInstant
      <3>2. f.rule \in targeted /\ rules[f.rule] # Absent
        BY <2>2 DEF ScheduleInv, FiredByTargets, TargetsAreReachable
      <3>3. IsDue(rules[f.rule], i)
        BY <3>1, <3>2 DEF IsDue
      <3> QED BY <3>1, <3>2, <3>3 DEF Due
    <2>3. CASE f \in Due(i)
      <3>1. FireInstant(k) \in Instants
        BY FireInstants
      <3>2. FireInstant(k) = i
        BY <1>1, <1>2, <2>3, <3>1, InstantsAreOrdered
      <3>3. f = [rule |-> f.rule, event |-> ScheduledEvent(i)]
        BY <2>3 DEF Due
      <3> QED BY <2>3, <3>2, <3>3
    <2> QED BY <1>3, <2>1, <2>2, <2>3
  <1>7. FiredIsTakenUp'
    <2>1. ASSUME NEW f \in Due(i) PROVE \E d \in owed' : d.fired = f
      <3>1. f.rule \in Deliverable
        BY <1>2 DEF Deliverable, ScheduleInv, TargetsAreReachable
      <3>2. Owe(f, i) \in owed' /\ Owe(f, i).fired = f
        BY <3>1 DEF Owe
      <3> QED BY <3>2
    <2> QED BY <1>1, <1>3, <2>1 DEF ScheduleInv, FiredIsTakenUp
  <1> QED BY <1>4, <1>5, <1>6, <1>7 DEF HistoryInv

-----------------------------------------------------------------------------
(* The theorems.                                                           *)

LEMMA ScheduleInvInit == ScheduleInit => ScheduleInv
  <1> SUFFICES ASSUME ScheduleInit PROVE ScheduleInv
    OBVIOUS
  <1>1. ProvisioningTypeOK
    BY ProvisioningAssumption
       DEF ScheduleInit, ProvisioningInit, ProvisioningTypeOK, ProvisionConfig, Ended, Steps
  <1>2. ScheduleTypeOK
    BY <1>1 DEF ScheduleInit, ScheduleTypeOK
  <1>3. TargetsAreReachable /\ Established
    BY DEF ScheduleInit, ProvisioningInit, TargetsAreReachable, Established, AfterUpload,
           AfterCode, AfterSettings
  <1>4. AnswersFollowTheirEvents /\ FiredByTargets /\ FiredEverySince /\ FiredIsTakenUp
    BY DEF ScheduleInit, AnswersFollowTheirEvents, FiredByTargets, FiredEverySince,
           FiredIsTakenUp, Ruled
  <1> QED BY <1>2, <1>3, <1>4 DEF ScheduleInv

LEMMA ScheduleInvNext == ScheduleInv /\ [ScheduleNext]_allVars => ScheduleInv'
  <1> SUFFICES ASSUME ScheduleInv, [ScheduleNext]_allVars PROVE ScheduleInv'
    OBVIOUS
  <1>1. CASE ProvisioningNext /\ UNCHANGED scheduleVars
    <2>1. ProvisioningInv
      BY DEF ScheduleInv, ScheduleTypeOK, ProvisioningInv
    <2>2. TargetsAreReachable' /\ Established'
      BY <1>1, <2>1, ProvisioningStep
    <2> QED BY <1>1, <2>2, TypesAfterProvisioning, HistoryAfterProvisioning
            DEF ScheduleInv, HistoryInv
  <1>2. CASE Tick
    <2>1. UNCHANGED provisionVars
      BY <1>2 DEF Tick
    <2> QED BY <1>2, <2>1, TypesAfterTick, HistoryAfterTick, ProvisioningUndisturbed
            DEF ScheduleInv, HistoryInv
  <1>3. ASSUME NEW e \in Manual, Send(e) PROVE ScheduleInv'
    <2>1. UNCHANGED provisionVars
      BY <1>3 DEF Send
    <2> QED BY <1>3, <2>1, TypesAfterSend, HistoryAfterSend, ProvisioningUndisturbed
            DEF ScheduleInv, HistoryInv
  <1>4. ASSUME NEW d \in owed, Report(d) PROVE ScheduleInv'
    <2>1. UNCHANGED provisionVars
      BY <1>4 DEF Report
    <2> QED BY <1>4, <2>1, TypesAfterReport, HistoryAfterReport, ProvisioningUndisturbed
            DEF ScheduleInv, HistoryInv
  <1>5. ASSUME NEW d \in owed, Raise(d) PROVE ScheduleInv'
    <2>1. UNCHANGED provisionVars
      BY <1>5 DEF Raise
    <2> QED BY <1>5, <2>1, TypesAfterRaise, HistoryAfterRaise, ProvisioningUndisturbed
            DEF ScheduleInv, HistoryInv
  <1>6. CASE UNCHANGED allVars
    BY <1>6, ProvisioningUndisturbed
       DEF ScheduleInv, ScheduleTypeOK, ProvisioningTypeOK, AnswersFollowTheirEvents,
           FiredByTargets, FiredEverySince, FiredIsTakenUp, Ruled, allVars, provisionVars,
           awsVars, scriptVars, scheduleVars
  <1> QED BY <1>1, <1>2, <1>3, <1>4, <1>5, <1>6 DEF ScheduleNext

(* The inductive invariant: types, what a run of the script has done by    *)
(* the time it is at a stage, and the history of what was fired.           *)
THEOREM ScheduleInvariant == ScheduleSpec => []ScheduleInv
  BY ScheduleInvInit, ScheduleInvNext, PTL DEF ScheduleSpec

(* Types.                                                                  *)
THEOREM ScheduleTypeCorrect == ScheduleSpec => []ScheduleTypeOK
  <1>1. ScheduleInv => ScheduleTypeOK
    BY DEF ScheduleInv
  <1> QED BY <1>1, ScheduleInvariant, PTL

(* Wherever the script stopped, however often and with whatever            *)
(* configurations it ran, targets are reachable.                           *)
THEOREM EventsReachTheFunction == ScheduleSpec => []TargetsAreReachable
  <1>1. ScheduleInv => TargetsAreReachable
    BY DEF ScheduleInv
  <1> QED BY <1>1, ScheduleInvariant, PTL

(* A run without an error leaves the function, the rule's schedule and its *)
(* permission as it was asked for; the target is not promised.             *)
THEOREM ProvisioningConverges == ScheduleSpec => []CompleteRunsConverge
  <1>1. ScheduleInv => CompleteRunsConverge
    <2> SUFFICES ASSUME ScheduleInv, stage = "done" PROVE CompleteRunsConverge
      BY DEF CompleteRunsConverge
    <2>1. /\ function.code = config.build /\ function.settings = config.settings
          /\ settled
          /\ rules[config.rule] = config.schedule
          /\ config.rule \in permitted
      BY DEF ScheduleInv, Established, AfterCode, AfterSettings
    <2>2. function = [code |-> function.code, settings |-> function.settings]
      BY DEF ScheduleInv, ScheduleTypeOK, ProvisioningTypeOK
    <2> QED BY <2>1, <2>2 DEF CompleteRunsConverge
  <1> QED BY <1>1, ScheduleInvariant, PTL

(* What is reported is the month that just ended.                          *)
THEOREM MonthThatJustEndedIsReported == ScheduleSpec => []MonthThatJustEnded
  <1>1. ScheduleInv => MonthThatJustEnded
    BY DEF ScheduleInv, AnswersFollowTheirEvents, MonthThatJustEnded
  <1> QED BY <1>1, ScheduleInvariant, PTL

(* The months that are reported share no instant.                          *)
THEOREM ReportedOnce == ScheduleSpec => []NoInstantIsReportedTwice
  <1>1. ScheduleInv => NoInstantIsReportedTwice
    <2> SUFFICES ASSUME ScheduleInv, NEW i \in Timestamps,
                        NEW p \in ReportedPeriods, NEW q \in ReportedPeriods,
                        InPeriod(i, p), InPeriod(i, q)
                 PROVE  p = q
      BY DEF NoInstantIsReportedTwice
    <2>1. ASSUME NEW r \in ReportedPeriods, InPeriod(i, r) PROVE r = MonthPeriod(i.month)
      <3>1. PICK a \in answers : r = a.period /\ r = MonthPeriod(a.reference.month - 1)
        BY DEF ReportedPeriods, ScheduleInv, AnswersFollowTheirEvents
      <3>2. a.reference.month - 1 \in Int
        BY DEF ScheduleInv, ScheduleTypeOK, Instants
      <3> QED BY <2>1, <3>1, <3>2, MonthsPartitionTime, ScheduleAssumption
    <2> QED BY <2>1
  <1> QED BY <1>1, ScheduleInvariant, PTL

(* Once a rule has fired, no month is skipped.                             *)
THEOREM NoneSkipped == ScheduleSpec => []NoInstantIsSkipped
  <1>1. ScheduleInv => NoInstantIsSkipped
    <2> SUFFICES ASSUME ScheduleInv, NEW f \in fired, NEW i \in Timestamps,
                        f.rule # None,
                        AtOrBefore(f.event.time.at, FireInstant(i.month + 1)),
                        AtOrBefore(FireInstant(i.month + 1), now)
                 PROVE  \/ \E p \in ReportedPeriods : InPeriod(i, p)
                        \/ \E g \in givenUp \cup {d.fired : d \in owed} :
                             g.rule # None /\ g.event.time.at = FireInstant(i.month + 1)
      BY DEF NoInstantIsSkipped
    <2> DEFINE k == i.month + 1
               g == [rule |-> f.rule, event |-> ScheduledEvent(FireInstant(k))]
    <2>1. i \in Instants /\ i.month \in Int /\ k \in Int /\ FireInstant(k) \in Instants
      BY ScheduleAssumption, FireInstants DEF Instants
    <2>2. g \in Ruled
      BY <2>1 DEF ScheduleInv, FiredEverySince, Ruled
    <2>3. /\ g.event.time.at = FireInstant(k) /\ g.event.time # None
          /\ g.event.start = None
          /\ AsUtc(g.event.time) = FireInstant(k)
      BY <2>1, ScheduledEvents DEF ScheduledEvent
    <2>4. CASE g \in givenUp \/ \E d \in owed : d.fired = g
      BY <2>3, <2>4
    <2>5. CASE \E a \in answers : a.fired = g
      <3> PICK a \in answers : a.fired = g
        BY <2>5
      <3>1. a.reference = FireInstant(k) /\ a.period = MonthPeriod(a.reference.month - 1)
        BY <2>3 DEF ScheduleInv, AnswersFollowTheirEvents
      <3>2. a.period = MonthPeriod(i.month)
        BY <2>1, <3>1 DEF FireInstant
      <3>3. InPeriod(i, a.period)
        BY <2>1, <3>2, MonthsPartitionTime
      <3> QED BY <2>3, <3>3 DEF ReportedPeriods
    <2> QED BY <2>2, <2>4, <2>5 DEF ScheduleInv, FiredIsTakenUp
  <1> QED BY <1>1, ScheduleInvariant, PTL
=============================================================================
