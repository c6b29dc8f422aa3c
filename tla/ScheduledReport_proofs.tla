----------------------- MODULE ScheduledReport_proofs -----------------------
(* What the scheduled Lambda promises, for any number of workers, events,   *)
(* attempts and duplicates, and under every fault of ReportService.         *)
EXTENDS ScheduledReport, ReportService_refinement, FiniteSetTheorems

-----------------------------------------------------------------------------
(* The delivery queue.  Lambda never owes more deliveries than it has       *)
(* attempts left, so a raise below the last attempt always adds one.        *)
OwedWithinAttempts ==
    \A e \in Events : tries[e] + due[e] <= MaxAttempts + duplicates[e]

InvocationsHaveEvents == \A w \in Running : event[w] \in Events

QueueInv ==
    /\ due \in [Events -> 0 .. MaxAttempts + MaxDuplicates]
    /\ tries \in [Events -> 0 .. MaxAttempts + MaxDuplicates]
    /\ duplicates \in [Events -> 0 .. MaxDuplicates]
    /\ answers \in [Events -> SUBSET RunIds]
    /\ step \in [Lambdas -> InvocationSteps]
    /\ event \in [Lambdas -> {None} \cup Events]
    /\ OwedWithinAttempts
    /\ InvocationsHaveEvents
    /\ NeverGivenUpEarly

AccountTypeOK ==
    /\ account \in {"absent", "inserted", "committed"}
    /\ holder \in {None} \cup Lambdas

LEMMA StepsOfInvocations ==
    /\ "idle" \in InvocationSteps
    /\ \A s \in {"lookup", "insert", "commit", "find", "create", "generate"} :
         s \in InvocationSteps /\ s # "idle"
BY DEF InvocationSteps

LEMMA QueueInit == ScheduledInit => QueueInv /\ AccountTypeOK
BY ScheduleAssumption
   DEF ScheduledInit, QueueInv, AccountTypeOK, InvocationSteps, OwedWithinAttempts,
       InvocationsHaveEvents, NeverGivenUpEarly, Running

LEMMA GotoKeepsQueue ==
    ASSUME QueueInv, NEW w \in Lambdas, step[w] # "idle",
           NEW s \in InvocationSteps \ {"idle"}, Goto(w, s)
    PROVE  QueueInv'
<1>1. /\ step' = [step EXCEPT ![w] = s]
      /\ UNCHANGED <<due, tries, duplicates, answers, event>>
  BY DEF Goto
<1>2. Running' = Running
  BY <1>1 DEF Running, QueueInv
<1> QED
  BY <1>1, <1>2 DEF QueueInv, OwedWithinAttempts, InvocationsHaveEvents, NeverGivenUpEarly

LEMMA AnswerKeepsQueue ==
    ASSUME QueueInv, NEW w \in Lambdas, step[w] # "idle", NEW r \in RunIds, Answer(w, r)
    PROVE  QueueInv'
<1>1. /\ step' = [step EXCEPT ![w] = "idle"]
      /\ answers' = [answers EXCEPT ![event[w]] = @ \cup {r}]
      /\ UNCHANGED <<due, tries, duplicates, event>>
  BY DEF Answer
<1>2. Running' = Running \ {w}
  BY <1>1 DEF Running, QueueInv
<1>3. event[w] \in Events
  BY DEF QueueInv, InvocationsHaveEvents, Running
<1>4. NeverGivenUpEarly'
  <2> SUFFICES ASSUME NEW e \in Events, tries[e] > 0, answers'[e] = {}, tries[e] < MaxAttempts
               PROVE  due[e] > 0 \/ \E v \in Running' : event'[v] = e
    BY <1>1 DEF NeverGivenUpEarly
  <2>1. e # event[w]
    BY <1>1, <1>3 DEF QueueInv
  <2>2. answers[e] = {}
    BY <1>1, <2>1 DEF QueueInv
  <2> QED
    BY <1>1, <1>2, <2>1, <2>2 DEF QueueInv, NeverGivenUpEarly
<1>5. answers' \in [Events -> SUBSET RunIds] /\ step' \in [Lambdas -> InvocationSteps]
  BY <1>1, <1>3, StepsOfInvocations DEF QueueInv
<1> QED
  BY <1>1, <1>2, <1>4, <1>5 DEF QueueInv, OwedWithinAttempts, InvocationsHaveEvents

LEMMA RaiseKeepsQueue ==
    ASSUME QueueInv, NEW w \in Lambdas, step[w] # "idle", Raise(w)
    PROVE  QueueInv'
<1> DEFINE e == event[w]
<1>1. /\ step' = [step EXCEPT ![w] = "idle"]
      /\ due' = [due EXCEPT ![e] =
             IF tries[e] + @ < MaxAttempts + duplicates[e] THEN @ + 1 ELSE @]
      /\ UNCHANGED <<tries, duplicates, answers, event>>
  BY DEF Raise
<1>2. Running' = Running \ {w}
  BY <1>1 DEF Running, QueueInv
<1>3. e \in Events
  BY DEF QueueInv, InvocationsHaveEvents, Running
<1>4. /\ due[e] \in Nat /\ tries[e] \in Nat /\ duplicates[e] \in 0 .. MaxDuplicates
      /\ MaxAttempts \in Nat /\ MaxDuplicates \in Nat
      /\ tries[e] + due[e] <= MaxAttempts + duplicates[e]
  BY <1>3, ScheduleAssumption DEF QueueInv, OwedWithinAttempts
<1>5. /\ due'[e] = IF tries[e] + due[e] < MaxAttempts + duplicates[e]
                   THEN due[e] + 1 ELSE due[e]
      /\ \A f \in Events : f # e => due'[f] = due[f]
      /\ DOMAIN due' = Events
  BY <1>1, <1>3 DEF QueueInv
<1>6. /\ due'[e] \in 0 .. MaxAttempts + MaxDuplicates
      /\ tries[e] + due'[e] <= MaxAttempts + duplicates[e]
      /\ tries[e] < MaxAttempts => due'[e] > 0
  BY <1>4, <1>5
<1>7. due' \in [Events -> 0 .. MaxAttempts + MaxDuplicates]
  BY <1>1, <1>3, <1>5, <1>6 DEF QueueInv
<1>8. OwedWithinAttempts'
  BY <1>1, <1>5, <1>6 DEF QueueInv, OwedWithinAttempts
<1>9. NeverGivenUpEarly'
  <2> SUFFICES ASSUME NEW f \in Events, tries[f] > 0, answers[f] = {}, tries[f] < MaxAttempts
               PROVE  due'[f] > 0 \/ \E v \in Running' : event'[v] = f
    BY <1>1 DEF NeverGivenUpEarly
  <2>1. CASE f = e
    BY <1>6, <2>1
  <2>2. CASE f # e
    BY <1>1, <1>2, <1>5, <2>2 DEF QueueInv, NeverGivenUpEarly
  <2> QED
    BY <2>1, <2>2
<1> QED
  BY <1>1, <1>2, <1>7, <1>8, <1>9, StepsOfInvocations DEF QueueInv, InvocationsHaveEvents

LEMMA FireKeepsQueue ==
    ASSUME QueueInv, NEW e \in Events, Fire(e)
    PROVE  QueueInv'
<1>1. /\ tries[e] = 0 /\ due[e] = 0 /\ due' = [due EXCEPT ![e] = 1]
      /\ UNCHANGED <<tries, duplicates, answers, step, event>>
  BY DEF Fire
<1>2. Running' = Running
  BY <1>1 DEF Running
<1>3. duplicates[e] \in Nat /\ MaxAttempts \in Nat \ {0} /\ MaxDuplicates \in Nat
  BY ScheduleAssumption DEF QueueInv
<1>4. due' \in [Events -> 0 .. MaxAttempts + MaxDuplicates]
  BY <1>1, <1>3 DEF QueueInv
<1>5. OwedWithinAttempts'
  BY <1>1, <1>3 DEF QueueInv, OwedWithinAttempts
<1>6. NeverGivenUpEarly'
  BY <1>1, <1>2 DEF QueueInv, NeverGivenUpEarly
<1> QED
  BY <1>1, <1>2, <1>4, <1>5, <1>6 DEF QueueInv, InvocationsHaveEvents

LEMMA DuplicateKeepsQueue ==
    ASSUME QueueInv, NEW e \in Events, Duplicate(e)
    PROVE  QueueInv'
<1>1. /\ duplicates[e] < MaxDuplicates
      /\ duplicates' = [duplicates EXCEPT ![e] = duplicates[e] + 1]
      /\ due' = [due EXCEPT ![e] = due[e] + 1]
      /\ UNCHANGED <<tries, answers, step, event>>
  BY DEF Duplicate
<1>2. Running' = Running
  BY <1>1 DEF Running
<1>3. /\ due[e] \in Nat /\ tries[e] \in Nat /\ duplicates[e] \in Nat
      /\ MaxAttempts \in Nat /\ MaxDuplicates \in Nat
      /\ tries[e] + due[e] <= MaxAttempts + duplicates[e]
  BY ScheduleAssumption DEF QueueInv, OwedWithinAttempts
<1>4. due' \in [Events -> 0 .. MaxAttempts + MaxDuplicates]
  BY <1>1, <1>3 DEF QueueInv
<1>5. duplicates' \in [Events -> 0 .. MaxDuplicates]
  BY <1>1, <1>3 DEF QueueInv
<1>6. OwedWithinAttempts'
  BY <1>1, <1>3 DEF QueueInv, OwedWithinAttempts
<1>7. NeverGivenUpEarly'
  BY <1>1, <1>2, <1>3 DEF QueueInv, NeverGivenUpEarly
<1> QED
  BY <1>1, <1>2, <1>4, <1>5, <1>6, <1>7 DEF QueueInv, InvocationsHaveEvents

LEMMA InvokeKeepsQueue ==
    ASSUME QueueInv, NEW w \in Lambdas, NEW e \in Events, Invoke(w, e)
    PROVE  QueueInv'
<1>1. /\ step[w] = "idle" /\ due[e] > 0
      /\ due' = [due EXCEPT ![e] = due[e] - 1]
      /\ tries' = [tries EXCEPT ![e] = tries[e] + 1]
      /\ step' = [step EXCEPT ![w] = "lookup"]
      /\ event' = [event EXCEPT ![w] = e]
      /\ UNCHANGED <<duplicates, answers>>
  BY DEF Invoke
<1>2. /\ Running' = Running \cup {w} /\ w \notin Running
      /\ event'[w] = e /\ \A v \in Running : event'[v] = event[v]
  BY <1>1, StepsOfInvocations DEF Running, QueueInv
<1>3. /\ due[e] \in Nat /\ tries[e] \in Nat /\ duplicates[e] \in 0 .. MaxDuplicates
      /\ MaxAttempts \in Nat /\ MaxDuplicates \in Nat
      /\ tries[e] + due[e] <= MaxAttempts + duplicates[e]
  BY ScheduleAssumption DEF QueueInv, OwedWithinAttempts
<1>4. due' \in [Events -> 0 .. MaxAttempts + MaxDuplicates]
  BY <1>1, <1>3 DEF QueueInv
<1>5. tries' \in [Events -> 0 .. MaxAttempts + MaxDuplicates]
  BY <1>1, <1>3 DEF QueueInv
<1>6. OwedWithinAttempts'
  BY <1>1, <1>3 DEF QueueInv, OwedWithinAttempts
<1>7. NeverGivenUpEarly'
  BY <1>1, <1>2 DEF QueueInv, NeverGivenUpEarly
<1>8. InvocationsHaveEvents'
  BY <1>2 DEF QueueInv, InvocationsHaveEvents
<1> QED
  BY <1>1, <1>4, <1>5, <1>6, <1>7, <1>8, StepsOfInvocations DEF QueueInv

(* An action of an invocation does one of three things to the queue.        *)
LEMMA InvocationMovesQueue ==
    ASSUME TypeOK, NEW w \in Lambdas, Invocation(w) \/ Die(w)
    PROVE  /\ step[w] # "idle"
           /\ \/ \E s \in InvocationSteps \ {"idle"} : Goto(w, s)
              \/ Raise(w)
              \/ \E r \in RunIds : Answer(w, r)
<1> USE StepsOfInvocations, ScheduleAssumption
<1>1. CASE LookupAccount(w)
  BY <1>1 DEF LookupAccount
<1>2. CASE InsertAccount(w)
  BY <1>2 DEF InsertAccount
<1>3. CASE CommitAccount(w)
  BY <1>3 DEF CommitAccount
<1>4. CASE FindCompleted(w)
  BY <1>4 DEF FindCompleted, FindCompletedRuns
<1>5. CASE \E r \in RunIds : StartGeneration(w, r)
  BY <1>5 DEF StartGeneration
<1>6. CASE Generate(w)
  BY <1>6, Tables DEF Generate, TypeOK, Busy
<1>7. CASE Die(w)
  BY <1>7 DEF Die
<1> QED
  BY <1>1, <1>2, <1>3, <1>4, <1>5, <1>6, <1>7 DEF Invocation

LEMMA QueueStep == TypeOK /\ QueueInv /\ [ScheduledNext]_allVars => QueueInv'
<1> SUFFICES ASSUME TypeOK, QueueInv, [ScheduledNext]_allVars PROVE QueueInv'
  OBVIOUS
<1>1. ASSUME NEW e \in Events, Fire(e) \/ Duplicate(e) PROVE QueueInv'
  BY <1>1, FireKeepsQueue, DuplicateKeepsQueue
<1>2. ASSUME NEW w \in Lambdas, NEW e \in Events, Invoke(w, e) PROVE QueueInv'
  BY <1>2, InvokeKeepsQueue
<1>3. ASSUME NEW w \in Lambdas, Invocation(w) \/ Die(w) PROVE QueueInv'
  BY <1>3, InvocationMovesQueue, GotoKeepsQueue, RaiseKeepsQueue, AnswerKeepsQueue
<1>4. CASE UNCHANGED lambdaVars
  BY <1>4 DEF lambdaVars, QueueInv, OwedWithinAttempts, InvocationsHaveEvents,
       NeverGivenUpEarly, Running
<1> QED
  BY <1>1, <1>2, <1>3, <1>4 DEF ScheduledNext, Api, RecycleIdle, allVars

LEMMA AccountStep == AccountTypeOK /\ [ScheduledNext]_allVars => AccountTypeOK'
<1> SUFFICES ASSUME AccountTypeOK, [ScheduledNext]_allVars PROVE AccountTypeOK'
  OBVIOUS
<1>1. ASSUME NEW w \in Lambdas, Invocation(w) PROVE AccountTypeOK'
  BY <1>1 DEF Invocation, LookupAccount, InsertAccount, CommitAccount, FindCompleted,
       StartGeneration, Generate, AccountTypeOK
<1>2. ASSUME NEW w \in Lambdas, Die(w) PROVE AccountTypeOK'
  BY <1>2 DEF Die, AccountTypeOK
<1>3. CASE UNCHANGED <<account, holder>>
  BY <1>3 DEF AccountTypeOK
<1> QED
  BY <1>1, <1>2, <1>3 DEF ScheduledNext, Fire, Duplicate, Invoke, Api, RecycleIdle,
       allVars, lambdaVars

-----------------------------------------------------------------------------
(* To generate_report, everything the Lambda does is a step of its own or   *)
(* none: its invariant carries over.                                        *)
LEMMA ScheduledStepIsServiceStep == QueueInv /\ [ScheduledNext]_allVars => [Next]_vars
<1> SUFFICES ASSUME QueueInv, [ScheduledNext]_allVars PROVE Next \/ UNCHANGED vars
  OBVIOUS
<1> USE ScheduleAssumption
<1>1. ASSUME NEW w \in Lambdas, Invocation(w) PROVE Next \/ UNCHANGED vars
  <2>1. ASSUME NEW r \in RunIds, StartGeneration(w, r) PROVE Next
    <3>1. event[w] \in Events
      BY <2>1 DEF StartGeneration, QueueInv, InvocationsHaveEvents, Running
    <3>2. CreatePending(w, r, Service, EventPeriod[event[w]]) /\ EventPeriod[event[w]] \in Periods
      BY <2>1, <3>1 DEF StartGeneration
    <3> QED
      BY <3>2 DEF Next
  <2>2. CASE Generate(w)
    BY <2>2 DEF Generate, Next
  <2> QED
    BY <1>1, <2>1, <2>2 DEF Invocation, LookupAccount, InsertAccount, CommitAccount,
         FindCompleted
<1>2. ASSUME NEW w \in Lambdas, Die(w) PROVE Next \/ UNCHANGED vars
  BY <1>2, HostAssumption DEF Die, Next, Environment
<1>3. CASE Api
  BY <1>3, HostAssumption DEF Api, Next, Environment
<1>4. CASE RecycleIdle
  BY <1>4, HostAssumption DEF RecycleIdle, Next, Environment
<1> QED
  BY <1>1, <1>2, <1>3, <1>4 DEF ScheduledNext, Fire, Duplicate, Invoke, allVars

LambdaInv == Inv /\ QueueInv /\ AccountTypeOK

LEMMA LambdaInit == ScheduledInit => LambdaInv
BY InvInit, QueueInit DEF LambdaInv, ScheduledInit

LEMMA LambdaStep == LambdaInv /\ [ScheduledNext]_allVars => LambdaInv'
<1>1. Inv => TypeOK
  BY DEF Inv
<1> QED
  BY <1>1, InvStep, QueueStep, AccountStep, ScheduledStepIsServiceStep DEF LambdaInv

(* The variables of the Lambda side have their types, for every number of   *)
(* attempts and duplicates: the retries stay within Lambda's attempts.      *)
THEOREM LambdaTypeCorrect == ScheduledSpec => []LambdaTypeOK
<1>1. LambdaInv => LambdaTypeOK
  BY DEF LambdaInv, QueueInv, AccountTypeOK, LambdaTypeOK
<1> QED
  BY <1>1, LambdaInit, LambdaStep, PTL DEF ScheduledSpec

(* "Failures are loud": while Lambda has attempts left for an unanswered    *)
(* event, a delivery is owed or an invocation is at it, whatever raised,    *)
(* died or was delivered twice, however many invocations run at a time.     *)
THEOREM UnansweredEventsAreRetried == ScheduledSpec => []NeverGivenUpEarly
<1>1. LambdaInv => NeverGivenUpEarly
  BY DEF LambdaInv, QueueInv
<1> QED
  BY <1>1, LambdaInit, LambdaStep, PTL DEF ScheduledSpec

(* Whatever the schedule does, generate_report runs as ReportService says:  *)
(* the Lambda adds callers to it and no behaviour, so what holds of every   *)
(* behaviour of ReportService holds here.                                   *)
THEOREM ScheduledSystemIsAReportService == ScheduledSpec => Spec
<1>1. ScheduledInit => Init
  BY DEF ScheduledInit
<1>2. LambdaInv => QueueInv
  BY DEF LambdaInv
<1> QED
  BY <1>1, <1>2, LambdaInit, LambdaStep, ScheduledStepIsServiceStep, PTL
     DEF ScheduledSpec, Spec

(* Scheduled and manual reports together still keep the abstract ledger: a  *)
(* report publishes one snapshot of the stored transactions.                *)
THEOREM ScheduledSystemImplementsReportRuns == ScheduledSpec => ImplementsReportRuns
BY ScheduledSystemIsAReportService, ReportServiceImplementsReportRuns

(* Reports made for the schedule are whole, as all others.                  *)
THEOREM ScheduledReportsAreWhole == ScheduledSpec => []CompletedIsWhole
BY ScheduledSystemIsAReportService, CompletedRunsAreWhole

(* Reports made for the schedule hold a batch entirely or not at all.       *)
THEOREM ScheduledReportsHoldWholeBatches == ScheduledSpec => []BatchesAreWhole
BY ScheduledSystemIsAReportService, ReportsHoldWholeBatches

-----------------------------------------------------------------------------
(* Who works on what.  A worker on a run of the service account is a Lambda *)
(* generating for that run's period.                                        *)
ClaimInv ==
    /\ \A w \in Lambdas : Busy(w) <=> step[w] = "generate"
    /\ \A w \in Lambdas : Busy(w) =>
         runs[run[w]].owner = Service /\ runs[run[w]].period = EventPeriod[event[w]]
    /\ \A w \in Workers \ Lambdas : Busy(w) => runs[run[w]].owner # Service

IsReport(r) == runs[r].status = "completed" /\ runs[r].owner = Service

(* One invocation at a time.  From the moment it has found no completed run *)
(* of its period, the only one there can be is the one it makes itself; and *)
(* a run that was answered is no longer in anybody's hands, so that no      *)
(* commit of unknown outcome can take it back.                              *)
OneAtATime == \A v, w \in Running : v = w

NobodyElseReports ==
    \A w \in Running, r \in RunIds :
        IsReport(r) /\ runs[r].period = EventPeriod[event[w]] =>
            step[w] # "create" /\ (step[w] = "generate" => r = run[w])

AnswersAreSettled == \A e \in Events : \A r \in answers[e] : ~ Worked(r)

SerialInv ==
    /\ OneAtATime
    /\ NobodyElseReports
    /\ OneReportPerPeriod
    /\ AnswersAreReports
    /\ AnswersAreSettled

(* Faults and all, a step of generate_report touches its own row only, and  *)
(* neither the owner nor the period of that.                                *)
LEMMA ProceedFrame ==
    ASSUME TypeOK, NEW w \in Workers, Proceed(w)
    PROVE  /\ Busy(w) /\ run[w] \in RunIds
           /\ run' = run
           /\ \A v \in Workers : v # w => pc'[v] = pc[v]
           /\ \A r \in RunIds : r # run[w] => runs'[r] = runs[r]
           /\ runs'[run[w]].owner = runs[run[w]].owner
           /\ runs'[run[w]].period = runs[run[w]].period
           /\ pc[w] = "complete" /\ pc'[w] = "idle" => runs'[run[w]].status = "completed"
<1> USE Tables, StepNames
<1>1. Busy(w) /\ run[w] \in RunIds
  BY DEF Proceed, Load, WriteExport, UploadFile, MarkCompleted, MarkFailed, Busy, TypeOK
<1>2. CASE Load(w) \/ WriteExport(w) \/ UploadFile(w)
  BY <1>1, <1>2 DEF Load, WriteExport, UploadFile, TypeOK
<1>3. CASE MarkCompleted(w)
  BY <1>1, <1>3 DEF MarkCompleted, Completed, TypeOK
<1>4. CASE MarkFailed(w)
  BY <1>1, <1>4 DEF MarkFailed, Failed, TypeOK
<1> QED
  BY <1>1, <1>2, <1>3, <1>4 DEF Proceed

LEMMA CreatePendingFrame ==
    ASSUME TypeOK, NEW w \in Workers, NEW r \in RunIds, NEW u, NEW p,
           CreatePending(w, r, u, p)
    PROVE  /\ ~ Busy(w) /\ runs[r].status = "absent"
           /\ runs'[r].status = "running" /\ runs'[r].owner = u /\ runs'[r].period = p
           /\ \A q \in RunIds : q # r => runs'[q] = runs[q]
           /\ \A v \in Workers : v # w => pc'[v] = pc[v] /\ run'[v] = run[v]
           /\ \/ pc'[w] = "load" /\ run'[w] = r
              \/ pc'[w] = "idle"
BY Tables DEF CreatePending, TypeOK, NoRow, Busy

LEMMA CrashFrame ==
    ASSUME TypeOK, NEW h \in Hosts, Crash(h)
    PROVE  /\ UNCHANGED <<runs, run>>
           /\ \A w \in Workers : HostOf[w] = h => pc'[w] = "idle"
           /\ \A w \in Workers : HostOf[w] # h => pc'[w] = pc[w]
BY Tables DEF Crash, Victims, Busy, TypeOK

LEMMA LambdasAreWorkers ==
    ASSUME NEW w \in Lambdas
    PROVE  /\ w \in Workers /\ HostOf[w] \in Hosts /\ HostOf[w] # ApiHost
           /\ \A v \in Workers : v # w => HostOf[v] # HostOf[w]
BY ScheduleAssumption, HostAssumption

-----------------------------------------------------------------------------
LEMMA ClaimInit == ScheduledInit => ClaimInv
BY ScheduleAssumption DEF ScheduledInit, Init, ClaimInv, Busy

(* Steps that neither start nor end a generation.                           *)
LEMMA QuietKeepsClaims ==
    ASSUME ClaimInv, UNCHANGED <<runs, pc, run>>,
           \A w \in Lambdas : (step'[w] = "generate") = (step[w] = "generate"),
           \A w \in Lambdas : step[w] = "generate" => event'[w] = event[w]
    PROVE  ClaimInv'
BY DEF ClaimInv, Busy

(* An invocation before generate_report: only its step changes.             *)
LEMMA BeforeGeneration ==
    ASSUME QueueInv, NEW w \in Lambdas,
           LookupAccount(w) \/ InsertAccount(w) \/ CommitAccount(w) \/ FindCompleted(w)
    PROVE  /\ step[w] \in {"lookup", "insert", "commit", "find"}
           /\ step'[w] \in {"idle", "insert", "commit", "find", "create"}
           /\ \A v \in Lambdas : v # w => step'[v] = step[v]
           /\ UNCHANGED <<vars, event>>
BY DEF LookupAccount, InsertAccount, CommitAccount, FindCompleted, Goto, Raise, Answer,
       QueueInv

(* A call of generate_report: what it does to the invocation's step.        *)
LEMMA GenerationSteps ==
    ASSUME QueueInv, TypeOK', NEW w \in Lambdas
    PROVE  /\ \A r \in RunIds : StartGeneration(w, r) =>
                /\ step[w] = "create"
                /\ step'[w] = IF pc'[w] = "idle" THEN "idle" ELSE "generate"
                /\ answers' = answers
           /\ Generate(w) =>
                /\ step[w] = "generate"
                /\ step'[w] = IF pc'[w] = "idle" THEN "idle" ELSE "generate"
                /\ \/ answers' = answers
                   \/ /\ pc[w] = "complete" /\ pc'[w] = "idle"
                      /\ answers' = [answers EXCEPT ![event[w]] = @ \cup {run[w]}]
           /\ Generate(w) \/ (\E r \in RunIds : StartGeneration(w, r)) =>
                /\ \A v \in Lambdas : v # w => step'[v] = step[v]
                /\ event' = event
BY DEF StartGeneration, Generate, Goto, Raise, Answer, Busy, QueueInv

LEMMA ClaimStep == LambdaInv /\ LambdaInv' /\ ClaimInv /\ [ScheduledNext]_allVars => ClaimInv'
<1> SUFFICES ASSUME LambdaInv, TypeOK', ClaimInv, [ScheduledNext]_allVars PROVE ClaimInv'
  BY DEF LambdaInv, Inv
<1> USE StepsOfInvocations, Tables
<1>1. TypeOK /\ QueueInv
  BY DEF LambdaInv, Inv
<1>2. ASSUME NEW e \in Events, Fire(e) \/ Duplicate(e) PROVE ClaimInv'
  BY <1>2, QuietKeepsClaims DEF Fire, Duplicate, vars
<1>3. ASSUME NEW w \in Lambdas, NEW e \in Events, Invoke(w, e) PROVE ClaimInv'
  BY <1>1, <1>3, QuietKeepsClaims DEF Invoke, vars, QueueInv
<1>4. ASSUME NEW w \in Lambdas,
             LookupAccount(w) \/ InsertAccount(w) \/ CommitAccount(w) \/ FindCompleted(w)
      PROVE  ClaimInv'
  BY <1>1, <1>4, BeforeGeneration, QuietKeepsClaims DEF vars
<1>5. ASSUME NEW w \in Lambdas, NEW r \in RunIds, StartGeneration(w, r) PROVE ClaimInv'
  <2>1. CreatePending(w, r, Service, EventPeriod[event[w]])
    BY <1>5 DEF StartGeneration
  <2>2. /\ ~ Busy(w) /\ runs[r].status = "absent"
        /\ runs'[r].owner = Service /\ runs'[r].period = EventPeriod[event[w]]
        /\ \A q \in RunIds : q # r => runs'[q] = runs[q]
        /\ \A v \in Workers : v # w => pc'[v] = pc[v] /\ run'[v] = run[v]
        /\ \/ pc'[w] = "load" /\ run'[w] = r
           \/ pc'[w] = "idle"
    BY <1>1, <2>1, CreatePendingFrame, LambdasAreWorkers
  <2>3. /\ step'[w] = IF pc'[w] = "idle" THEN "idle" ELSE "generate"
        /\ \A v \in Lambdas : v # w => step'[v] = step[v]
        /\ event' = event
    BY <1>1, <1>5, GenerationSteps
  <2>4. \A v \in Workers : Busy(v) => run[v] \in RunIds /\ run[v] # r
    BY <1>1, <2>2 DEF LambdaInv, Inv, WorkersRunIsOpen, TypeOK
  <2> QED
    BY <2>2, <2>3, <2>4, LambdasAreWorkers DEF ClaimInv, Busy
<1>6. ASSUME NEW w \in Lambdas, Generate(w) PROVE ClaimInv'
  <2>1. Proceed(w)
    BY <1>6 DEF Generate
  <2>2. /\ Busy(w) /\ run[w] \in RunIds /\ run' = run
        /\ \A v \in Workers : v # w => pc'[v] = pc[v]
        /\ \A r \in RunIds : r # run[w] => runs'[r] = runs[r]
        /\ runs'[run[w]].owner = runs[run[w]].owner
        /\ runs'[run[w]].period = runs[run[w]].period
    BY <1>1, <2>1, ProceedFrame, LambdasAreWorkers
  <2>3. /\ step'[w] = IF pc'[w] = "idle" THEN "idle" ELSE "generate"
        /\ \A v \in Lambdas : v # w => step'[v] = step[v]
        /\ event' = event
    BY <1>1, <1>6, GenerationSteps
  <2>4. \A v \in Workers : Busy(v) => run[v] \in RunIds
    BY <1>1 DEF TypeOK
  <2> QED
    BY <2>2, <2>3, <2>4, LambdasAreWorkers DEF ClaimInv, Busy
<1>7. ASSUME NEW w \in Lambdas, Die(w) PROVE ClaimInv'
  <2>1. /\ step'[w] = "idle" /\ event' = event
        /\ \A v \in Lambdas : v # w => step'[v] = step[v]
    BY <1>1, <1>7 DEF Die, Raise, QueueInv
  <2>2. CASE Busy(w)
    <3>1. /\ UNCHANGED <<runs, run>> /\ pc'[w] = "idle"
          /\ \A v \in Workers : v # w => pc'[v] = pc[v]
      BY <1>1, <1>7, <2>2, CrashFrame, LambdasAreWorkers DEF Die
    <3> QED
      BY <2>1, <3>1, LambdasAreWorkers DEF ClaimInv, Busy
  <2>3. CASE ~ Busy(w)
    <3>1. UNCHANGED vars
      BY <1>7, <2>3 DEF Die
    <3> QED
      BY <2>1, <2>3, <3>1, QuietKeepsClaims DEF vars, ClaimInv
  <2> QED
    BY <2>2, <2>3
<1>8. CASE Api
  <2>1. UNCHANGED <<step, event>>
    BY <1>8 DEF Api, lambdaVars
  <2>2. ASSUME NEW b \in Batches, Ingest(b) PROVE ClaimInv'
    BY <2>1, <2>2, QuietKeepsClaims DEF Ingest
  <2>3. ASSUME NEW w \in Workers \ Lambdas, Proceed(w) PROVE ClaimInv'
    <3>1. /\ Busy(w) /\ run[w] \in RunIds /\ run' = run
          /\ \A v \in Workers : v # w => pc'[v] = pc[v]
          /\ \A r \in RunIds : r # run[w] => runs'[r] = runs[r]
          /\ runs'[run[w]].owner = runs[run[w]].owner
          /\ runs'[run[w]].period = runs[run[w]].period
      BY <1>1, <2>3, ProceedFrame
    <3>2. \A v \in Workers : Busy(v) => run[v] \in RunIds
      BY <1>1 DEF TypeOK
    <3> QED
      BY <2>1, <3>1, <3>2, LambdasAreWorkers DEF ClaimInv, Busy
  <2>4. ASSUME NEW w \in Workers \ Lambdas, NEW r \in RunIds, NEW u \in Users \ {Service},
               NEW p \in Periods, CreatePending(w, r, u, p)
        PROVE  ClaimInv'
    <3>1. /\ ~ Busy(w) /\ runs[r].status = "absent" /\ runs'[r].owner = u
          /\ \A q \in RunIds : q # r => runs'[q] = runs[q]
          /\ \A v \in Workers : v # w => pc'[v] = pc[v] /\ run'[v] = run[v]
          /\ \/ pc'[w] = "load" /\ run'[w] = r
             \/ pc'[w] = "idle"
      BY <1>1, <2>4, CreatePendingFrame
    <3>2. \A v \in Workers : Busy(v) => run[v] \in RunIds /\ run[v] # r
      BY <1>1, <3>1 DEF LambdaInv, Inv, WorkersRunIsOpen, TypeOK
    <3> QED
      BY <2>1, <3>1, <3>2, LambdasAreWorkers DEF ClaimInv, Busy
  <2>5. CASE Crash(ApiHost)
    <3>1. /\ UNCHANGED <<runs, run>>
          /\ \A w \in Lambdas : pc'[w] = pc[w]
          /\ \A w \in Workers : pc'[w] \in {"idle", pc[w]}
      BY <1>1, <2>5, CrashFrame, LambdasAreWorkers, HostAssumption
    <3> QED
      BY <2>1, <3>1, LambdasAreWorkers DEF ClaimInv, Busy
  <2> QED
    BY <1>8, <2>2, <2>3, <2>4, <2>5 DEF Api
<1>9. CASE RecycleIdle
  BY <1>9, QuietKeepsClaims DEF RecycleIdle, Recycle, lambdaVars
<1>10. CASE UNCHANGED allVars
  BY <1>10, QuietKeepsClaims DEF allVars, vars, lambdaVars
<1> QED
  BY <1>2, <1>3, <1>4, <1>5, <1>6, <1>7, <1>8, <1>9, <1>10 DEF ScheduledNext, Invocation

-----------------------------------------------------------------------------
(* One invocation at a time, as Lambda's reserved concurrency can promise.  *)
SerialLambda == Concurrency = 1 /\ IsFiniteSet(Lambdas)

LEMMA SerialInit == ScheduledInit => SerialInv
BY DEF ScheduledInit, Init, SerialInv, OneAtATime, NobodyElseReports, OneReportPerPeriod,
       AnswersAreReports, AnswersAreSettled, Running, IsReport, NoRow

(* Steps that publish nothing, answer nothing and begin no invocation.      *)
LEMMA QuietKeepsSerial ==
    ASSUME ClaimInv, SerialInv, UNCHANGED <<runs, answers>>,
           \A w \in Workers : Busy(w)' => Busy(w) /\ run'[w] = run[w],
           \A w \in Lambdas : step'[w] # "idle" => step[w] # "idle" /\ event'[w] = event[w],
           \A w \in Lambdas : step'[w] = "create" => step[w] = "create",
           \A w \in Lambdas : step'[w] = "generate" =>
             step[w] = "generate" /\ run'[w] = run[w]
    PROVE  SerialInv'
<1>1. /\ \A w \in Running' : w \in Running /\ event'[w] = event[w]
      /\ \A r \in RunIds : IsReport(r)' <=> IsReport(r)
  BY DEF Running, IsReport
<1>2. OneAtATime'
  BY <1>1 DEF SerialInv, OneAtATime
<1>3. NobodyElseReports'
  BY <1>1 DEF SerialInv, NobodyElseReports, Running
<1>4. OneReportPerPeriod' /\ AnswersAreReports'
  BY DEF SerialInv, OneReportPerPeriod, AnswersAreReports
<1>5. AnswersAreSettled'
  BY DEF SerialInv, AnswersAreSettled, Worked, Working
<1> QED
  BY <1>2, <1>3, <1>4, <1>5 DEF SerialInv

LEMMA InvokeKeepsSerial ==
    ASSUME SerialLambda, QueueInv, SerialInv,
           NEW w \in Lambdas, NEW e \in Events, Invoke(w, e)
    PROVE  SerialInv'
<1>1. Running = {}
  <2>1. IsFiniteSet(Running) /\ Cardinality(Running) < 1
    BY FS_Subset DEF SerialLambda, Running, Invoke
  <2> QED
    BY <2>1, FS_CardinalityType, FS_EmptySet
<1>2. /\ step' = [step EXCEPT ![w] = "lookup"]
      /\ UNCHANGED <<vars, answers>>
  BY DEF Invoke
<1>3. Running' = {w} /\ step'[w] = "lookup"
  BY <1>1, <1>2, StepsOfInvocations DEF Running, QueueInv
<1>4. OneAtATime' /\ NobodyElseReports'
  BY <1>3 DEF OneAtATime, NobodyElseReports
<1>5. OneReportPerPeriod' /\ AnswersAreReports' /\ AnswersAreSettled'
  BY <1>2 DEF SerialInv, OneReportPerPeriod, AnswersAreReports, AnswersAreSettled,
       Worked, Working, Busy, vars
<1> QED
  BY <1>4, <1>5 DEF SerialInv

LEMMA FindCompletedKeepsSerial ==
    ASSUME QueueInv, ClaimInv, SerialInv, NEW w \in Lambdas, FindCompleted(w)
    PROVE  SerialInv'
<1> DEFINE found == FindCompletedRuns(EventPeriod[event[w]])
<1>1. step[w] = "find" /\ UNCHANGED vars /\ w \in Running /\ event[w] \in Events
  BY DEF FindCompleted, Running, QueueInv, InvocationsHaveEvents
<1>2. \A v \in Running : v = w
  BY <1>1 DEF SerialInv, OneAtATime
<1>3. ASSUME NEW r \in found, Answer(w, r) PROVE SerialInv'
  <2>1. /\ r \in RunIds /\ IsReport(r) /\ runs[r].period = EventPeriod[event[w]]
    BY DEF FindCompletedRuns, IsReport
  <2>2. ~ Worked(r)
    <3> SUFFICES ASSUME NEW v \in Workers, Working(v, r) PROVE FALSE
      BY DEF Worked
    <3>1. v \in Lambdas
      BY <2>1 DEF ClaimInv, Working, IsReport
    <3>2. step[v] = "generate" /\ v \in Running
      BY <3>1 DEF ClaimInv, Working, Running
    <3> QED
      BY <1>1, <1>2, <3>2
  <2>3. /\ step' = [step EXCEPT ![w] = "idle"] /\ event' = event
        /\ answers' = [answers EXCEPT ![event[w]] = @ \cup {r}]
    BY <1>3 DEF Answer
  <2>4. Running' = {}
    BY <1>2, <2>3, StepsOfInvocations DEF Running, QueueInv
  <2>5. OneAtATime' /\ NobodyElseReports' /\ OneReportPerPeriod'
    BY <1>1, <2>4 DEF OneAtATime, NobodyElseReports, OneReportPerPeriod, SerialInv, vars
  <2>6. AnswersAreReports' /\ AnswersAreSettled'
    BY <1>1, <2>1, <2>2, <2>3 DEF AnswersAreReports, AnswersAreSettled, SerialInv, QueueInv,
         IsReport, Worked, Working, Busy, vars
  <2> QED
    BY <2>5, <2>6 DEF SerialInv
<1>4. ASSUME found = {}, Goto(w, "create") PROVE SerialInv'
  <2>1. step' = [step EXCEPT ![w] = "create"] /\ UNCHANGED <<answers, event>>
    BY <1>4 DEF Goto
  <2>2. Running' = {w} /\ step'[w] = "create"
    BY <1>1, <1>2, <2>1, StepsOfInvocations DEF Running, QueueInv
  <2>3. \A r \in RunIds : ~ (IsReport(r) /\ runs[r].period = EventPeriod[event[w]])
    BY <1>4 DEF FindCompletedRuns, IsReport
  <2>4. OneAtATime' /\ NobodyElseReports'
    BY <1>1, <2>1, <2>2, <2>3 DEF OneAtATime, NobodyElseReports, IsReport, vars
  <2>5. OneReportPerPeriod' /\ AnswersAreReports' /\ AnswersAreSettled'
    BY <1>1, <2>1 DEF SerialInv, OneReportPerPeriod, AnswersAreReports, AnswersAreSettled,
         Worked, Working, Busy, vars
  <2> QED
    BY <2>4, <2>5 DEF SerialInv
<1>5. CASE Raise(w)
  <2>1. step' = [step EXCEPT ![w] = "idle"] /\ UNCHANGED <<answers, event>>
    BY <1>5 DEF Raise
  <2> QED
    BY <1>1, <2>1, QuietKeepsSerial DEF QueueInv, Busy, vars
<1> QED
  BY <1>3, <1>4, <1>5 DEF FindCompleted

LEMMA StartGenerationKeepsSerial ==
    ASSUME TypeOK, TypeOK', QueueInv, SerialInv,
           NEW w \in Lambdas, NEW r \in RunIds, StartGeneration(w, r)
    PROVE  SerialInv'
<1>1. CreatePending(w, r, Service, EventPeriod[event[w]])
  BY DEF StartGeneration
<1>2. /\ runs[r].status = "absent" /\ runs'[r].status = "running"
      /\ \A q \in RunIds : q # r => runs'[q] = runs[q]
      /\ \A v \in Workers : v # w => pc'[v] = pc[v] /\ run'[v] = run[v]
      /\ \/ pc'[w] = "load" /\ run'[w] = r
         \/ pc'[w] = "idle"
  BY <1>1, CreatePendingFrame, LambdasAreWorkers
<1>3. /\ step[w] = "create"
      /\ step'[w] \in {"idle", "generate"}
      /\ \A v \in Lambdas : v # w => step'[v] = step[v]
      /\ event' = event /\ answers' = answers
  BY GenerationSteps
<1>4. w \in Running /\ Running' \subseteq Running
  BY <1>3 DEF Running
<1>5. \A v \in Running : v = w
  BY <1>4 DEF SerialInv, OneAtATime
<1>6. OneAtATime'
  BY <1>4, <1>5 DEF OneAtATime
<1>7. \A q \in RunIds : IsReport(q)' => q # r /\ IsReport(q) /\ runs'[q] = runs[q]
  BY <1>2 DEF IsReport
<1>8. NobodyElseReports'
  BY <1>3, <1>4, <1>5, <1>7 DEF SerialInv, NobodyElseReports
<1>9. OneReportPerPeriod'
  BY <1>7 DEF SerialInv, OneReportPerPeriod, IsReport
<1>10. \A e \in Events : \A q \in answers[e] : q \in RunIds /\ q # r
  BY <1>2 DEF SerialInv, AnswersAreReports, QueueInv
<1>11. AnswersAreReports' /\ AnswersAreSettled'
  BY <1>2, <1>3, <1>10, LambdasAreWorkers
     DEF SerialInv, AnswersAreReports, AnswersAreSettled, Worked, Working, Busy
<1> QED
  BY <1>6, <1>8, <1>9, <1>11 DEF SerialInv

LEMMA GenerateKeepsSerial ==
    ASSUME Inv, TypeOK', QueueInv, ClaimInv, SerialInv, NEW w \in Lambdas, Generate(w)
    PROVE  SerialInv'
<1>1. TypeOK /\ OneWorkerPerRun
  BY DEF Inv
<1>2. /\ Busy(w) /\ run[w] \in RunIds /\ run' = run
      /\ \A v \in Workers : v # w => pc'[v] = pc[v]
      /\ \A r \in RunIds : r # run[w] => runs'[r] = runs[r]
      /\ runs'[run[w]].owner = runs[run[w]].owner
      /\ runs'[run[w]].period = runs[run[w]].period
      /\ pc[w] = "complete" /\ pc'[w] = "idle" => runs'[run[w]].status = "completed"
  BY <1>1, ProceedFrame, LambdasAreWorkers DEF Generate
<1>3. /\ step[w] = "generate"
      /\ step'[w] \in {"idle", "generate"}
      /\ \A v \in Lambdas : v # w => step'[v] = step[v]
      /\ event' = event
  BY GenerationSteps
<1>4. \/ answers' = answers
      \/ /\ pc[w] = "complete" /\ pc'[w] = "idle"
         /\ answers' = [answers EXCEPT ![event[w]] = @ \cup {run[w]}]
  BY GenerationSteps
<1>5. w \in Running /\ Running' \subseteq Running /\ event[w] \in Events
  BY <1>3 DEF Running, QueueInv, InvocationsHaveEvents
<1>6. \A v \in Running : v = w
  BY <1>5 DEF SerialInv, OneAtATime
<1>7. runs[run[w]].owner = Service /\ runs[run[w]].period = EventPeriod[event[w]]
  BY <1>2 DEF ClaimInv
<1>8. ASSUME NEW r \in RunIds, IsReport(r)', runs'[r].period = EventPeriod[event[w]]
      PROVE  r = run[w]
  <2> SUFFICES ASSUME r # run[w] PROVE FALSE
    OBVIOUS
  <2>1. IsReport(r) /\ runs[r].period = EventPeriod[event[w]]
    BY <1>2, <1>8 DEF IsReport
  <2> QED
    BY <1>3, <1>5, <2>1 DEF SerialInv, NobodyElseReports
<1>9. OneAtATime' /\ NobodyElseReports'
  BY <1>2, <1>3, <1>5, <1>6, <1>8 DEF OneAtATime, NobodyElseReports
<1>10. OneReportPerPeriod'
  <2> SUFFICES ASSUME NEW q \in RunIds, NEW r \in RunIds, IsReport(q)', IsReport(r)',
                      runs'[q].period = runs'[r].period
               PROVE  q = r
    BY DEF OneReportPerPeriod, IsReport
  <2>1. CASE q = run[w] \/ r = run[w]
    BY <1>2, <1>7, <1>8, <2>1
  <2>2. CASE q # run[w] /\ r # run[w]
    BY <1>2, <2>2 DEF SerialInv, OneReportPerPeriod, IsReport
  <2> QED
    BY <2>1, <2>2
<1>11. \A e \in Events : \A r \in answers[e] :
         r \in RunIds /\ ~ Worked(r) /\ r # run[w] /\ runs'[r] = runs[r]
  BY <1>2, LambdasAreWorkers DEF SerialInv, AnswersAreSettled, QueueInv, Worked, Working
<1>12. \A r \in RunIds : ~ Worked(r) => ~ Worked(r)'
  BY <1>2, LambdasAreWorkers DEF Worked, Working, Busy
<1>13. CASE answers' = answers
  BY <1>3, <1>9, <1>10, <1>11, <1>12, <1>13
     DEF SerialInv, AnswersAreReports, AnswersAreSettled
<1>14. CASE /\ pc[w] = "complete" /\ pc'[w] = "idle"
            /\ answers' = [answers EXCEPT ![event[w]] = @ \cup {run[w]}]
  <2>1. ~ Worked(run[w])'
    BY <1>1, <1>2, <1>14, LambdasAreWorkers DEF OneWorkerPerRun, Worked, Working, Busy
  <2>2. runs'[run[w]].status = "completed"
    BY <1>2, <1>14
  <2>3. \A e \in Events : \A r \in answers'[e] :
          r \in answers[e] \/ (r = run[w] /\ e = event[w])
    BY <1>14 DEF QueueInv
  <2>4. AnswersAreReports'
    <3> SUFFICES ASSUME NEW e \in Events, NEW r \in answers'[e]
                 PROVE  /\ runs'[r].status = "completed" /\ runs'[r].owner = Service
                        /\ runs'[r].period = EventPeriod[e]
      BY DEF AnswersAreReports
    <3>1. CASE r \in answers[e]
      BY <1>11, <3>1 DEF SerialInv, AnswersAreReports
    <3>2. CASE r = run[w] /\ e = event[w]
      BY <1>2, <1>7, <2>2, <3>2
    <3> QED
      BY <2>3, <3>1, <3>2
  <2>5. AnswersAreSettled'
    BY <1>11, <1>12, <2>1, <2>3, <1>2 DEF AnswersAreSettled
  <2> QED
    BY <1>9, <1>10, <2>4, <2>5 DEF SerialInv
<1> QED
  BY <1>4, <1>13, <1>14

LEMMA DieKeepsSerial ==
    ASSUME TypeOK, QueueInv, ClaimInv, SerialInv, NEW w \in Lambdas, Die(w)
    PROVE  SerialInv'
<1>1. /\ step'[w] = "idle" /\ event' = event /\ answers' = answers
      /\ \A v \in Lambdas : v # w => step'[v] = step[v]
  BY DEF Die, Raise, QueueInv
<1>2. UNCHANGED <<runs, run>> /\ \A v \in Workers : pc'[v] \in {"idle", pc[v]}
  <2>1. CASE Busy(w)
    BY <2>1, CrashFrame, LambdasAreWorkers DEF Die
  <2>2. CASE ~ Busy(w)
    BY <2>2 DEF Die, vars
  <2> QED
    BY <2>1, <2>2
<1> QED
  BY <1>1, <1>2, QuietKeepsSerial DEF Busy

(* Manual reports, uploads and a crash of the API do not concern the        *)
(* schedule: no run of an API worker belongs to the service account.        *)
LEMMA ApiKeepsSerial ==
    ASSUME TypeOK, QueueInv, ClaimInv, SerialInv, Api
    PROVE  SerialInv'
<1>1. UNCHANGED <<step, event, answers>>
  BY DEF Api, lambdaVars
<1>2. ASSUME NEW b \in Batches, Ingest(b) PROVE SerialInv'
  BY <1>1, <1>2, QuietKeepsSerial DEF Ingest, Busy
<1>3. CASE Crash(ApiHost)
  <2>1. UNCHANGED <<runs, run>> /\ \A v \in Workers : pc'[v] \in {"idle", pc[v]}
    BY <1>3, CrashFrame, HostAssumption
  <2> QED
    BY <1>1, <2>1, QuietKeepsSerial DEF Busy
<1>4. ASSUME (* what a step of an API worker leaves alone *)
             \A r \in RunIds : IsReport(r)' \/ IsReport(r) => runs'[r] = runs[r],
             \A r \in RunIds : ~ Worked(r) /\ runs[r].status = "completed" => ~ Worked(r)',
             \A r \in RunIds : ~ Worked(r) /\ runs[r].status = "completed" => runs'[r] = runs[r],
             \A v \in Lambdas : run'[v] = run[v]
      PROVE  SerialInv'
  <2>1. Running' = Running /\ \A r \in RunIds : IsReport(r)' <=> IsReport(r)
    BY <1>1, <1>4 DEF Running, IsReport
  <2>2. OneAtATime' /\ NobodyElseReports'
    BY <1>1, <1>4, <2>1 DEF SerialInv, OneAtATime, NobodyElseReports, Running
  <2>3. OneReportPerPeriod'
    BY <1>4, <2>1 DEF SerialInv, OneReportPerPeriod, IsReport
  <2>4. AnswersAreReports' /\ AnswersAreSettled'
    BY <1>1, <1>4 DEF SerialInv, AnswersAreReports, AnswersAreSettled, QueueInv
  <2> QED
    BY <2>2, <2>3, <2>4 DEF SerialInv
<1>5. ASSUME NEW w \in Workers \ Lambdas, Proceed(w) PROVE SerialInv'
  <2>1. /\ Busy(w) /\ run[w] \in RunIds /\ run' = run
        /\ \A v \in Workers : v # w => pc'[v] = pc[v]
        /\ \A r \in RunIds : r # run[w] => runs'[r] = runs[r]
        /\ runs'[run[w]].owner = runs[run[w]].owner
    BY <1>5, ProceedFrame
  <2>2. runs[run[w]].owner # Service /\ Worked(run[w])
    BY <2>1 DEF ClaimInv, Worked, Working
  <2>3. \A r \in RunIds : ~ Worked(r) => r # run[w] /\ ~ Worked(r)'
    BY <2>1, <2>2 DEF Worked, Working, Busy
  <2>4. \A r \in RunIds : IsReport(r)' \/ IsReport(r) => r # run[w]
    BY <2>1, <2>2 DEF IsReport
  <2> QED
    BY <1>4, <2>1, <2>3, <2>4
<1>6. ASSUME NEW w \in Workers \ Lambdas, NEW r \in RunIds, NEW u \in Users \ {Service},
             NEW p \in Periods, CreatePending(w, r, u, p)
      PROVE  SerialInv'
  <2>1. /\ ~ Busy(w) /\ runs[r].status = "absent" /\ runs'[r].status = "running"
        /\ \A q \in RunIds : q # r => runs'[q] = runs[q]
        /\ \A v \in Workers : v # w => pc'[v] = pc[v] /\ run'[v] = run[v]
        /\ \/ pc'[w] = "load" /\ run'[w] = r
           \/ pc'[w] = "idle"
    BY <1>6, CreatePendingFrame
  <2>2. \A q \in RunIds : q # r /\ ~ Worked(q) => ~ Worked(q)'
    BY <2>1 DEF Worked, Working, Busy
  <2>3. \A q \in RunIds : IsReport(q)' \/ IsReport(q) => q # r
    BY <2>1 DEF IsReport
  <2> QED
    BY <1>4, <2>1, <2>2, <2>3, LambdasAreWorkers
<1> QED
  BY <1>2, <1>3, <1>5, <1>6 DEF Api

LEMMA SerialStep ==
    ASSUME SerialLambda
    PROVE  LambdaInv /\ LambdaInv' /\ ClaimInv /\ SerialInv /\ [ScheduledNext]_allVars
             => SerialInv'
<1> SUFFICES ASSUME LambdaInv, TypeOK', ClaimInv, SerialInv, [ScheduledNext]_allVars
             PROVE  SerialInv'
  BY DEF LambdaInv, Inv
<1>1. TypeOK /\ QueueInv /\ Inv
  BY DEF LambdaInv, Inv
<1>2. ASSUME NEW e \in Events, Fire(e) \/ Duplicate(e) PROVE SerialInv'
  BY <1>2, QuietKeepsSerial DEF Fire, Duplicate, vars, Busy
<1>3. ASSUME NEW w \in Lambdas, NEW e \in Events, Invoke(w, e) PROVE SerialInv'
  BY <1>1, <1>3, InvokeKeepsSerial
<1>4. ASSUME NEW w \in Lambdas, LookupAccount(w) \/ InsertAccount(w) \/ CommitAccount(w)
      PROVE  SerialInv'
  <2>1. /\ step'[w] \in {"idle", "insert", "commit", "find"} /\ step[w] # "idle"
        /\ \A v \in Lambdas : v # w => step'[v] = step[v]
        /\ UNCHANGED <<vars, event, answers>>
    BY <1>1, <1>4 DEF LookupAccount, InsertAccount, CommitAccount, Goto, Raise, QueueInv
  <2> QED
    BY <2>1, QuietKeepsSerial DEF vars, Busy
<1>5. ASSUME NEW w \in Lambdas, FindCompleted(w) PROVE SerialInv'
  BY <1>1, <1>5, FindCompletedKeepsSerial
<1>6. ASSUME NEW w \in Lambdas, NEW r \in RunIds, StartGeneration(w, r) PROVE SerialInv'
  BY <1>1, <1>6, StartGenerationKeepsSerial
<1>7. ASSUME NEW w \in Lambdas, Generate(w) PROVE SerialInv'
  BY <1>1, <1>7, GenerateKeepsSerial
<1>8. ASSUME NEW w \in Lambdas, Die(w) PROVE SerialInv'
  BY <1>1, <1>8, DieKeepsSerial
<1>9. CASE Api
  BY <1>1, <1>9, ApiKeepsSerial
<1>10. CASE RecycleIdle
  BY <1>10, QuietKeepsSerial DEF RecycleIdle, Recycle, lambdaVars, Busy
<1>11. CASE UNCHANGED allVars
  BY <1>11, QuietKeepsSerial DEF allVars, vars, lambdaVars, Busy
<1> QED
  BY <1>2, <1>3, <1>4, <1>5, <1>6, <1>7, <1>8, <1>9, <1>10, <1>11
     DEF ScheduledNext, Invocation

(* "The same period must not be reported twice": retries, duplicate         *)
(* deliveries, killed invocations and commits of unknown outcome leave at   *)
(* most one completed scheduled report per period, if invocations do not    *)
(* overlap.  Nothing in the code enforces that they do not.                 *)
THEOREM PeriodsAreReportedOnce ==
    ASSUME SerialLambda
    PROVE  ScheduledSpec => []OneReportPerPeriod
<1>1. LambdaInv /\ LambdaInv' /\ ClaimInv /\ SerialInv /\ [ScheduledNext]_allVars
        => SerialInv'
  BY SerialStep
<1>2. SerialInv => OneReportPerPeriod
  BY DEF SerialInv
<1> QED
  BY <1>1, <1>2, LambdaInit, LambdaStep, ClaimInit, ClaimStep, SerialInit, PTL
     DEF ScheduledSpec

(* What the handler answered stays a completed report of the event's period *)
(* made by the service account.                                             *)
THEOREM AnswersStayReports ==
    ASSUME SerialLambda
    PROVE  ScheduledSpec => []AnswersAreReports
<1>1. LambdaInv /\ LambdaInv' /\ ClaimInv /\ SerialInv /\ [ScheduledNext]_allVars
        => SerialInv'
  BY SerialStep
<1>2. SerialInv => AnswersAreReports
  BY DEF SerialInv
<1> QED
  BY <1>1, <1>2, LambdaInit, LambdaStep, ClaimInit, ClaimStep, SerialInit, PTL
     DEF ScheduledSpec
=============================================================================
