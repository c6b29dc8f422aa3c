--------------------------- MODULE ScheduledReport ---------------------------
(***************************************************************************)
(* The scheduled Lambda (lambda_handlers/scheduled_report.py and           *)
(* application/scheduled_report_service.py) on top of generate_report.     *)
(* EventBridge fires an event per period; Lambda delivers it at least once *)
(* and retries an invocation that raised or died.  An invocation finds or  *)
(* creates the service account, looks for a completed run of the period    *)
(* and generates one if there is none.  Each of these is a transaction of  *)
(* its own, so two invocations interleave between any two of them.         *)
(***************************************************************************)
EXTENDS ReportService

CONSTANTS
    Lambdas,        \* the workers that are Lambda environments
    Service,        \* the service account, system@compliance.local
    Events,         \* scheduled events
    EventPeriod,    \* [Events -> Periods], resolve_period of each event
    MaxAttempts,    \* Lambda's first attempt and its retries
    MaxDuplicates,  \* bounds the deliveries Lambda may duplicate, per event
    Concurrency     \* invocations Lambda runs at the same time

ASSUME ScheduleAssumption ==
    /\ Lambdas \subseteq Workers
    /\ \A v, w \in Lambdas : HostOf[v] = HostOf[w] => v = w
    /\ \A w \in Workers : HostOf[w] \in Ephemeral <=> w \in Lambdas
    /\ Service \in Users
    /\ EventPeriod \in [Events -> Periods]
    /\ MaxAttempts \in Nat \ {0} /\ MaxDuplicates \in Nat /\ Concurrency \in Nat \ {0}

VARIABLES
    due,        \* per event: deliveries Lambda still owes
    tries,      \* per event: invocations started
    duplicates, \* per event: deliveries duplicated so far
    answers,    \* per event: runs returned by successful invocations
    account,    \* the service account's row: absent, inserted (not committed), committed
    holder,     \* the invocation whose open transaction inserted the row
    step,       \* per Lambda: where its invocation is
    event       \* per Lambda: the event it handles

lambdaVars == <<due, tries, duplicates, answers, account, holder, step, event>>
allVars == <<vars, lambdaVars>>

InvocationSteps ==
    {"idle", "lookup", "insert", "commit", "find", "create", "generate"}

LambdaTypeOK ==
    /\ due \in [Events -> 0 .. MaxAttempts + MaxDuplicates]
    /\ tries \in [Events -> 0 .. MaxAttempts + MaxDuplicates]
    /\ duplicates \in [Events -> 0 .. MaxDuplicates]
    /\ answers \in [Events -> SUBSET RunIds]
    /\ account \in {"absent", "inserted", "committed"}
    /\ holder \in {None} \cup Lambdas
    /\ step \in [Lambdas -> InvocationSteps]
    /\ event \in [Lambdas -> {None} \cup Events]

ScheduledInit ==
    /\ Init
    /\ due = [e \in Events |-> 0]
    /\ tries = [e \in Events |-> 0]
    /\ duplicates = [e \in Events |-> 0]
    /\ answers = [e \in Events |-> {}]
    /\ account = "absent"
    /\ holder = None
    /\ step = [w \in Lambdas |-> "idle"]
    /\ event = [w \in Lambdas |-> None]

Running == {w \in Lambdas : step[w] # "idle"}

-----------------------------------------------------------------------------
(* Faulty variants, as in ReportService.                                   *)

(* find_completed without the status filter.                               *)
FindAnyRuns(p) ==
    {r \in RunIds : runs[r].owner = Service /\ runs[r].period = p}

(* find_completed with another period's dates.                             *)
FindOtherPeriod(p) ==
    {r \in RunIds : /\ runs[r].status = "completed"
                    /\ runs[r].owner = Service
                    /\ runs[r].period # p}

(* The handler catches the exception and returns normally: no retry.       *)
RaiseSwallowed(w) ==
    /\ step' = [step EXCEPT ![w] = "idle"]
    /\ UNCHANGED <<due, tries, duplicates, answers, event>>

(* The attempts are not counted.                                           *)
RaiseUncounted(w) ==
    /\ step' = [step EXCEPT ![w] = "idle"]
    /\ due' = [due EXCEPT ![event[w]] = @ + 1]
    /\ UNCHANGED <<tries, duplicates, answers, event>>

-----------------------------------------------------------------------------
(* find_completed: exactly this period, this trigger, COMPLETED.           *)
FindCompletedRuns(p) ==
    {r \in RunIds : /\ runs[r].status = "completed"
                    /\ runs[r].owner = Service
                    /\ runs[r].period = p}

(* EventBridge and Lambda, as the handler's comments describe them.        *)

Fire(e) ==
    /\ tries[e] = 0 /\ due[e] = 0
    /\ due' = [due EXCEPT ![e] = 1]
    /\ UNCHANGED <<vars, tries, duplicates, answers, account, holder, step, event>>

(* At-least-once delivery: an event that was delivered is delivered again. *)
Duplicate(e) ==
    /\ tries[e] > 0
    /\ duplicates[e] < MaxDuplicates
    /\ duplicates' = [duplicates EXCEPT ![e] = @ + 1]
    /\ due' = [due EXCEPT ![e] = @ + 1]
    /\ UNCHANGED <<vars, tries, answers, account, holder, step, event>>

Invoke(w, e) ==
    /\ step[w] = "idle" /\ ~ Busy(w)
    /\ due[e] > 0
    /\ Cardinality(Running) < Concurrency
    /\ due' = [due EXCEPT ![e] = @ - 1]
    /\ tries' = [tries EXCEPT ![e] = @ + 1]
    /\ step' = [step EXCEPT ![w] = "lookup"]
    /\ event' = [event EXCEPT ![w] = e]
    /\ UNCHANGED <<vars, duplicates, answers, account, holder>>

(* The invocation ends without an answer: its session is closed, an open   *)
(* transaction rolled back, and Lambda retries while attempts are left.    *)
Raise(w) ==
    /\ step' = [step EXCEPT ![w] = "idle"]
    /\ due' = [due EXCEPT ![event[w]] =
           IF tries[event[w]] + @ < MaxAttempts + duplicates[event[w]] THEN @ + 1 ELSE @]
    /\ UNCHANGED <<tries, duplicates, answers, event>>

Answer(w, r) ==
    /\ step' = [step EXCEPT ![w] = "idle"]
    /\ answers' = [answers EXCEPT ![event[w]] = @ \cup {r}]
    /\ UNCHANGED <<due, tries, duplicates, event>>

Goto(w, s) ==
    /\ step' = [step EXCEPT ![w] = s]
    /\ UNCHANGED <<due, tries, duplicates, answers, event>>

-----------------------------------------------------------------------------
(* get_or_create_service_account.                                          *)

(* get_by_email: only a committed row is visible.                          *)
LookupAccount(w) ==
    /\ step[w] = "lookup"
    /\ \/ Goto(w, IF account = "committed" THEN "find" ELSE "insert")
       \/ "read" \in Faults /\ Raise(w)
    /\ UNCHANGED <<vars, account, holder>>

(* Faulty: IntegrityError is not caught.                                   *)
InsertAccountOrRaise(w) ==
    /\ step[w] = "insert"
    /\ \/ /\ account = "absent"
          /\ account' = "inserted" /\ holder' = w
          /\ Goto(w, "commit")
       \/ /\ account = "committed"
          /\ Raise(w)
          /\ UNCHANGED <<account, holder>>
    /\ UNCHANGED vars

(* create in a savepoint.  The unique index on email makes the insert wait *)
(* while another transaction's row is not decided; if that one commits,    *)
(* IntegrityError, and the re-read finds the row.                          *)
InsertAccount(w) ==
    /\ step[w] = "insert"
    /\ \/ /\ account = "absent"
          /\ account' = "inserted" /\ holder' = w
       \/ /\ account = "committed"
          /\ UNCHANGED <<account, holder>>
    /\ Goto(w, "commit")
    /\ UNCHANGED vars

CommitAccount(w) ==
    /\ step[w] = "commit"
    /\ \/ /\ account' = "committed" /\ holder' = None
          /\ Goto(w, "find") \/ ("commit_ambiguous" \in Faults /\ Raise(w))
       \/ /\ "commit_lost" \in Faults
          /\ account' = IF holder = w THEN "absent" ELSE account
          /\ holder' = IF holder = w THEN None ELSE holder
          /\ Raise(w)
    /\ UNCHANGED vars

(* find_completed, and the early return of the run it finds.               *)
FindCompleted(w) ==
    /\ step[w] = "find"
    /\ LET found == FindCompletedRuns(EventPeriod[event[w]]) IN
       \/ \E r \in found : Answer(w, r)
       \/ found = {} /\ Goto(w, "create")
       \/ "read" \in Faults /\ Raise(w)
    /\ UNCHANGED <<vars, account, holder>>

(* generate_report is called; its first commit may raise.                  *)
StartGeneration(w, r) ==
    /\ step[w] = "create"
    /\ CreatePending(w, r, Service, EventPeriod[event[w]])
    /\ IF pc'[w] = "idle" THEN Raise(w) ELSE Goto(w, "generate")
    /\ UNCHANGED <<account, holder>>

(* generate_report goes on; it returns its run, or raises.                 *)
Generate(w) ==
    /\ step[w] = "generate"
    /\ Proceed(w)
    /\ IF Busy(w)' THEN Goto(w, "generate")
       ELSE IF pc[w] = "complete" THEN Answer(w, run[w])
       ELSE Raise(w)
    /\ UNCHANGED <<account, holder>>

(* The invocation dies (or runs into the function's time limit) anywhere.  *)
(* PostgreSQL rolls back the transaction it had open.                      *)
Die(w) ==
    /\ "crash" \in Faults
    /\ step[w] # "idle"
    /\ IF Busy(w) THEN Crash(HostOf[w]) ELSE UNCHANGED vars
    /\ account' = IF holder = w THEN "absent" ELSE account
    /\ holder' = IF holder = w THEN None ELSE holder
    /\ Raise(w)

Invocation(w) ==
    \/ LookupAccount(w)
    \/ InsertAccount(w)
    \/ CommitAccount(w)
    \/ FindCompleted(w)
    \/ \E r \in RunIds : StartGeneration(w, r)
    \/ Generate(w)

(* Meanwhile users upload and report through the API.                      *)
Api ==
    /\ \/ \E b \in Batches : Ingest(b)
       \/ \E w \in Workers \ Lambdas : Proceed(w)
       \/ \E w \in Workers \ Lambdas, r \in RunIds, u \in Users \ {Service}, p \in Periods :
            CreatePending(w, r, u, p)
       \/ Crash(ApiHost)
    /\ UNCHANGED lambdaVars

(* An idle Lambda environment is thrown away.                              *)
RecycleIdle ==
    /\ \E w \in Lambdas : step[w] = "idle" /\ Recycle(HostOf[w])
    /\ UNCHANGED lambdaVars

ScheduledNext ==
    \/ \E e \in Events : Fire(e) \/ Duplicate(e)
    \/ \E w \in Lambdas, e \in Events : Invoke(w, e)
    \/ \E w \in Lambdas : Invocation(w) \/ Die(w)
    \/ Api
    \/ RecycleIdle

ScheduledSpec == ScheduledInit /\ [][ScheduledNext]_allVars

(* Lambda delivers what it owes and an invocation keeps running until it   *)
(* returns, raises or is killed; nobody waits on anything but the account  *)
(* row, which its holder commits or loses.                                 *)
ScheduledFairness ==
    /\ \A e \in Events : WF_allVars(\E w \in Lambdas : Invoke(w, e))
    /\ \A w \in Lambdas : WF_allVars(Invocation(w))

FairScheduledSpec == ScheduledSpec /\ ScheduledFairness

-----------------------------------------------------------------------------
(* The properties.                                                         *)

(* "The same period must not be reported twice": retries and duplicate     *)
(* deliveries leave at most one completed scheduled run per period.        *)
OneReportPerPeriod ==
    LET Reported(r) == runs[r].status = "completed" /\ runs[r].owner = Service IN
    \A q, r \in RunIds :
        Reported(q) /\ Reported(r) /\ runs[q].period = runs[r].period => q = r

(* What an invocation answered is, and stays, a completed run of the       *)
(* event's period made by the service account: never a failed attempt and  *)
(* never somebody's manual report.                                         *)
AnswersAreReports ==
    \A e \in Events : \A r \in answers[e] :
        /\ runs[r].status = "completed"
        /\ runs[r].owner = Service
        /\ runs[r].period = EventPeriod[e]

(* "Failures are loud": an event is only given up after Lambda's last      *)
(* attempt, whatever the earlier attempts left behind.                     *)
NeverGivenUpEarly ==
    \A e \in Events :
        tries[e] > 0 /\ answers[e] = {} /\ tries[e] < MaxAttempts =>
            due[e] > 0 \/ \E w \in Running : event[w] = e

(* Every event that is fired is answered, even if several invocations race *)
(* to create the account or to report.                                     *)
EveryEventIsAnswered ==
    \A e \in Events : due[e] > 0 ~> answers[e] # {}
=============================================================================
