# A verification development of the Compliance Reporting Engine

TLA+ models of the engine's backend (`src/backend/app`), the TLC runs that check
them on small instances, and TLAPS proofs of what matters most for every
instance. Every definition is read off the source; `PROJECT.json` maps each one to
its lines and lists the runs, the mutants that show each property can fail, the
findings, the hazards and the theorems.

## 1. The system

| component | state | operations | talks to |
|---|---|---|---|
| **Report generation** `application/report_service.py`, `export_service.py`, `infrastructure/db/repositories`, `infrastructure/storage/s3_client.py` | `report_runs`, line items, audit entries (PostgreSQL); export files (local disk); export objects (S3) | `generate_report`: create a RUNNING row, commit, read, build, write three files, upload three objects, complete, commit; on any exception roll back, mark failed, commit | called by API threads and by the Lambda; reads `transactions` |
| **Scheduled reports** `lambda_handlers/scheduled_report.py`, `application/scheduled_report_service.py` | the service account's row; Lambda's delivery queue (external) | `handler`: resolve the period, find or create the account, reuse a completed run or call `generate_report` | EventBridge and Lambda (at least once, retries) |
| **Period policy** `previous_month_period`, `ScheduledReportEvent`, `list_for_period` | none | validate an event, resolve its month, cut the transactions of a period | scheduled reports, report generation |
| **Rule engine** `domain/rules` | none | classify by the first matching rule, then validate | called by the report builder |
| **Report builder** `domain/services` | none | fingerprint of the input, classify, validate, aggregate per category and currency | called by report generation with what `list_for_period` returned |
| **Ingestion** `application/ingestion_service.py`, `api/v1/batches.py` | `batches`, `transactions` (PostgreSQL) | `upload_batch`: refuse the file, or store batch and rows in one transaction | followed by the trail |
| **Rejection trail** `application/rejection_store.py`, `infrastructure/mongo` | `ingestion_rejections` (MongoDB), its TTL index | record best effort after the commit; list and count; expiry by MongoDB | lifespan hook creates the index |
| **Report and export endpoints** `api/v1/reports.py` | none | trigger, list, get, export (local file, else S3) | report generation, S3 |
| **Users and authentication** `api/v1/auth.py`, `deps.py`, `infrastructure/security` | `users`, tokens | register, log in, authenticate | every endpoint |
| **Request handling** `main.py`, `infrastructure/db/session.py` | event loop, thread pool, connection pool | a session per request, a thread per synchronous step | every endpoint |
| **Provisioning** `scripts/provision_lambda.py` | buckets, the function's code and settings, rules, permissions, targets (AWS, external) | a sequence of AWS calls that may stop after any of them and is run again, with the same configuration or another | AWS; decides which events Lambda gets |
| frontend, migrations, containers, CI, data scripts | | | not modelled, see section 8 |

What is hard here: API threads and Lambda environments share a database and a
bucket but not a disk; a report takes a dozen remote calls, any of which may fail
or be the last one before a crash; a commit may fail after the server applied it;
events are delivered more than once and retried; two databases are written one
after the other; the order of a scan is not determined; a deployment may stop half way
and be repeated while the clock goes on and events wait.

What makes each part correct:

- *Report generation*: a completed report is one snapshot, and its rows, files and
  objects agree; a failed one publishes nothing; no run stays RUNNING for ever.
- *Scheduled reports*: one report per period; failures are retried and visible.
- *Period policy and provisioning*: each event reports the month that just ended, the
  months tile the time line, a rule never fires into the void, a run of the script
  that ends without an error leaves function, schedule and permission as it was asked to.
- *Request handling*: nobody waits for ever, the loop never waits for a connection, and the
  answer of an upload says what became of it.
- *Rules and builder*: every transaction is reported once; large and negative
  amounts cannot hide; the figures and the fingerprint depend on the input only, and
  a report of a period that has ended says the same whenever it is made.
- *Ingestion*: every row is accounted for, a batch appears at once; the trail
  speaks of committed rejections only, is complete when it is read, and expires.

## 2. Modules

```
ReportRuns  <--implements--  ReportService  <--extends--  ScheduledReport
                              |        \                    |          \
                    ReportService_proofs \                  |   MCScheduledReport
                              |           MCReportService   |
                    ReportService_refinement  <--  ScheduledReport_proofs

RuleEngine  <--extends--  ReportBuilder  <-- MCReportBuilder
     |                         |
RuleEngine_proofs  <--  ReportBuilder_proofs

Provisioning, Periods  <--extends--  MonthlySchedule  <-- MCMonthlySchedule
                                          |
                                MonthlySchedule_proofs

Ingestion  <-- MCIngestion          RequestPool  <-- MCRequestPool
     |                                   |
Ingestion_proofs                    RequestPool_proofs
```

**ReportRuns** is the abstract specification of report generation: a run starts,
sees the stored transactions at one instant, publishes exactly this snapshot or
fails, or is abandoned. `MayRevoke` admits the one ugly case, a completed run that
becomes a failed one.

**ReportService** is `generate_report` by several workers. `pc` is the next remote
call, `run` and `input` are its locals (`report_run`, the in-memory
`ReportResult`), `keys` the formats whose upload returned a key. `CreatePending`
is everything to commit #1 and stands before the `try`; `Load`, `WriteExport` (three
times), `UploadFile` (three times) and `MarkCompleted` are the `try` block;
`MarkFailed` is the `except` branch. `Ingest` is the commit of an upload, `Crash` the
death of a host's process, `Recycle` the end of an idle Lambda environment. What a row,
a file or an object *contains* is represented by the set of transactions it was
built from, because a report is a function of them; `Torn` is a file whose
writing was cut short. `Faults` names the failures that may happen; they are
constants so that a run can state under which of them a property holds.
`Served` is what `export_report` answers: the file the row names, else the object it
names, else a 404.

**ScheduledReport** extends it with the Lambda side: `Fire`, `Duplicate` and `Invoke`
are EventBridge and Lambda (external), `Invocation` is the handler one database
transaction at a time, `Raise` Lambda's reaction to an exception or a death, `Die` the
death itself. The account's row is `absent`, `inserted` (in an open transaction, which
makes other inserts of it wait) or `committed`. `Api` lets users upload and report
by hand meanwhile.

It takes the period an event resolves to as a constant; MonthlySchedule has the resolution.

**Periods** is the calendar (months numbered from year 0, leap years, offsets from UTC) and on
it `PreviousMonthPeriod`, an event's validation and resolution, and `InPeriod`, the
inclusive bounds of `list_for_period`. A tick is the resolution of timestamps.

**Provisioning** is the script: `stage` is its next AWS call, `config` the arguments of the
current run; `Fail` is a call that raises or the end of the process, before or after the call
was applied. `PutTargets` is the one call whose failure may be no exception: a failed entry is in
its answer, which the script does not read. `function`, `rules`, `permitted` and `targeted` are what AWS keeps between runs.
Lambda applies an update over time and refuses another meanwhile: `settled` and `Settle`.

**MonthlySchedule** composes both with a clock. `Tick` fires what the rules say and owes
Lambda the event if the rule may invoke the function; `Send` is an operator's
`aws lambda invoke`; `Report` and `Raise` are the two ends of an attempt, each of which may be
followed by another (retries, duplicates). An invocation is one step here;
ScheduledReport has it transaction by transaction.

**RuleEngine** has the rules as predicates of one transaction record
(`Matches`, `Raises`) and the engine's first-match choice. Hints are strings already
known to be in one of the rules' sets after `Lowered` (`strip().lower()`); amounts are
cents.

**ReportBuilder** keeps the `transactions` table as its state and evaluates
`BuildReport` (`aggregate_line_items`, `compute_input_data_hash`, and the rule
violations, which alone depend on the clock) on every scan that `ORDER BY timestamp`
permits. A scan lists the period's rows in some order (a bijection from positions to rows) that is
sorted by timestamp. Inside a scan rows go by their positions, so a group is a set of
positions (`Members`), and what pandas adds up, it adds up in that order (`SumOver`, a recursive
function). The cited ids are kept with their rows. The fingerprint is the sequence of hashed tuples, i.e. the hash is taken to be
injective; that joining fields by `|` and newline is not, is not modelled. An average is the
exact quotient as a fraction (the code's has 28 significant digits).

**Ingestion** follows an upload from the file to the answer: `Receive` (size, type,
parsing; nothing written), `Commit` (the one PostgreSQL transaction), `Record` (MongoDB,
best effort, any part of the documents may have been stored when it fails). A reader
takes a page of the trail in two reads (`ListForBatch`, `CountForBatch`) while `Expire`
deletes. A row is `malformed`, `fine`, or `unstorable`: accepted by the schema and too
much for its column. A page's limit is larger than any batch of the model.

**RequestPool** is one API process under load. `at` is a request's step (a dependency,
an endpoint, or a part of one between two commits), `phase` whether it waits, runs, or has
returned and waits for the loop to resume it. A step in `OnThread` needs a thread of
FastAPI's pool. The parts of `upload_batch` between its awaits occupy `loop`: `check`, which
refuses a file by its name or type, and `ingest`, from the parsing to the commit; between them
the body is read in a thread if it was rolled to disk. `conns`
are the sessions with a connection: taken at the first statement, given back by a commit,
a rollback or the exit of `get_db`. Every database step may raise (`Ingest` and
`DatabaseFails`), and then nobody rolls back, except in `generate_report`; the connection stays
with the session unless the driver found it broken. An upload's commit that raises may have been
applied (`Commit` of Ingestion has the same outcome), so that its answer, 500, says nothing
about what is stored. Not obvious from the code: dependencies of a request
share one session, so the connection `get_current_user` takes is still there when the endpoint
begins; what a synchronous endpoint returns is validated in a thread again; the exit of
`get_db` does not compete for threads. The pools' behaviour is external
(FastAPI 0.115, anyio, SQLAlchemy 2). What the steps store is in the other modules.

## 3. Runs

All `pass` runs end without error; each `violation` run ends with a trace that
refutes a sentence of the repository (section 7).

| run | question | bounds |
|---|---|---|
| `svc_faults` | Are completed reports whole, batches atomic to them, and is generation an implementation of the ledger, under every failure? | 2 API workers on one disk, 1 Lambda, 2 runs, 2 periods, 3 transactions in 2 batches |
| `svc_unwind` | Does every failure the program can see unwind completely, does every run end, and can what a completed run offers be downloaded? | the same workers, 2 runs, 1 period; no crash, no ambiguous commit, no upload failure that is swallowed; with fairness |
| `svc_s3_lost` | finding | 1 run |
| `pool` | Who waits for whom: can the loop stall, does a slow MongoDB, an exhausted pool or an error of the database make an upload's answer untrue, is everyone answered? | 3 requests, 2 threads, 1 connection, 4 routes; with fairness |
| `sched_serial` | One invocation at a time: one report per period, right answers, no early surrender? | 1 Lambda, 1 API worker, 3 runs, 2 attempts, 1 duplicate |
| `sched_race` | Two invocations that race for the account: are both answered? | 2 Lambdas, 2 events of 2 periods, no faults, with fairness |
| `sched_twice` | finding | 2 Lambdas, 1 duplicate |
| `schedule` | Can a stopped or repeated deployment lose events or misreport itself, does every event report the right month, is any instant reported twice or skipped? | 2 runs of the script with 2 configurations (another build, settings, rule name and a rate instead of the monthly expression), 4 clock instants, 1 of 4 manual events, 2 attempts |
| `builder` | Do groups reconcile with the input, do figures and fingerprint depend on the scan, can large or negative amounts hide, does a report of an ended period depend on when it is made? | all tables of up to 3 of 14 transactions, 3 instants after the period |
| `builder_hash_order` | finding | the same |
| `ingest` | Rows accounted for, all or nothing, trail, pages, expiry, under every failure? | 2 uploads, 6 kinds of file, with fairness |
| `ingest_overflow` | finding | 2 uploads, no faults |

The faults a run admits are part of its question. `"commit_ambiguous"`, `"crash"` and
`"db_down"` are left out of `svc_unwind` because with them a run may be revoked or stay
RUNNING, and `"s3"` because a swallowed failure loses a Lambda's exports (`svc_s3_lost`): the
run shows that these are the *only* ways.

**Why the bounds are enough.** Workers interact through a run only if they hold the
same one (never: `OneWorkerPerRun`), through the disk of a host and through the stored
transactions. Two workers on one host and one on another give every kind of
meeting, two runs let one be finished while another is made, a batch with
two transactions of one period can be torn apart, and a second period shows
what must not be read. For the schedule, an attempt, a retry and a duplicate are
the three ways an invocation begins; three runs let each of them make one. In `schedule` a tick
is an hour and the clock visits 1 January, 31 January 23h, 1 February and 1 March 2024: a
year's end, a leap February, and an instant from which a delivery waits into the next month. The
manual events are the README's with an offset that puts it in another month, an empty one, a
backfill, and half an override. Two runs of the script with two configurations give each
stop of the first something different for the second to find. For
the pool, two requests with threads and a third with the connection are the smallest
round in which everybody waits; the code's 40 threads and 15 connections have the same shape. Of the
routes, `login`, `register` and `read` go through steps of `health` or `rejections` (`register`
gives its connection back earlier), and `upload` (body in
memory) those of `large_upload` without leaving the loop; the theorems are about all of them. For
the builder the third row is the first that can lie between two others; the
fourteen transactions have every kind of hint on either side of each boundary of the amount.
Symmetry is used only where values are interchangeable and no property with
fairness is checked.

`CHECK_DEADLOCK FALSE` appears where the bounded model really stops: all run ids used
and all requests answered (the program then waits for requests), the table full,
the clock at its end.

## 4. Fairness

`ReportService!Fairness` is weak fairness of each worker's `Proceed`: the thread of a
request and the Lambda invocation keep running; the driver, the file system and
boto3 return or raise; nothing waits for another worker. Requests, uploads, crashes and
recycling are under no obligation. `ScheduledFairness` adds that Lambda delivers what it owes
and that an invocation goes on; the only wait is the insert of the account's
row, which its holder commits or loses. `RequestPool!Fairness`: threads run, the loop takes up what is
ready, and each wait for a server ends (`pool_timeout`, MongoDB's selection timeout, boto3's; no
time limit is set for a statement of PostgreSQL, so that it returns or fails is assumed). `Ingestion!Fairness` is MongoDB's TTL monitor, once a minute; it is
weak fairness per document, and `Expire` needs the index.

## 5. Proofs

For every value of the constants that satisfies the named assumptions:

- **ReportService_proofs**. `TypeCorrect`. `GenerationInvariant` (`Inv`), from which
  `CompletedRunsAreWhole` follows: `CompletedIsWhole` alone is not inductive, for
  `MarkCompleted` publishes whatever the worker has. The strengthening says that no two
  workers hold one run (else one could overwrite the other's files), that a
  worker's run is still running, that the files written and the keys returned *so far*
  hold the worker's report (`WorkIsConsistent`), that a row is filled in one
  transaction, and that a run's files are on its worker's host and nowhere else.
  `ReportsHoldWholeBatches` adds that each batch is stored entirely or not at all,
  which needs that batches are disjoint. `UnfinishedRunsAreEmpty` and
  `FinishedRunsAreFinal` assume that no commit is ambiguous, which is what
  `svc_unwind` checks; with an ambiguous commit both are false.
  `RunningRunsAreAttended` assumes that nothing abandons a run (no crash, no `except`
  branch that loses the database, no ambiguous first commit). `OffersCanBeDownloaded` has two
  sufficient conditions, either of which will do: uploads do not fail silently (then a
  completed run names all three keys: `KeysInv`), or every worker has the API's disk (then
  the files stay: `FilesRemain`). `svc_s3_lost` is what happens with neither.
- **ReportService_refinement**. `ReportServiceImplementsReportRuns`: the initial states
  map to initial states and each action to a step of the ledger or a stutter, using
  `Inv` and the uniqueness of the worker `Ledger` chooses.
- **ScheduledReport_proofs**. Each step of the Lambda side is a step of ReportService or
  leaves it alone (`ScheduledStepIsServiceStep`), so the scheduled system is a report service
  (`ScheduledSystemIsAReportService`) and every theorem about one holds of it: its reports are whole
  and hold whole batches, and scheduled and manual reports together implement ReportRuns
  (`ScheduledSystemImplementsReportRuns`), which no run checks on this composition. `UnansweredEventsAreRetried` needs the count of attempts:
  what was tried and is still owed never exceeds the attempts and duplicates of an event
  (`OwedWithinAttempts`). `PeriodsAreReportedOnce` and `AnswersStayReports` assume one
  invocation at a time (`SerialLambda`), which the code does not enforce (`sched_twice`). Their
  invariant says that an invocation works on a run exactly while it generates, and on its event's
  period (`ClaimInv`), and that the run it is making is the only one that could become a
  second report: `find_completed` found nothing, and nobody else acts as the service account.
- **MonthlySchedule_proofs**. `PreviousMonthIsWhole` and `MonthsPartitionTime` are about
  every date and every resolution of timestamps, microseconds included. The inductive
  invariant `ScheduleInv` adds to types and `TargetsAreReachable`: `Established` (what the
  script's current run has achieved at each stage, which gives `ProvisioningConverges`; the
  target is not among it),
  `AnswersFollowTheirEvents` (each answer's period is the resolution of its event),
  `FiredEverySince` (a rule's first event is followed by one for every month's firing instant
  the clock has passed, for a target is never taken away) and `FiredIsTakenUp` (a fired event is
  owed, answered or given up). Together they give `NoneSkipped`; `ReportedOnce` follows
  from the partition of time.
- **RuleEngine_proofs**. For all transactions: every one is classified, large ones are
  not generic and name their counterparty or raise a critical violation, negative ones
  are refunds or flagged. `FirstMatch` (the engine returns the least matching index)
  carries all of them.
- **ReportBuilder_proofs**. All six properties of the builder, for tables of every length. The
  inductive invariant is only that the table is a sequence of transactions (`TableIsOK`); the work
  is in what the aggregation computes. The prover cannot instantiate the library's induction
  theorems, but it can apply the well-foundedness of `<` on the naturals to a *set*: the least
  number that violates a claim has a predecessor that does not (`Induction`). With it `SumOver` is
  shown to be determined by its prefix sums (`SumPrefixes`), to be additive over disjoint rows
  (`SumOfUnion`), over the parts of a partition (`SumOfParts`), and independent of the order of the
  rows (`SumReordered`). `Ranking` gives each element of a finite ordered set a place: it makes the
  scan that shows that `ListForPeriod` is never empty (`ScansAlwaysExist`) and the place
  of a row in the sorted input of the fingerprint. Any two scans are reorderings of each other
  (`ScansReorderEachOther`), which gives `FiguresNeverDependOnLoadOrder` and
  `HashNeverDependsOnOrderOfDistinctIds`; the groups of a currency partition its rows, which
  gives `ReportsAlwaysReconcile`. Minima and maxima are amounts of the group
  (`ExtremesAreOfTheGroup`), so the rules' guarantees about one transaction carry over to groups.
  A period that has ended leaves the clock nothing to decide (`ViolationsSettle`).
- **RequestPool_proofs**. `PoolInvariant`, for every size of the pools: each action changes
  one request (`OthersKeepTheirs`), so each lemma looks at one. `KeepsItsConnection` is the
  heart: nothing between `get_current_user` and the first commit gives the connection up. From
  it the loop never waits. `GivesItBack` and `StaysCommitted` follow an upload past its
  commit: a slow MongoDB holds a thread and no connection (`OutagesHoldNothingScarce`), and in
  each step an upload's answer goes where its commit went (`UploadsAreAnsweredAsCommitted`): success
  once the commit has returned, a refusal only of what is not stored, an error only while no commit
  has returned. The one doubt left is the commit that raises.
- **Ingestion_proofs**. `IngestionInvariant`, with `Traces` saying what of an upload is
  visible at each point; from it that rows are accounted for (a cardinality argument
  about accepted and rejected indices), that the trail references committed
  batches, that batches appear at once, that an error leaves all or nothing and that an outage
  of MongoDB fails no upload. `PagesMissNothing` follows the reader: what was known when the
  page was asked for is listed, counted or expired (`PageInv`).

## 6. Model-checked only

Liveness under fairness (`EveryRunFinishes`, `EveryEventIsAnswered`, `EveryRequestIsAnswered`,
`TrailExpires`) is out of the prover's reach. Every invariant and action property of a passing run,
and the refinement, is also a theorem; so is the induction over data that the builder's needs.

## 7. Where the code and its documentation differ

Shown by a run:

- `svc_s3_lost`: a scheduled report whose uploads failed offers exports nobody can
  download; nothing uploads them again.
- `sched_twice`: concurrent deliveries of one event both report the period.
- `builder_hash_order`: the fingerprint depends on the scan's order for rows with equal ids.
- `ingest_overflow`: one amount too large for its column fails the whole upload.

Read off the code while modelling, without a run:

- `s3_client.py:75` does not catch boto3's `S3UploadFailedError`, and the client is created outside
  the `try` (`:70`): a failed upload can then fail the report, although `README.md:477` says it
  never does. The run unwinds like any other failure (`"s3_raises"` in `svc_unwind`).
- `provision_lambda.py:125` updates the code without waiting for an update that is still in
  progress, so a run soon after a killed one may be refused, although line 4 says
  "Idempotent: safe to re-run"; a later run succeeds. Line 159 ignores the failed entries
  `put_targets` reports, so the script can end without an error and without the target its
  docstring (lines 24-28) and `README.md:289` say it sets up; then the rule fires at nobody.
  `CompleteRunsConverge` does not promise the target for this reason, and `NoInstantIsSkipped` begins with a
  rule's first firing. A run with another rule name leaves the old rule firing: both events report
  the same month, and only the reuse of a completed report, if they do not overlap
  (`sched_twice`), makes that harmless. Between the two updates of a run the function has new
  code with old settings.
- `scheduled_report.py:73`: an event without a time that is retried over a month's end reports another
  month than its first attempt would have.
- `report.py:62-66` calls the line items byte-identical for the same input:
  `source_transaction_ids` follow the scan's order where timestamps are equal, and the
  violations of a period that has not ended depend on the clock (`validation_rules.py:109`).
- `README.md:280` says the failed attempt is persisted as a FAILED run. A killed Lambda never
  reaches the `except` branch and leaves a RUNNING one, and so do an `except` branch that fails
  itself and a first commit that raises although it was applied (`svc_unwind` shows that
  nothing else does).
- `session.py:3-6` calls the pool's configuration sensible. With more threads than connections
  the threads can all wait for connections whose requests wait for threads; nothing moves until
  the pool's time limit fails some of them (`EveryRequestIsAnswered` breaks without it). `health` then
  says the database is unavailable. A completed report is answered 500 when no
  connection is left to read it back (`reports.py:75`).
- `batches.py:58-69` catches what the parser raises and no error of the database: an upload whose
  flush or commit raises is answered 500 without a rollback (the exit of `get_db` does it), and
  its batch may be stored all the same; nothing recognises it when it is sent again.
- `batches.py:74-77` says a slow MongoDB delays only its own request; while it waits the request
  holds one of the 40 threads, and 40 such uploads delay everybody.
- `batches.py:150-154`: a reader of the trail keeps its connection while it waits for MongoDB.
- `report_builder.py:37` leaves `raw_category_hint` out of the fingerprint, although it
  decides the category (`report_builder.py:27-30` calls the fingerprint a proof of the input).
- `report_service.py:120-122` says rows and files never disagree; averages are rounded to
  four decimals in the row (`models.py:157`) and not in the files.
- `classification_rules.py:16-18` says large transactions are HIGH_VALUE "regardless of any
  other hint"; four hint rules come first.
- `client.py:47`: with MongoDB down at start-up there is no TTL index until a later
  start, and the trail is kept (`README.md:428` says 90 days). A changed
  `MONGO_REJECTION_TTL_DAYS` conflicts with the existing index, and that error is swallowed too.

## 8. Not modelled

The frontend (a stateless client), migrations (one schema), containers and CI, the
benchmark and dataset scripts, logging and configuration. The read-only listing
endpoints, whose pages may shift while rows are added. The texts of violations, audit entries
and exports. Of the users: registration (its race is decided by the table's unique
index), tokens and their life. Of provisioning: the parsing of `--env`, IAM, a function in a failed
state, two runs of the script at once, and a monthly expression that is moved to an earlier
hour on a firing day. S3 while a download
reads from it: `Served` is what the endpoint answers when S3 does (an outage is a 404 that
the next request need not repeat).

## 9. Plan

Done: ReportRuns, ReportService with proofs and refinement, ScheduledReport with proofs,
RuleEngine with proofs, ReportBuilder with proofs, Ingestion with proofs, RequestPool with proofs,
Periods, Provisioning and their composition MonthlySchedule with proofs.

Left, in this order:

1. Ingestion composed with ReportService: an upload's commit is `Ingest`, and a retried
   upload doubles its transactions in the next report.
2. Accounts: registration and its race, tokens of inactive and unknown users, the service
   account that nobody can log in to.
