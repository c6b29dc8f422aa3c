---------------------------- MODULE ReportService ----------------------------
(***************************************************************************)
(* generate_report (application/report_service.py) run by several workers: *)
(* FastAPI worker threads, which share the API host's disk, and Lambda     *)
(* invocations, each in an environment with its own /tmp.  The workers     *)
(* share the relational database (runs and their line items, transactions) *)
(* and the S3 bucket.  One action per remote call or transaction commit,   *)
(* because another worker, an upload or a crash can fall between any two.  *)
(*                                                                         *)
(* A report is a function of the transactions it read (RuleEngine), so     *)
(* what a database row, a file or an object CONTAINS is represented by     *)
(* the set of transactions it was built from.                              *)
(***************************************************************************)
EXTENDS Naturals, FiniteSets

CONSTANTS
    Workers,    \* API threads and Lambda environments
    Hosts,      \* file systems
    HostOf,     \* [Workers -> Hosts]
    Ephemeral,  \* hosts whose disk is lost with them (Lambda)
    ApiHost,    \* the host that serves downloads
    RunIds,     \* bounds the number of report runs
    Users,      \* who a run is attributed to
    Periods, Txns, PeriodOf, Batches,
    Faults,     \* the failures the environment may inject, see AllFaults
    None,       \* NULL; also: no such file or object
    Torn        \* the content of a file whose write was cut short

(* "read": the query or the rule engine raises.  "export": writing a file  *)
(* raises.  "s3": the upload fails with an exception upload_file catches.  *)
(* "s3_raises": it fails with one upload_file does not catch (boto3's own  *)
(* S3UploadFailedError, or the client factory, which is outside the try).  *)
(* "commit_lost" / "commit_ambiguous": commit raises, and the transaction  *)
(* was not / was applied.  "db_down": the except branch raises.  "crash":  *)
(* the process dies (or Lambda's time limit ends it).                      *)
AllFaults == {"read", "export", "s3", "s3_raises", "commit_lost",
              "commit_ambiguous", "db_down", "crash"}

Formats == {"json", "csv", "pdf"}

ASSUME HostAssumption ==
    /\ HostOf \in [Workers -> Hosts]
    /\ Ephemeral \subseteq Hosts
    /\ ApiHost \in Hosts \ Ephemeral
ASSUME DataAssumption ==
    /\ PeriodOf \in [Txns -> Periods]
    /\ Batches \subseteq SUBSET Txns
    /\ \A b, c \in Batches : b = c \/ b \cap c = {}    \* batch_id is one column
    /\ Faults \subseteq AllFaults
ASSUME NoneAssumption ==
    /\ None \notin RunIds \cup Users \cup Periods
    /\ Torn # None
    /\ \A report \in SUBSET Txns : report # None /\ report # Torn

VARIABLES
    stored,     \* committed TransactionRecords
    runs,       \* committed ReportRun rows, with their line items
    disk,       \* files under REPORTS_LOCAL_DIR, per host
    bucket,     \* S3 objects
    pc,         \* per worker: the next call of generate_report
    run,        \* per worker: report_run.id
    input,      \* per worker: the in-memory ReportResult
    keys        \* per worker: the formats whose upload returned a key

vars == <<stored, runs, disk, bucket, pc, run, input, keys>>

-----------------------------------------------------------------------------
Files == Hosts \X RunIds \X Formats
Objects == RunIds \X Formats
Reports == SUBSET Txns

NoRow == [status |-> "absent", owner |-> None, period |-> None, items |-> None,
          exported |-> {}, keys |-> {}]

Rows == [status : {"absent", "running", "completed", "failed"},
         owner : {None} \cup Users, period : {None} \cup Periods,
         items : {None} \cup Reports,
         exported : SUBSET Formats, keys : SUBSET Formats]

(* The calls of the try block that come one after the other.               *)
Writes == [write_json |-> "json", write_csv |-> "csv", write_pdf |-> "pdf"]
Puts == [put_json |-> "json", put_csv |-> "csv", put_pdf |-> "pdf"]
Then == [write_json |-> "write_csv", write_csv |-> "write_pdf", write_pdf |-> "put_json",
         put_json |-> "put_csv", put_csv |-> "put_pdf", put_pdf |-> "complete"]
Steps == {"idle", "load", "complete", "failing"} \cup DOMAIN Writes \cup DOMAIN Puts

Busy(w) == pc[w] # "idle"
Working(w, r) == Busy(w) /\ run[w] = r
Worked(r) == \E w \in Workers : Working(w, r)
Location(w) == <<HostOf[w], run[w], Writes[pc[w]]>>

(* list_for_period: one SELECT, so one snapshot of the committed rows.     *)
ListForPeriod(p) == {t \in stored : PeriodOf[t] = p}

TypeOK ==
    /\ stored \in Reports
    /\ runs \in [RunIds -> Rows]
    /\ disk \in [Files -> {None, Torn} \cup Reports]
    /\ bucket \in [Objects -> {None, Torn} \cup Reports]
    /\ pc \in [Workers -> Steps]
    /\ run \in [Workers -> {None} \cup RunIds]
    /\ input \in [Workers -> {None} \cup Reports]
    /\ keys \in [Workers -> SUBSET Formats]
    /\ \A w \in Workers : Busy(w) => run[w] \in RunIds

Init ==
    /\ stored = {}
    /\ runs = [r \in RunIds |-> NoRow]
    /\ disk = [l \in Files |-> None]
    /\ bucket = [o \in Objects |-> None]
    /\ pc = [w \in Workers |-> "idle"]
    /\ run = [w \in Workers |-> None]
    /\ input = [w \in Workers |-> None]
    /\ keys = [w \in Workers |-> {}]

-----------------------------------------------------------------------------
(***************************************************************************)
(* Faulty variants of the definitions below, each a plausible mistake in   *)
(* the code.  No specification uses them; a property is shown to be able   *)
(* to fail by putting one in place of the definition it varies.            *)
(***************************************************************************)

(* Rows committed one at a time.                                           *)
IngestRowByRow(b) ==
    /\ \E t \in b \ stored : stored' = stored \cup {t}
    /\ UNCHANGED <<runs, disk, bucket, pc, run, input, keys>>

(* The period filter is forgotten.                                         *)
LoadEverything(w) ==
    /\ pc[w] = "load"
    /\ input' = [input EXCEPT ![w] = stored]
    /\ pc' = [pc EXCEPT ![w] = "write_json"]
    /\ UNCHANGED <<stored, runs, disk, bucket, run, keys>>

(* The query is outside the try block.                                     *)
LoadOutsideTry(w) ==
    /\ pc[w] = "load"
    /\ \/ /\ input' = [input EXCEPT ![w] = ListForPeriod(runs[run[w]].period)]
          /\ pc' = [pc EXCEPT ![w] = "write_json"]
       \/ /\ "read" \in Faults
          /\ pc' = [pc EXCEPT ![w] = "idle"]
          /\ UNCHANGED input
    /\ UNCHANGED <<stored, runs, disk, bucket, run, keys>>

(* An error while writing a file is logged and ignored.                    *)
WriteExportBestEffort(w) ==
    /\ pc[w] \in DOMAIN Writes
    /\ \/ disk' = [disk EXCEPT ![Location(w)] = input[w]]
       \/ "export" \in Faults /\ disk' = [disk EXCEPT ![Location(w)] = Torn]
    /\ pc' = [pc EXCEPT ![w] = Then[pc[w]]]
    /\ UNCHANGED <<stored, runs, bucket, run, input, keys>>

(* After a failed upload all three are tried again.                        *)
UploadFileRetrying(w) ==
    /\ pc[w] \in DOMAIN Puts
    /\ LET f == Puts[pc[w]] IN
       \/ /\ bucket' = [bucket EXCEPT ![<<run[w], f>>] = disk[<<HostOf[w], run[w], f>>]]
          /\ keys' = [keys EXCEPT ![w] = @ \cup {f}]
          /\ pc' = [pc EXCEPT ![w] = Then[pc[w]]]
       \/ /\ "s3_raises" \in Faults
          /\ pc' = [pc EXCEPT ![w] = "put_json"]
          /\ UNCHANGED <<bucket, keys>>
    /\ UNCHANGED <<stored, runs, disk, run, input>>

(* The keys upload_all_to_s3 returns are not passed on.                    *)
CompletedWithoutKeys(w) ==
    LET row == runs[run[w]] IN
    [status |-> "completed", owner |-> row.owner, period |-> row.period,
     items |-> input[w], exported |-> Formats, keys |-> {}]

(* A call after commit #2 raises inside the try block.                     *)
MarkCompletedThenRaise(w) ==
    /\ pc[w] = "complete"
    /\ runs' = [runs EXCEPT ![run[w]] =
           [@ EXCEPT !.status = "completed", !.items = input[w],
                     !.exported = Formats, !.keys = keys[w]]]
    /\ pc' = [pc EXCEPT ![w] = "failing"]
    /\ UNCHANGED <<stored, disk, bucket, run, input, keys>>

(* The except branch does not roll back: what the try block had flushed is *)
(* committed with the failed status.                                       *)
MarkFailedNoRollback(w) ==
    /\ pc[w] = "failing"
    /\ runs' = [runs EXCEPT ![run[w]] = [@ EXCEPT !.status = "failed", !.items = input[w]]]
    /\ pc' = [pc EXCEPT ![w] = "idle"]
    /\ UNCHANGED <<stored, disk, bucket, run, input, keys>>

-----------------------------------------------------------------------------
(* upload_batch commits a batch: its transactions appear together.         *)
Ingest(b) ==
    /\ ~ b \subseteq stored
    /\ stored' = stored \cup b
    /\ UNCHANGED <<runs, disk, bucket, pc, run, input, keys>>

(* create_pending and commit #1, before the try block: an error leaves no  *)
(* row (and changes nothing), or a row nobody works on.                    *)
CreatePending(w, r, u, p) ==
    /\ pc[w] = "idle"
    /\ runs[r] = NoRow
    /\ runs' = [runs EXCEPT ![r] =
           [status |-> "running", owner |-> u, period |-> p, items |-> None,
            exported |-> {}, keys |-> {}]]
    /\ \/ /\ pc' = [pc EXCEPT ![w] = "load"]
          /\ run' = [run EXCEPT ![w] = r]
       \/ /\ "commit_ambiguous" \in Faults
          /\ UNCHANGED <<pc, run>>
    /\ input' = [input EXCEPT ![w] = None]
    /\ keys' = [keys EXCEPT ![w] = {}]
    /\ UNCHANGED <<stored, disk, bucket>>

(* list_for_period and build_report.                                       *)
Load(w) ==
    /\ pc[w] = "load"
    /\ \/ /\ input' = [input EXCEPT ![w] = ListForPeriod(runs[run[w]].period)]
          /\ pc' = [pc EXCEPT ![w] = "write_json"]
       \/ /\ "read" \in Faults
          /\ pc' = [pc EXCEPT ![w] = "failing"]
          /\ UNCHANGED input
    /\ UNCHANGED <<stored, runs, disk, bucket, run, keys>>

(* write_json_export, write_csv_export, write_pdf_export, in this order.   *)
(* The file is opened for writing first: a failure leaves a torn one.      *)
WriteExport(w) ==
    /\ pc[w] \in DOMAIN Writes
    /\ \/ /\ disk' = [disk EXCEPT ![Location(w)] = input[w]]
          /\ pc' = [pc EXCEPT ![w] = Then[pc[w]]]
       \/ /\ "export" \in Faults
          /\ disk' = [disk EXCEPT ![Location(w)] = Torn]
          /\ pc' = [pc EXCEPT ![w] = "failing"]
    /\ UNCHANGED <<stored, runs, bucket, run, input, keys>>

(* upload_file: a caught failure returns None and the next format is       *)
(* tried; one that is not caught ends the try block.                       *)
UploadFile(w) ==
    /\ pc[w] \in DOMAIN Puts
    /\ LET f == Puts[pc[w]] IN
       \/ /\ bucket' = [bucket EXCEPT ![<<run[w], f>>] = disk[<<HostOf[w], run[w], f>>]]
          /\ keys' = [keys EXCEPT ![w] = @ \cup {f}]
          /\ pc' = [pc EXCEPT ![w] = Then[pc[w]]]
       \/ /\ "s3" \in Faults
          /\ pc' = [pc EXCEPT ![w] = Then[pc[w]]]
          /\ UNCHANGED <<bucket, keys>>
       \/ /\ "s3_raises" \in Faults
          /\ pc' = [pc EXCEPT ![w] = "failing"]
          /\ UNCHANGED <<bucket, keys>>
    /\ UNCHANGED <<stored, runs, disk, run, input>>

(* The row mark_completed leaves; the line items are flushed with it.      *)
Completed(w) ==
    LET row == runs[run[w]] IN
    [status |-> "completed", owner |-> row.owner, period |-> row.period,
     items |-> input[w], exported |-> Formats, keys |-> keys[w]]

(* mark_completed and commit #2.                                           *)
MarkCompleted(w) ==
    /\ pc[w] = "complete"
    /\ \/ /\ runs' = [runs EXCEPT ![run[w]] = Completed(w)]
          /\ pc' = [pc EXCEPT ![w] = "idle"]
       \/ /\ "commit_lost" \in Faults
          /\ pc' = [pc EXCEPT ![w] = "failing"]
          /\ UNCHANGED runs
       \/ /\ "commit_ambiguous" \in Faults
          /\ runs' = [runs EXCEPT ![run[w]] = Completed(w)]
          /\ pc' = [pc EXCEPT ![w] = "failing"]
    /\ UNCHANGED <<stored, disk, bucket, run, input, keys>>

(* The row mark_failed leaves: what is in the row already stays.           *)
Failed(row) ==
    [status |-> "failed", owner |-> row.owner, period |-> row.period,
     items |-> row.items, exported |-> row.exported, keys |-> row.keys]

(* The except branch: rollback, re-read the row, mark_failed, commit #3.   *)
(* The re-read row is whatever was committed.                              *)
MarkFailed(w) ==
    /\ pc[w] = "failing"
    /\ \/ runs' = [runs EXCEPT ![run[w]] = Failed(runs[run[w]])]
       \/ "db_down" \in Faults /\ UNCHANGED runs
    /\ pc' = [pc EXCEPT ![w] = "idle"]
    /\ UNCHANGED <<stored, disk, bucket, run, input, keys>>

Victims(h) == {w \in Workers : HostOf[w] = h /\ Busy(w)}

DiskAfterCrash(h, torn) == [l \in Files |->
    IF l[1] = h /\ h \in Ephemeral THEN None
    ELSE IF \E w \in torn : l = Location(w) THEN Torn
    ELSE disk[l]]

(* A host's process dies with every worker in it.  A file being written    *)
(* may be left torn; an ephemeral disk is lost.                            *)
Crash(h) ==
    /\ "crash" \in Faults
    /\ Victims(h) # {}
    /\ pc' = [w \in Workers |-> IF w \in Victims(h) THEN "idle" ELSE pc[w]]
    /\ \E torn \in SUBSET {w \in Victims(h) : pc[w] \in DOMAIN Writes} :
         disk' = DiskAfterCrash(h, torn)
    /\ UNCHANGED <<stored, runs, bucket, run, input, keys>>

(* A Lambda environment that is not in use is thrown away.                 *)
Recycle(h) ==
    /\ h \in Ephemeral
    /\ \A w \in Workers : HostOf[w] = h => ~ Busy(w)
    /\ \E l \in Files : l[1] = h /\ disk[l] # None
    /\ disk' = [l \in Files |-> IF l[1] = h THEN None ELSE disk[l]]
    /\ UNCHANGED <<stored, runs, bucket, pc, run, input, keys>>

(* export_report: the file the row names, if it is on the API's own host,  *)
(* else the object the row names, else nothing (404).                      *)
Served(r, f) ==
    LET local == disk[<<ApiHost, r, f>>] IN
    IF f \in runs[r].exported /\ local # None THEN local
    ELSE IF f \in runs[r].keys THEN bucket[<<r, f>>]
    ELSE None

(* What generate_report does once its row exists.                          *)
Proceed(w) ==
    \/ Load(w)
    \/ WriteExport(w)
    \/ UploadFile(w)
    \/ MarkCompleted(w)
    \/ MarkFailed(w)

Environment ==
    \/ \E b \in Batches : Ingest(b)
    \/ \E h \in Hosts : Crash(h) \/ Recycle(h)

Next ==
    \/ Environment
    \/ \E w \in Workers : Proceed(w)
    \/ \E w \in Workers, r \in RunIds, u \in Users, p \in Periods :
         CreatePending(w, r, u, p)

Spec == Init /\ [][Next]_vars

(* Every call of generate_report returns or raises: the database driver,   *)
(* the file system and boto3 all answer or time out, and nothing waits for *)
(* another worker.  Requests, uploads, crashes and recycling need not come.*)
Fairness == \A w \in Workers : WF_vars(Proceed(w))

FairSpec == Spec /\ Fairness

-----------------------------------------------------------------------------
(* The properties.                                                         *)

(* A completed run is whole: its line items, the files a reader can still  *)
(* find at the paths it names and the S3 objects it names are all built    *)
(* from the same transactions ("file contents and DB rows can never        *)
(* disagree").                                                             *)
CompletedIsWhole ==
    \A r \in RunIds : runs[r].status = "completed" =>
        /\ runs[r].items # None
        /\ runs[r].exported = Formats
        /\ \A h \in Hosts, f \in Formats : disk[<<h, r, f>>] \in {None, runs[r].items}
        /\ \A f \in runs[r].keys : bucket[<<r, f>>] = runs[r].items

(* However many other reports and uploads ran meanwhile, a report contains *)
(* all of a batch's transactions of its period or none of them.            *)
BatchesAreWhole ==
    \A r \in RunIds, b \in Batches :
        LET part == {t \in b : PeriodOf[t] = runs[r].period} IN
        runs[r].items # None => part \subseteq runs[r].items \/ part \cap runs[r].items = {}

(* Whatever failed, and however far generation had got, a run that is not  *)
(* completed has no line items and names no export: the rollback undid the *)
(* flushed rows, only the status was committed.                            *)
UnfinishedIsEmpty ==
    \A r \in RunIds : runs[r].status \in {"running", "failed"} =>
        runs[r].items = None /\ runs[r].exported = {} /\ runs[r].keys = {}

(* "Any failure must mark the run failed": a run that is still running has *)
(* a worker on it.                                                         *)
RunningHasAWorker ==
    \A r \in RunIds : runs[r].status = "running" => Worked(r)

(* Every export a completed run offers can be downloaded from the API, and *)
(* says what the run's row says.                                           *)
Downloadable ==
    \A r \in RunIds : runs[r].status = "completed" =>
        \A f \in runs[r].exported : Served(r, f) = runs[r].items

(* No step changes a finished run: not a later failure, not another run.   *)
FinishedIsFinal ==
    [][\A r \in RunIds : runs[r].status \in {"completed", "failed"} =>
         runs'[r] = runs[r]]_vars

(* A run that was started finishes.                                        *)
EveryRunFinishes ==
    \A r \in RunIds :
        runs[r].status = "running" ~> runs[r].status \in {"completed", "failed"}

-----------------------------------------------------------------------------
(* Why CompletedIsWhole holds: an inductive invariant.                     *)

(* The workers that have read the transactions and not failed.             *)
Loaded(w) == pc[w] \in {"complete"} \cup DOMAIN Writes \cup DOMAIN Puts

WrittenBefore == [write_json |-> {}, write_csv |-> {"json"}, write_pdf |-> {"json", "csv"},
                  put_json |-> Formats, put_csv |-> Formats, put_pdf |-> Formats,
                  complete |-> Formats]

OneWorkerPerRun ==
    \A v, w \in Workers : Busy(v) /\ Busy(w) /\ run[v] = run[w] => v = w

(* Only a commit that was applied and reported as failed leaves a worker   *)
(* on a completed run.                                                     *)
WorkersRunIsOpen ==
    \A w \in Workers : Busy(w) =>
        \/ runs[run[w]].status = "running"
        \/ /\ pc[w] = "failing" /\ runs[run[w]].status = "completed"
           /\ "commit_ambiguous" \in Faults

WorkIsConsistent ==
    \A w \in Workers :
        /\ pc[w] = "load" => keys[w] = {} /\ input[w] = None
        /\ Loaded(w) =>
             /\ input[w] \in Reports
             /\ \A f \in WrittenBefore[pc[w]] : disk[<<HostOf[w], run[w], f>>] = input[w]
             /\ \A f \in keys[w] : bucket[<<run[w], f>>] = input[w]

(* A row is filled in one transaction.                                     *)
RowsFillAtOnce ==
    \A r \in RunIds :
        /\ runs[r].status = "absent" => runs[r] = NoRow
        /\ runs[r].status = "running" =>
             runs[r].items = None /\ runs[r].exported = {} /\ runs[r].keys = {}

(* A run's files are on the host of its worker and nowhere else.           *)
FilesStayHome ==
    \A l \in Files :
        \/ disk[l] = None
        \/ runs[l[2]].status \in {"completed", "failed"}
        \/ /\ runs[l[2]].status = "running"
           /\ \A w \in Workers : Working(w, l[2]) => HostOf[w] = l[1]

Inv ==
    /\ TypeOK
    /\ OneWorkerPerRun
    /\ WorkersRunIsOpen
    /\ WorkIsConsistent
    /\ RowsFillAtOnce
    /\ FilesStayHome
    /\ CompletedIsWhole

-----------------------------------------------------------------------------
(* Generation implements the abstract ledger of runs: whatever it          *)
(* publishes is one snapshot of the stored transactions, taken while the   *)
(* run was running.                                                        *)
Ledger == [r \in RunIds |->
    [status |-> runs[r].status, period |-> runs[r].period, alive |-> Worked(r),
     snapshot |->
        IF runs[r].status = "running" /\ Worked(r)
        THEN input[CHOOSE w \in Workers : Working(w, r)]
        ELSE runs[r].items]]

Abstract == INSTANCE ReportRuns WITH
    ledger <- Ledger, MayRevoke <- ("commit_ambiguous" \in Faults)

ImplementsReportRuns == Abstract!Spec
=============================================================================
