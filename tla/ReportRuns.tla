----------------------------- MODULE ReportRuns -----------------------------
(***************************************************************************)
(* What report generation promises, with no database, disk, bucket or      *)
(* process in sight.  A report run is started for a period; at ONE instant *)
(* between its start and its end it sees the transactions stored so far    *)
(* (its snapshot); it then either publishes exactly that snapshot or       *)
(* fails.  A run may also be abandoned: whoever worked on it is gone, and  *)
(* it stays "running" for ever.                                            *)
(*                                                                         *)
(* ReportService implements this specification.                            *)
(***************************************************************************)
CONSTANTS
    RunIds,     \* ids of report runs
    Periods,    \* reporting periods
    Txns,       \* transactions
    PeriodOf,   \* the period a transaction's timestamp falls in
    Batches,    \* sets of transactions that become visible together
    None,       \* no period, no snapshot
    MayRevoke   \* TRUE if a completed run may still turn into a failed one

VARIABLES
    stored,     \* transactions visible to a reader
    ledger      \* per run: status, period, alive, snapshot

vars == <<stored, ledger>>

Unused == [status |-> "absent", period |-> None, alive |-> FALSE, snapshot |-> None]

Init ==
    /\ stored = {}
    /\ ledger = [r \in RunIds |-> Unused]

Updated(r, status, alive, snapshot) ==
    [ledger EXCEPT ![r] = [status |-> status, period |-> ledger[r].period,
                           alive |-> alive, snapshot |-> snapshot]]

(* A batch is committed as a whole.                                        *)
Deposit(b) ==
    /\ stored' = stored \cup b
    /\ UNCHANGED ledger

(* A run comes into being; nobody need be left to work on it.              *)
Start(r, p, alive) ==
    /\ ledger[r] = Unused
    /\ ledger' = [ledger EXCEPT ![r] =
           [status |-> "running", period |-> p, alive |-> alive, snapshot |-> None]]
    /\ UNCHANGED stored

Snapshot(r) ==
    /\ ledger[r].alive
    /\ ledger[r].status = "running"
    /\ ledger[r].snapshot = None
    /\ ledger' = Updated(r, "running", TRUE,
                         {t \in stored : PeriodOf[t] = ledger[r].period})
    /\ UNCHANGED stored

(* The snapshot is published; with MayRevoke somebody may still hold the   *)
(* run and revoke it.                                                      *)
Complete(r) ==
    /\ ledger[r].alive
    /\ ledger[r].status = "running"
    /\ ledger[r].snapshot # None
    /\ \E alive \in {FALSE, MayRevoke} :
         ledger' = Updated(r, "completed", alive, ledger[r].snapshot)
    /\ UNCHANGED stored

(* A failed run publishes nothing.                                         *)
Fail(r) ==
    /\ ledger[r].alive
    /\ ledger[r].status = "running"
    /\ ledger' = Updated(r, "failed", FALSE, None)
    /\ UNCHANGED stored

Revoke(r) ==
    /\ MayRevoke
    /\ ledger[r].alive
    /\ ledger[r].status = "completed"
    /\ ledger' = Updated(r, "failed", FALSE, ledger[r].snapshot)
    /\ UNCHANGED stored

(* The workers on a set of runs are gone, all at once.  What was published *)
(* stays published; an unpublished snapshot is lost.                       *)
Abandon(gone) ==
    /\ \A r \in gone : ledger[r].alive
    /\ ledger' = [r \in RunIds |->
           IF r \notin gone THEN ledger[r]
           ELSE [status |-> ledger[r].status, period |-> ledger[r].period, alive |-> FALSE,
                 snapshot |-> IF ledger[r].status = "running" THEN None
                              ELSE ledger[r].snapshot]]
    /\ UNCHANGED stored

Next ==
    \/ \E b \in Batches : Deposit(b)
    \/ \E r \in RunIds, p \in Periods, alive \in BOOLEAN : Start(r, p, alive)
    \/ \E r \in RunIds :
         \/ Snapshot(r)
         \/ Complete(r)
         \/ Fail(r)
         \/ Revoke(r)
    \/ \E gone \in SUBSET RunIds : Abandon(gone)

Spec == Init /\ [][Next]_vars
=============================================================================
