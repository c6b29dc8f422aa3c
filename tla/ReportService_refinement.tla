---------------------- MODULE ReportService_refinement ----------------------
(***************************************************************************)
(* Every behaviour of ReportService is, seen through Ledger, a behaviour   *)
(* of ReportRuns.                                                          *)
(***************************************************************************)
EXTENDS ReportService_proofs

(* What the ledger says of a run, without the CHOOSE.                      *)
Entry(r, alive, snapshot) ==
    [status |-> runs[r].status, period |-> runs[r].period, alive |-> alive,
     snapshot |-> snapshot]

LedgerFacts ==
    /\ Ledger = [r \in RunIds |-> Ledger[r]]
    /\ \A r \in RunIds : ~ Worked(r) => Ledger[r] = Entry(r, FALSE, runs[r].items)
    /\ \A w \in Workers : Busy(w) =>
         /\ run[w] \in RunIds
         /\ runs[run[w]].status = "running" => Ledger[run[w]] = Entry(run[w], TRUE, input[w])
         /\ runs[run[w]].status # "running" =>
              Ledger[run[w]] = Entry(run[w], TRUE, runs[run[w]].items)

LEMMA LedgerLemma == Inv => LedgerFacts
<1> SUFFICES ASSUME Inv PROVE LedgerFacts
  OBVIOUS
<1>1. Ledger = [r \in RunIds |-> Ledger[r]]
  <2> DEFINE G(r) ==
        [status |-> runs[r].status, period |-> runs[r].period, alive |-> Worked(r),
         snapshot |-> IF runs[r].status = "running" /\ Worked(r)
                      THEN input[CHOOSE w \in Workers : Working(w, r)]
                      ELSE runs[r].items]
  <2>1. Ledger = [r \in RunIds |-> G(r)]
    BY DEF Ledger
  <2> HIDE DEF G
  <2> QED
    BY <2>1
<1>2. ASSUME NEW r \in RunIds, ~ Worked(r)
      PROVE  Ledger[r] = Entry(r, FALSE, runs[r].items)
  <2>1. Worked(r) = FALSE
    BY <1>2 DEF Worked
  <2> QED
    BY <2>1 DEF Ledger, Entry
<1>3. ASSUME NEW w \in Workers, Busy(w)
      PROVE  /\ run[w] \in RunIds
             /\ runs[run[w]].status = "running" => Ledger[run[w]] = Entry(run[w], TRUE, input[w])
             /\ runs[run[w]].status # "running" =>
                  Ledger[run[w]] = Entry(run[w], TRUE, runs[run[w]].items)
  <2>1. run[w] \in RunIds
    BY <1>3 DEF Inv, TypeOK
  <2>2. Worked(run[w]) = TRUE /\ Working(w, run[w])
    BY <1>3 DEF Worked, Working
  <2>3. (CHOOSE v \in Workers : Working(v, run[w])) = w
    BY <1>3, <2>2 DEF Inv, OneWorkerPerRun, Working
  <2> QED
    BY <2>1, <2>2, <2>3 DEF Ledger, Entry
<1> QED
  BY <1>1, <1>2, <1>3 DEF LedgerFacts

LEMMA LedgerLemmaPrime == Inv' => LedgerFacts'
BY LedgerLemma, PTL

LEMMA InitMaps == Init => Abstract!Init
<1> SUFFICES ASSUME Init PROVE Abstract!Init
  OBVIOUS
<1>1. Inv
  BY InvInit
<1>2. \A r \in RunIds : ~ Worked(r)
  BY DEF Init, Worked, Working, Busy
<1> QED
  BY <1>1, <1>2, LedgerLemma
     DEF Init, Abstract!Init, Abstract!Unused, LedgerFacts, Entry, NoRow

(* What a step does to the entries it does not touch, and to the others.    *)
LEMMA SameEntry ==
    ASSUME LedgerFacts, LedgerFacts', NEW r \in RunIds, runs'[r] = runs[r],
           \A w \in Workers : Working(w, r)' <=> Working(w, r),
           \A w \in Workers : Working(w, r) => input'[w] = input[w]
    PROVE  Ledger'[r] = Ledger[r]
<1>1. CASE \E w \in Workers : Working(w, r)
  <2>1. PICK w \in Workers : Working(w, r)
    BY <1>1
  <2>2. Busy(w) /\ run[w] = r /\ Busy(w)' /\ run'[w] = r /\ input'[w] = input[w]
    BY <2>1 DEF Working
  <2>3. Ledger[r] = IF runs[r].status = "running" THEN Entry(r, TRUE, input[w])
                    ELSE Entry(r, TRUE, runs[r].items)
    <3>1. /\ runs[run[w]].status = "running" =>
               Ledger[run[w]] = Entry(run[w], TRUE, input[w])
          /\ runs[run[w]].status # "running" =>
               Ledger[run[w]] = Entry(run[w], TRUE, runs[run[w]].items)
      BY <2>2 DEF LedgerFacts
    <3> QED
      BY <2>2, <3>1
  <2>4. Ledger'[r] = IF runs'[r].status = "running" THEN Entry(r, TRUE, input[w])'
                     ELSE Entry(r, TRUE, runs[r].items)'
    <3>1. /\ runs'[run'[w]].status = "running" =>
               Ledger'[run'[w]] = Entry(run[w], TRUE, input[w])'
          /\ runs'[run'[w]].status # "running" =>
               Ledger'[run'[w]] = Entry(run[w], TRUE, runs[run[w]].items)'
      BY <2>2 DEF LedgerFacts
    <3> QED
      BY <2>2, <3>1 DEF Entry
  <2> QED
    BY <2>2, <2>3, <2>4 DEF Entry
<1>2. CASE ~ \E w \in Workers : Working(w, r)
  <2>1. ~ Worked(r) /\ ~ Worked(r)'
    BY <1>2 DEF Worked
  <2>2. Ledger[r] = Entry(r, FALSE, runs[r].items)
    BY <2>1 DEF LedgerFacts
  <2>3. Ledger'[r] = Entry(r, FALSE, runs[r].items)'
    BY <2>1 DEF LedgerFacts
  <2> QED
    BY <2>2, <2>3 DEF Entry
<1> QED
  BY <1>1, <1>2

LEMMA SameLedger ==
    ASSUME LedgerFacts, LedgerFacts', runs' = runs,
           \A w \in Workers : Busy(w)' <=> Busy(w),
           \A w \in Workers : Busy(w) => run'[w] = run[w] /\ input'[w] = input[w]
    PROVE  Ledger' = Ledger
<1>1. \A r \in RunIds, w \in Workers :
        /\ Working(w, r)' <=> Working(w, r)
        /\ Working(w, r) => input'[w] = input[w]
  BY DEF Working
<1>2. \A r \in RunIds : Ledger'[r] = Ledger[r]
  BY <1>1, SameEntry
<1> QED
  BY <1>2 DEF LedgerFacts

LEMMA IngestMaps ==
    ASSUME Inv, Inv', NEW b \in Batches, Ingest(b)
    PROVE  Abstract!Next
<1>1. LedgerFacts /\ LedgerFacts'
  BY LedgerLemma, LedgerLemmaPrime
<1>2. Ledger' = Ledger
  BY <1>1, SameLedger DEF Ingest, Busy
<1>3. Abstract!Deposit(b)
  BY <1>2 DEF Abstract!Deposit, Ingest
<1> QED
  BY <1>3 DEF Abstract!Next

LEMMA CreatePendingMaps ==
    ASSUME Inv, Inv', NEW w \in Workers, NEW r \in RunIds, NEW u \in Users,
           NEW p \in Periods, CreatePending(w, r, u, p)
    PROVE  Abstract!Next
<1>1. LedgerFacts /\ LedgerFacts' /\ TypeOK
  BY LedgerLemma, LedgerLemmaPrime DEF Inv
<1>2. /\ runs'[r] = [status |-> "running", owner |-> u, period |-> p, items |-> None,
                    exported |-> {}, keys |-> {}]
      /\ \A q \in RunIds : q # r => runs'[q] = runs[q]
      /\ ~ Busy(w) /\ input'[w] = None
      /\ \A v \in Workers : v # w => /\ pc'[v] = pc[v] /\ run'[v] = run[v]
                                     /\ input'[v] = input[v]
      /\ (pc'[w] = "load" /\ run'[w] = r) \/ pc'[w] = "idle"
  BY <1>1 DEF CreatePending, TypeOK, Busy
<1>3. \A v \in Workers : Busy(v) => run[v] # r
  BY DEF Inv, WorkersRunIsOpen, CreatePending, NoRow
<1>4. ~ Worked(r) /\ runs[r] = NoRow
  BY <1>3 DEF Worked, Working, CreatePending
<1>5. Ledger[r] = Abstract!Unused
  BY <1>1, <1>4 DEF LedgerFacts, Entry, NoRow, Abstract!Unused
<1>6. \A q \in RunIds : q # r => Ledger'[q] = Ledger[q]
  <2> SUFFICES ASSUME NEW q \in RunIds, q # r PROVE Ledger'[q] = Ledger[q]
    OBVIOUS
  <2>1. \A v \in Workers : Working(v, q)' <=> Working(v, q)
    BY <1>2 DEF Working, Busy
  <2>2. \A v \in Workers : Working(v, q) => input'[v] = input[v]
    BY <1>2 DEF Working
  <2> QED
    BY <1>1, <1>2, <2>1, <2>2, SameEntry
<1>7. \E alive \in BOOLEAN : Ledger'[r] = Entry(r, alive, None)'
  <2>1. CASE pc'[w] = "load" /\ run'[w] = r
    <3>1. Busy(w)' /\ runs'[run'[w]].status = "running"
      BY <1>2, <2>1 DEF Busy
    <3>2. Ledger'[r] = Entry(r, TRUE, None)'
      BY <1>1, <1>2, <2>1, <3>1 DEF LedgerFacts, Entry
    <3> QED
      BY <3>2
  <2>2. CASE pc'[w] = "idle"
    <3>1. ~ Worked(r)'
      BY <1>2, <1>3, <2>2 DEF Worked, Working, Busy
    <3>2. Ledger'[r] = Entry(r, FALSE, None)'
      BY <1>1, <1>2, <3>1 DEF LedgerFacts, Entry
    <3> QED
      BY <3>2
  <2> QED
    BY <1>2, <2>1, <2>2
<1>8. PICK alive \in BOOLEAN : Ledger'[r] = Entry(r, alive, None)'
  BY <1>7
<1>9. Ledger'[r] = [status |-> "running", period |-> p, alive |-> alive, snapshot |-> None]
  BY <1>2, <1>8 DEF Entry
<1>10. Ledger' = [Ledger EXCEPT ![r] =
          [status |-> "running", period |-> p, alive |-> alive, snapshot |-> None]]
  BY <1>1, <1>6, <1>9 DEF LedgerFacts
<1>11. Abstract!Start(r, p, alive)
  BY <1>5, <1>10 DEF Abstract!Start, CreatePending
<1> QED
  BY <1>11 DEF Abstract!Next

(* Writing and uploading are invisible; so is a disk that is thrown away.   *)
LEMMA ExportsMap ==
    ASSUME Inv, Inv', NEW w \in Workers, WriteExport(w) \/ UploadFile(w)
    PROVE  UNCHANGED <<stored, Ledger>>
<1>1. LedgerFacts /\ LedgerFacts' /\ TypeOK
  BY LedgerLemma, LedgerLemmaPrime DEF Inv
<1>2. \A v \in Workers : Busy(v)' <=> Busy(v)
  BY <1>1, Tables, StepNames DEF WriteExport, UploadFile, Busy, TypeOK
<1>3. UNCHANGED <<stored, runs, run, input>>
  BY DEF WriteExport, UploadFile
<1> QED
  BY <1>1, <1>2, <1>3, SameLedger

LEMMA RecycleMaps ==
    ASSUME Inv, Inv', NEW h \in Hosts, Recycle(h)
    PROVE  UNCHANGED <<stored, Ledger>>
<1>1. LedgerFacts /\ LedgerFacts'
  BY LedgerLemma, LedgerLemmaPrime
<1>2. UNCHANGED <<stored, runs, run, input, pc>>
  BY DEF Recycle
<1> QED
  BY <1>1, <1>2, SameLedger DEF Busy

(* The other entries, when one worker takes a step on its own run.          *)
LEMMA OtherEntries ==
    ASSUME Inv, LedgerFacts, LedgerFacts', NEW w \in Workers, Busy(w), run' = run,
           \A v \in Workers : v # w => pc'[v] = pc[v] /\ input'[v] = input[v],
           \A q \in RunIds : q # run[w] => runs'[q] = runs[q]
    PROVE  \A q \in RunIds : q # run[w] => Ledger'[q] = Ledger[q]
<1> SUFFICES ASSUME NEW q \in RunIds, q # run[w] PROVE Ledger'[q] = Ledger[q]
  OBVIOUS
<1>1. \A v \in Workers : Working(v, q)' <=> Working(v, q)
  BY DEF Working, Busy
<1>2. \A v \in Workers : Working(v, q) => input'[v] = input[v]
  BY DEF Working
<1> QED
  BY <1>1, <1>2, SameEntry

LEMMA LoadMaps ==
    ASSUME Inv, Inv', NEW w \in Workers, Load(w)
    PROVE  Abstract!Next \/ UNCHANGED <<stored, Ledger>>
<1>1. LedgerFacts /\ LedgerFacts' /\ TypeOK
  BY LedgerLemma, LedgerLemmaPrime DEF Inv
<1>2. /\ pc[w] = "load" /\ Busy(w) /\ Busy(w)' /\ run[w] \in RunIds
      /\ UNCHANGED <<stored, runs, run>>
      /\ \A v \in Workers : v # w => pc'[v] = pc[v] /\ input'[v] = input[v]
      /\ \/ input' = input
         \/ input'[w] = ListForPeriod(runs[run[w]].period)
  BY <1>1 DEF Load, Busy, TypeOK
<1>3. runs[run[w]].status = "running" /\ input[w] = None
  BY <1>2 DEF Inv, WorkersRunIsOpen, WorkIsConsistent
<1>4. CASE input' = input
  BY <1>1, <1>2, <1>4, SameLedger DEF Busy
<1>5. CASE input'[w] = ListForPeriod(runs[run[w]].period)
  <2>1. \A q \in RunIds : q # run[w] => Ledger'[q] = Ledger[q]
    BY <1>1, <1>2, OtherEntries
  <2>2. Ledger[run[w]] = Entry(run[w], TRUE, None)
    BY <1>1, <1>2, <1>3 DEF LedgerFacts
  <2>3. Ledger'[run[w]] = Entry(run[w], TRUE, input'[w])
    BY <1>1, <1>2, <1>3 DEF LedgerFacts, Entry
  <2>4. Ledger' = [Ledger EXCEPT ![run[w]] = Entry(run[w], TRUE, input'[w])]
    BY <1>1, <1>2, <2>1, <2>3 DEF LedgerFacts
  <2>5. Abstract!Snapshot(run[w])
    BY <1>2, <1>3, <1>5, <2>2, <2>4
       DEF Abstract!Snapshot, Abstract!Updated, Entry, ListForPeriod
  <2> QED
    BY <1>2, <2>5 DEF Abstract!Next
<1> QED
  BY <1>2, <1>4, <1>5

LEMMA MarkCompletedMaps ==
    ASSUME Inv, Inv', NEW w \in Workers, MarkCompleted(w)
    PROVE  Abstract!Next \/ UNCHANGED <<stored, Ledger>>
<1>1. LedgerFacts /\ LedgerFacts' /\ TypeOK
  BY LedgerLemma, LedgerLemmaPrime DEF Inv
<1>2. /\ Busy(w) /\ run[w] \in RunIds
      /\ UNCHANGED <<stored, run, input>>
      /\ \A v \in Workers : v # w => pc'[v] = pc[v]
      /\ \A q \in RunIds : q # run[w] => runs'[q] = runs[q]
      /\ \/ runs' = runs /\ Busy(w)'
         \/ runs'[run[w]] = Completed(w) /\ ~ Busy(w)'
         \/ runs'[run[w]] = Completed(w) /\ Busy(w)' /\ "commit_ambiguous" \in Faults
  BY <1>1 DEF MarkCompleted, Busy, TypeOK
<1>3. runs[run[w]].status = "running" /\ input[w] # None
  BY NoneAssumption
     DEF MarkCompleted, Inv, WorkersRunIsOpen, WorkIsConsistent, Loaded, Busy, Reports
<1>4. CASE runs' = runs /\ Busy(w)'
  <2>1. \A v \in Workers : Busy(v)' <=> Busy(v)
    BY <1>2, <1>4 DEF Busy
  <2> QED
    BY <1>1, <1>2, <1>4, <2>1, SameLedger
<1>5. ASSUME runs'[run[w]] = Completed(w), NEW alive \in {FALSE, "commit_ambiguous" \in Faults},
             Ledger'[run[w]] = Entry(run[w], alive, runs[run[w]].items)'
      PROVE  Abstract!Next
  <2>1. \A q \in RunIds : q # run[w] => Ledger'[q] = Ledger[q]
    BY <1>1, <1>2, OtherEntries
  <2>2. Ledger[run[w]] = Entry(run[w], TRUE, input[w])
    BY <1>1, <1>2, <1>3 DEF LedgerFacts
  <2>3. Ledger'[run[w]] = [status |-> "completed", period |-> runs[run[w]].period,
                           alive |-> alive, snapshot |-> input[w]]
    BY <1>2, <1>5 DEF Entry, Completed
  <2>4. Ledger' = [Ledger EXCEPT ![run[w]] =
          [status |-> "completed", period |-> runs[run[w]].period, alive |-> alive,
           snapshot |-> input[w]]]
    BY <1>1, <1>2, <2>1, <2>3 DEF LedgerFacts
  <2>5. /\ Ledger[run[w]].alive = TRUE /\ Ledger[run[w]].status = "running"
        /\ Ledger[run[w]].snapshot = input[w] /\ Ledger[run[w]].period = runs[run[w]].period
    BY <1>3, <2>2 DEF Entry
  <2>6. Abstract!Complete(run[w])
    BY <1>2, <1>3, <2>4, <2>5 DEF Abstract!Complete, Abstract!Updated
  <2> QED
    BY <1>2, <2>6 DEF Abstract!Next
<1>6. CASE runs'[run[w]] = Completed(w) /\ ~ Busy(w)'
  <2>1. \A v \in Workers : ~ Working(v, run[w])'
    <3>1. \A v \in Workers : v # w /\ Busy(v)' => Busy(v) /\ run'[v] = run[v]
      BY <1>2 DEF Busy
    <3>2. \A v \in Workers : v # w /\ Busy(v) => run[v] # run[w]
      BY <1>2 DEF Inv, OneWorkerPerRun
    <3> QED
      BY <1>2, <1>6, <3>1, <3>2 DEF Working
  <2>2. ~ Worked(run[w])'
    BY <2>1 DEF Worked
  <2>3. Ledger'[run[w]] = Entry(run[w], FALSE, runs[run[w]].items)'
    BY <1>1, <1>2, <2>2 DEF LedgerFacts
  <2> QED
    BY <1>5, <1>6, <2>3
<1>7. CASE runs'[run[w]] = Completed(w) /\ Busy(w)' /\ "commit_ambiguous" \in Faults
  <2>1. runs'[run[w]].status # "running"
    BY <1>7 DEF Completed
  <2>2. Ledger'[run[w]] = Entry(run[w], TRUE, runs[run[w]].items)'
    BY <1>1, <1>2, <1>7, <2>1 DEF LedgerFacts
  <2>3. TRUE \in {FALSE, "commit_ambiguous" \in Faults}
    <3>1. ("commit_ambiguous" \in Faults) = TRUE
      BY <1>7
    <3> QED
      BY <3>1
  <2> QED
    BY <1>5, <1>7, <2>2, <2>3
<1> QED
  BY <1>2, <1>4, <1>6, <1>7

LEMMA MarkFailedMaps ==
    ASSUME Inv, Inv', NEW w \in Workers, MarkFailed(w)
    PROVE  Abstract!Next
<1> DEFINE r == run[w]
<1>1. LedgerFacts /\ LedgerFacts' /\ TypeOK
  BY LedgerLemma, LedgerLemmaPrime DEF Inv
<1>2. /\ pc[w] = "failing" /\ Busy(w) /\ r \in RunIds /\ ~ Busy(w)'
      /\ UNCHANGED <<stored, run, input>>
      /\ \A v \in Workers : v # w => pc'[v] = pc[v]
      /\ \A q \in RunIds : q # r => runs'[q] = runs[q]
      /\ runs' = runs \/ runs'[r] = Failed(runs[r])
  BY <1>1 DEF MarkFailed, Busy, TypeOK
<1>3. \A q \in RunIds : q # r => Ledger'[q] = Ledger[q]
  BY <1>1, <1>2, OtherEntries
<1>4. \A v \in Workers : ~ Working(v, r)'
  <2>1. \A v \in Workers : v # w /\ Busy(v)' => Busy(v) /\ run'[v] = run[v]
    BY <1>2 DEF Busy
  <2>2. \A v \in Workers : v # w /\ Busy(v) => run[v] # r
    BY <1>2 DEF Inv, OneWorkerPerRun
  <2> QED
    BY <1>2, <2>1, <2>2 DEF Working
<1>5. Ledger'[r] = Entry(r, FALSE, runs[r].items)'
  <2>1. ~ Worked(r)'
    BY <1>4 DEF Worked
  <2> QED
    BY <1>1, <1>2, <2>1 DEF LedgerFacts
<1>6. CASE runs[r].status = "running"
  <2>1. Ledger[r] = Entry(r, TRUE, input[w]) /\ runs[r].items = None
    BY <1>1, <1>2, <1>6 DEF LedgerFacts, Inv, RowsFillAtOnce
  <2>2. CASE runs' = runs
    <3>1. Abstract!Abandon({r})
      <4>1. Ledger'[r] = [status |-> "running", period |-> runs[r].period,
                          alive |-> FALSE, snapshot |-> None]
        BY <1>2, <1>5, <1>6, <2>1, <2>2 DEF Entry
      <4>2. /\ Ledger[r].alive = TRUE /\ Ledger[r].status = "running"
            /\ Ledger[r].period = runs[r].period
        BY <1>6, <2>1 DEF Entry
      <4>3. Ledger' = [q \in RunIds |->
               IF q \notin {r} THEN Ledger[q]
               ELSE [status |-> Ledger[q].status, period |-> Ledger[q].period,
                     alive |-> FALSE,
                     snapshot |-> IF Ledger[q].status = "running" THEN None
                                  ELSE Ledger[q].snapshot]]
        BY <1>1, <1>2, <1>3, <4>1, <4>2 DEF LedgerFacts
      <4> QED
        BY <1>2, <4>2, <4>3 DEF Abstract!Abandon
    <3> QED
      BY <1>2, <3>1 DEF Abstract!Next
  <2>3. CASE runs'[r] = Failed(runs[r])
    <3>1. Ledger'[r] = [status |-> "failed", period |-> runs[r].period,
                        alive |-> FALSE, snapshot |-> None]
      BY <1>2, <1>5, <2>1, <2>3 DEF Entry, Failed
    <3>2. /\ Ledger[r].alive = TRUE /\ Ledger[r].status = "running"
          /\ Ledger[r].period = runs[r].period
      BY <1>6, <2>1 DEF Entry
    <3>3. Ledger' = [Ledger EXCEPT ![r] =
            [status |-> "failed", period |-> runs[r].period,
             alive |-> FALSE, snapshot |-> None]]
      BY <1>1, <1>2, <1>3, <3>1 DEF LedgerFacts
    <3>4. Abstract!Fail(r)
      BY <1>2, <3>2, <3>3 DEF Abstract!Fail, Abstract!Updated
    <3> QED
      BY <1>2, <3>4 DEF Abstract!Next
  <2> QED
    BY <1>2, <2>2, <2>3
<1>7. CASE runs[r].status # "running"
  <2>1. runs[r].status = "completed" /\ "commit_ambiguous" \in Faults
    BY <1>2, <1>7 DEF Inv, WorkersRunIsOpen
  <2>2. Ledger[r] = Entry(r, TRUE, runs[r].items)
    BY <1>1, <1>2, <1>7 DEF LedgerFacts
  <2>3. /\ Ledger[r].alive = TRUE /\ Ledger[r].status = "completed"
        /\ Ledger[r].period = runs[r].period /\ Ledger[r].snapshot = runs[r].items
    BY <2>1, <2>2 DEF Entry
  <2>4. CASE runs' = runs
    <3>1. Ledger'[r] = [status |-> "completed", period |-> runs[r].period,
                        alive |-> FALSE, snapshot |-> runs[r].items]
      BY <1>2, <1>5, <2>1, <2>4 DEF Entry
    <3>2. Ledger' = [q \in RunIds |->
             IF q \notin {r} THEN Ledger[q]
             ELSE [status |-> Ledger[q].status, period |-> Ledger[q].period,
                   alive |-> FALSE,
                   snapshot |-> IF Ledger[q].status = "running" THEN None
                                ELSE Ledger[q].snapshot]]
      BY <1>1, <1>2, <1>3, <2>3, <3>1 DEF LedgerFacts
    <3>3. Abstract!Abandon({r})
      BY <1>2, <2>3, <3>2 DEF Abstract!Abandon
    <3> QED
      BY <1>2, <3>3 DEF Abstract!Next
  <2>5. CASE runs'[r] = Failed(runs[r])
    <3>1. Ledger'[r] = [status |-> "failed", period |-> runs[r].period,
                        alive |-> FALSE, snapshot |-> runs[r].items]
      BY <1>2, <1>5, <2>5 DEF Entry, Failed
    <3>2. Ledger' = [Ledger EXCEPT ![r] =
            [status |-> "failed", period |-> runs[r].period,
             alive |-> FALSE, snapshot |-> runs[r].items]]
      BY <1>1, <1>2, <1>3, <3>1 DEF LedgerFacts
    <3>3. Abstract!Revoke(r)
      BY <1>2, <2>1, <2>3, <3>2 DEF Abstract!Revoke, Abstract!Updated
    <3> QED
      BY <1>2, <3>3 DEF Abstract!Next
  <2> QED
    BY <1>2, <2>4, <2>5
<1> QED
  BY <1>6, <1>7

(* A crash abandons the runs of the host's workers and no other.            *)
LEMMA CrashMaps ==
    ASSUME Inv, Inv', NEW h \in Hosts, Crash(h)
    PROVE  Abstract!Next
<1> DEFINE gone == {r \in RunIds : \E w \in Victims(h) : run[w] = r}
<1>1. LedgerFacts /\ LedgerFacts' /\ TypeOK /\ OneWorkerPerRun
  BY LedgerLemma, LedgerLemmaPrime DEF Inv
<1>2. /\ UNCHANGED <<stored, runs, run, input>>
      /\ \A w \in Workers : w \in Victims(h) => Busy(w) /\ ~ Busy(w)'
      /\ \A w \in Workers : w \notin Victims(h) => (Busy(w)' <=> Busy(w))
  BY <1>1 DEF Crash, Victims, Busy, TypeOK
<1>3. ASSUME NEW r \in RunIds, r \notin gone PROVE Ledger'[r] = Ledger[r]
  <2>1. \A w \in Workers : Working(w, r)' <=> Working(w, r)
    <3>1. \A w \in Workers : run[w] = r => w \notin Victims(h)
      BY <1>3
    <3> QED
      BY <1>2, <3>1 DEF Working
  <2> QED
    BY <1>1, <1>2, <2>1, SameEntry
<1>4. ASSUME NEW r \in gone
      PROVE  /\ Ledger[r].alive
             /\ Ledger'[r] =
                  [status |-> Ledger[r].status, period |-> Ledger[r].period, alive |-> FALSE,
                   snapshot |-> IF Ledger[r].status = "running" THEN None
                                ELSE Ledger[r].snapshot]
  <2>1. PICK w \in Victims(h) : run[w] = r
    OBVIOUS
  <2>2. w \in Workers /\ Busy(w) /\ r \in RunIds
    BY <2>1 DEF Victims
  <2>3. \A v \in Workers : ~ Working(v, r)'
    <3>1. \A v \in Workers : Busy(v) /\ run[v] = r => v = w
      BY <1>1, <2>1, <2>2 DEF OneWorkerPerRun
    <3>2. ~ Busy(w)' /\ \A v \in Workers : Busy(v)' => Busy(v)
      BY <1>2, <2>1, <2>2
    <3> QED
      BY <1>2, <3>1, <3>2 DEF Working
  <2>4. ~ Worked(r)'
    BY <2>3 DEF Worked
  <2>5. Ledger'[r] = [status |-> runs[r].status, period |-> runs[r].period,
                      alive |-> FALSE, snapshot |-> runs[r].items]
    BY <1>1, <1>2, <2>2, <2>4 DEF LedgerFacts, Entry
  <2>6. Ledger[r] = IF runs[r].status = "running" THEN Entry(r, TRUE, input[w])
                    ELSE Entry(r, TRUE, runs[r].items)
    BY <1>1, <2>1, <2>2 DEF LedgerFacts
  <2>7. runs[r].status = "running" => runs[r].items = None
    BY <2>2 DEF Inv, RowsFillAtOnce
  <2>8. /\ Ledger[r].status = runs[r].status /\ Ledger[r].period = runs[r].period
        /\ Ledger[r].alive = TRUE
        /\ runs[r].status # "running" => Ledger[r].snapshot = runs[r].items
    BY <2>6 DEF Entry
  <2> QED
    BY <2>5, <2>7, <2>8
<1> HIDE DEF gone
<1>5. Ledger' = [r \in RunIds |->
          IF r \notin gone THEN Ledger[r]
          ELSE [status |-> Ledger[r].status, period |-> Ledger[r].period, alive |-> FALSE,
                snapshot |-> IF Ledger[r].status = "running" THEN None
                             ELSE Ledger[r].snapshot]]
  BY <1>1, <1>3, <1>4 DEF LedgerFacts
<1>6. gone \in SUBSET RunIds
  BY DEF gone
<1>7. Abstract!Abandon(gone)
  BY <1>2, <1>4, <1>5 DEF Abstract!Abandon
<1> QED
  BY <1>6, <1>7 DEF Abstract!Next

LEMMA StepMaps == Inv /\ Inv' /\ [Next]_vars => [Abstract!Next]_Abstract!vars
<1> SUFFICES ASSUME Inv, Inv', [Next]_vars
             PROVE  Abstract!Next \/ UNCHANGED <<stored, Ledger>>
  BY DEF Abstract!vars
<1>1. CASE UNCHANGED vars
  <2>1. LedgerFacts /\ LedgerFacts'
    BY LedgerLemma, LedgerLemmaPrime
  <2> QED
    BY <1>1, <2>1, SameLedger DEF vars, Busy
<1>2. CASE Environment
  BY <1>2, IngestMaps, CrashMaps, RecycleMaps DEF Environment
<1>3. ASSUME NEW w \in Workers, Proceed(w)
      PROVE  Abstract!Next \/ UNCHANGED <<stored, Ledger>>
  BY <1>3, LoadMaps, ExportsMap, MarkCompletedMaps, MarkFailedMaps DEF Proceed
<1>4. ASSUME NEW w \in Workers, NEW r \in RunIds, NEW u \in Users, NEW p \in Periods,
             CreatePending(w, r, u, p)
      PROVE  Abstract!Next
  BY <1>4, CreatePendingMaps
<1> QED
  BY <1>1, <1>2, <1>3, <1>4 DEF Next

(* Report generation, with its crashes, failing calls, files and uploads,   *)
(* implements the abstract ledger: what a run publishes is one snapshot of  *)
(* the stored transactions of its period, taken while it was running.       *)
THEOREM ReportServiceImplementsReportRuns == Spec => ImplementsReportRuns
BY InitMaps, InvInit, InvStep, StepMaps, PTL DEF Spec, Abstract!Spec, ImplementsReportRuns
=============================================================================
