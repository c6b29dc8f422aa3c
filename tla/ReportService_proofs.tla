------------------------ MODULE ReportService_proofs ------------------------
EXTENDS ReportService, TLAPS

-----------------------------------------------------------------------------
(* The tables of the try block, spelt out for the provers.                  *)
LEMMA Tables ==
    /\ DOMAIN Writes = {"write_json", "write_csv", "write_pdf"}
    /\ DOMAIN Puts = {"put_json", "put_csv", "put_pdf"}
    /\ \A s \in DOMAIN Writes : s \in Steps /\ Writes[s] \in Formats /\ Then[s] \in Steps
    /\ \A s \in DOMAIN Puts : s \in Steps /\ Puts[s] \in Formats /\ Then[s] \in Steps
    /\ {"idle", "load", "complete", "failing"} \subseteq Steps
BY DEF Writes, Puts, Then, Formats, Steps

LEMMA RowTypes ==
    /\ NoRow \in Rows
    /\ \A u \in Users, p \in Periods :
         [status |-> "running", owner |-> u, period |-> p, items |-> None,
          exported |-> {}, keys |-> {}] \in Rows
    /\ \A row \in Rows : Failed(row) \in Rows
BY DEF NoRow, Rows, Failed

LEMMA CompletedType ==
    ASSUME TypeOK, NEW w \in Workers, run[w] \in RunIds
    PROVE  Completed(w) \in Rows
<1>1. runs[run[w]] \in Rows /\ input[w] \in {None} \cup Reports /\ keys[w] \in SUBSET Formats
  BY DEF TypeOK
<1> QED
  BY <1>1 DEF Rows, Completed

LEMMA TypeInit == Init => TypeOK
BY Tables, RowTypes DEF Init, TypeOK, Busy, Reports

LEMMA TypeStep == TypeOK /\ [Next]_vars => TypeOK'
<1> SUFFICES ASSUME TypeOK, [Next]_vars PROVE TypeOK'
  OBVIOUS
<1> USE Tables, RowTypes DEF Busy
<1>1. ASSUME NEW b \in Batches, Ingest(b) PROVE TypeOK'
  BY <1>1, DataAssumption DEF Ingest, TypeOK, Reports
<1>2. ASSUME NEW h \in Hosts, Crash(h) PROVE TypeOK'
  <2>1. pc' \in [Workers -> Steps]
    BY <1>2 DEF Crash, TypeOK
  <2>2. disk' \in [Files -> {None, Torn} \cup Reports]
    BY <1>2 DEF Crash, DiskAfterCrash, TypeOK
  <2> QED
    BY <1>2, <2>1, <2>2 DEF Crash, Victims, TypeOK
<1>3. ASSUME NEW h \in Hosts, Recycle(h) PROVE TypeOK'
  BY <1>3 DEF Recycle, TypeOK
<1>4. ASSUME NEW w \in Workers, Load(w) PROVE TypeOK'
  BY <1>4 DEF Load, ListForPeriod, TypeOK, Reports
<1>5. ASSUME NEW w \in Workers, WriteExport(w) PROVE TypeOK'
  <2>1. disk' \in [Files -> {None, Torn} \cup Reports]
    BY <1>5 DEF WriteExport, TypeOK
  <2>2. pc' \in [Workers -> Steps]
    BY <1>5 DEF WriteExport, TypeOK
  <2> QED
    BY <1>5, <2>1, <2>2 DEF WriteExport, TypeOK
<1>6. ASSUME NEW w \in Workers, UploadFile(w) PROVE TypeOK'
  <2>1. pc' \in [Workers -> Steps]
    BY <1>6 DEF UploadFile, TypeOK
  <2>2. keys' \in [Workers -> SUBSET Formats]
    BY <1>6 DEF UploadFile, TypeOK
  <2>3. bucket' \in [Objects -> {None, Torn} \cup Reports]
    <3>1. disk[<<HostOf[w], run[w], Puts[pc[w]]>>] \in {None, Torn} \cup Reports
      BY <1>6, HostAssumption DEF UploadFile, TypeOK, Files
    <3> QED
      BY <1>6, <3>1 DEF UploadFile, TypeOK
  <2> QED
    BY <1>6, <2>1, <2>2, <2>3 DEF UploadFile, TypeOK
<1>7. ASSUME NEW w \in Workers, MarkCompleted(w) PROVE TypeOK'
  <2>1. runs' \in [RunIds -> Rows]
    BY <1>7, CompletedType DEF MarkCompleted, TypeOK
  <2>2. pc' \in [Workers -> Steps]
    BY <1>7 DEF MarkCompleted, TypeOK
  <2> QED
    BY <1>7, <2>1, <2>2 DEF MarkCompleted, TypeOK
<1>8. ASSUME NEW w \in Workers, MarkFailed(w) PROVE TypeOK'
  BY <1>8 DEF MarkFailed, TypeOK
<1>9. ASSUME NEW w \in Workers, NEW r \in RunIds, NEW u \in Users, NEW p \in Periods,
             CreatePending(w, r, u, p)
      PROVE  TypeOK'
  <2>1. pc' \in [Workers -> Steps] /\ run' \in [Workers -> {None} \cup RunIds]
    BY <1>9 DEF CreatePending, TypeOK
  <2> QED
    BY <1>9, <2>1 DEF CreatePending, TypeOK
<1>10. CASE UNCHANGED vars
  BY <1>10 DEF vars, TypeOK
<1> QED
  BY <1>1, <1>2, <1>3, <1>4, <1>5, <1>6, <1>7, <1>8, <1>9, <1>10
     DEF Next, Environment, Proceed

(* Every reachable state of any number of workers, hosts and runs is        *)
(* well typed.                                                              *)
THEOREM TypeCorrect == Spec => []TypeOK
BY TypeInit, TypeStep, PTL DEF Spec

-----------------------------------------------------------------------------
(* Which files are written before each step.                                *)
LEMMA WrittenTable ==
    /\ WrittenBefore["write_json"] = {}
    /\ \A s \in DOMAIN Writes :
         WrittenBefore[Then[s]] = WrittenBefore[s] \cup {Writes[s]}
    /\ \A s \in DOMAIN Puts :
         WrittenBefore[s] = Formats /\ WrittenBefore[Then[s]] = Formats
    /\ WrittenBefore["complete"] = Formats
    /\ \A s \in {"complete"} \cup DOMAIN Writes \cup DOMAIN Puts :
         WrittenBefore[s] \subseteq Formats
BY DEF WrittenBefore, Writes, Puts, Then, Formats

LEMMA StepNames ==
    /\ \A s \in DOMAIN Writes :
         /\ s \notin {"idle", "load", "complete", "failing"} \cup DOMAIN Puts
         /\ Then[s] \in DOMAIN Writes \cup DOMAIN Puts
    /\ \A s \in DOMAIN Puts :
         /\ s \notin {"idle", "load", "complete", "failing"} \cup DOMAIN Writes
         /\ Then[s] \in {"complete"} \cup DOMAIN Puts
BY DEF Writes, Puts, Then

LEMMA InvInit == Init => Inv
<1> SUFFICES ASSUME Init PROVE Inv
  OBVIOUS
<1>1. TypeOK
  BY TypeInit
<1>2. \A w \in Workers : ~ Busy(w) /\ ~ Loaded(w) /\ pc[w] # "load"
  BY Tables DEF Init, Busy, Loaded
<1>3. \A r \in RunIds : runs[r].status = "absent"
  BY DEF Init, NoRow
<1>4. FilesStayHome
  BY DEF Init, FilesStayHome
<1>5. RowsFillAtOnce
  BY DEF Init, RowsFillAtOnce, NoRow
<1> QED
  BY <1>1, <1>2, <1>3, <1>4, <1>5
     DEF Inv, OneWorkerPerRun, WorkersRunIsOpen, WorkIsConsistent, CompletedIsWhole

LEMMA IngestKeepsInv ==
    ASSUME Inv, TypeOK', NEW b \in Batches, Ingest(b)
    PROVE  Inv'
BY DEF Inv, Ingest, OneWorkerPerRun, WorkersRunIsOpen, WorkIsConsistent, RowsFillAtOnce,
       FilesStayHome, CompletedIsWhole, Busy, Working, Loaded

LEMMA CreatePendingKeepsInv ==
    ASSUME Inv, TypeOK', NEW w \in Workers, NEW r \in RunIds, NEW u \in Users,
           NEW p \in Periods, CreatePending(w, r, u, p)
    PROVE  Inv'
<1> USE Tables, StepNames DEF Inv
<1>1. \A v \in Workers : Busy(v) => run[v] # r
  BY DEF WorkersRunIsOpen, CreatePending, NoRow
<1>2. /\ runs'[r].status = "running"
      /\ \A q \in RunIds : q # r => runs'[q] = runs[q]
      /\ runs[r].status = "absent"
  BY DEF CreatePending, TypeOK, NoRow
<1>3. /\ \A v \in Workers : v # w => /\ pc'[v] = pc[v] /\ run'[v] = run[v]
                                     /\ input'[v] = input[v] /\ keys'[v] = keys[v]
      /\ pc'[w] \in {"idle", "load"} /\ keys'[w] = {} /\ input'[w] = None
      /\ pc'[w] = "load" => run'[w] = r
      /\ pc[w] = "idle"
  BY DEF CreatePending, TypeOK
<1>4. disk' = disk /\ bucket' = bucket
  BY DEF CreatePending
<1>5. OneWorkerPerRun'
  BY <1>1, <1>3 DEF OneWorkerPerRun, Busy
<1>6. WorkersRunIsOpen'
  BY <1>1, <1>2, <1>3 DEF WorkersRunIsOpen, TypeOK, Busy
<1>7. WorkIsConsistent'
  BY <1>3, <1>4 DEF WorkIsConsistent, Loaded
<1>8. FilesStayHome'
  <2> SUFFICES ASSUME NEW l \in Files, disk[l] # None
               PROVE  \/ runs'[l[2]].status \in {"completed", "failed"}
                      \/ /\ runs'[l[2]].status = "running"
                         /\ \A v \in Workers : Working(v, l[2])' => HostOf[v] = l[1]
    BY <1>4 DEF FilesStayHome
  <2>1. l[2] # r /\ l[2] \in RunIds
    BY <1>2 DEF FilesStayHome, Files
  <2> QED
    BY <2>1, <1>2, <1>3 DEF FilesStayHome, Working, Busy
<1>9. CompletedIsWhole'
  BY <1>2, <1>4 DEF CompletedIsWhole
<1>10. RowsFillAtOnce'
  <2>1. /\ runs'[r].items = None /\ runs'[r].exported = {} /\ runs'[r].keys = {}
    BY DEF CreatePending, TypeOK
  <2> QED
    BY <1>2, <2>1 DEF RowsFillAtOnce
<1> QED
  BY <1>5, <1>6, <1>7, <1>8, <1>9, <1>10

LEMMA LoadKeepsInv ==
    ASSUME Inv, TypeOK', NEW w \in Workers, Load(w)
    PROVE  Inv'
<1> USE Tables, StepNames DEF Inv
<1>1. /\ pc[w] = "load"
      /\ \A v \in Workers : v # w => pc'[v] = pc[v] /\ input'[v] = input[v]
      /\ \/ pc'[w] = "failing"
         \/ pc'[w] = "write_json" /\ input'[w] \in Reports
  BY DEF Load, TypeOK, ListForPeriod, Reports
<1>2. UNCHANGED <<runs, disk, bucket, run, keys>>
  BY DEF Load
<1>3. \A v \in Workers : Busy(v)' <=> Busy(v)
  BY <1>1 DEF Busy
<1>4. OneWorkerPerRun'
  BY <1>2, <1>3 DEF OneWorkerPerRun
<1>5. WorkersRunIsOpen'
  BY <1>1, <1>2, <1>3 DEF WorkersRunIsOpen
<1>6. WorkIsConsistent'
  BY <1>1, <1>2, WrittenTable DEF WorkIsConsistent, Loaded
<1>7. FilesStayHome'
  BY <1>2, <1>3 DEF FilesStayHome, Working
<1>8. CompletedIsWhole'
  BY <1>2 DEF CompletedIsWhole
<1>9. RowsFillAtOnce'
  BY <1>2 DEF RowsFillAtOnce
<1> QED
  BY <1>4, <1>5, <1>6, <1>7, <1>8, <1>9

LEMMA WriteExportKeepsInv ==
    ASSUME Inv, TypeOK', NEW w \in Workers, WriteExport(w)
    PROVE  Inv'
<1> USE Tables, StepNames DEF Inv
<1>1. UNCHANGED <<runs, bucket, run, input, keys>>
  BY DEF WriteExport
<1>2. /\ pc[w] \in DOMAIN Writes
      /\ Loaded(w) /\ Busy(w) /\ run[w] \in RunIds /\ Location(w) \in Files
  BY HostAssumption DEF WriteExport, Loaded, Busy, TypeOK, Location, Files
<1>3. /\ \A v \in Workers : v # w => pc'[v] = pc[v]
      /\ \/ pc'[w] = "failing"
         \/ pc'[w] = Then[pc[w]] /\ disk'[Location(w)] = input[w]
      /\ \A l \in Files : l # Location(w) => disk'[l] = disk[l]
  BY <1>2 DEF WriteExport, TypeOK
<1>4. \A v \in Workers : Busy(v)' <=> Busy(v)
  BY <1>2, <1>3 DEF Busy
<1>5. runs[run[w]].status = "running"
  BY <1>2 DEF WorkersRunIsOpen
<1>6. OneWorkerPerRun'
  BY <1>1, <1>4 DEF OneWorkerPerRun
<1>7. WorkersRunIsOpen'
  BY <1>1, <1>2, <1>3, <1>4 DEF WorkersRunIsOpen
<1>8. WorkIsConsistent'
  <2> SUFFICES ASSUME NEW v \in Workers
               PROVE  /\ pc'[v] = "load" => keys[v] = {} /\ input[v] = None
                      /\ Loaded(v)' =>
                           /\ input[v] \in Reports
                           /\ \A f \in WrittenBefore[pc'[v]] :
                                disk'[<<HostOf[v], run[v], f>>] = input[v]
                           /\ \A f \in keys[v] : bucket[<<run[v], f>>] = input[v]
    BY <1>1 DEF WorkIsConsistent
  <2>1. CASE v = w
    <3>1. ASSUME pc'[w] = Then[pc[w]], NEW f \in WrittenBefore[pc'[w]]
          PROVE  disk'[<<HostOf[w], run[w], f>>] = input[w]
      <4>1. CASE f = Writes[pc[w]]
        BY <1>2, <1>3, <3>1, <4>1 DEF Location
      <4>2. CASE f # Writes[pc[w]]
        <5>1. f \in WrittenBefore[pc[w]] /\ f \in Formats
          BY <1>2, <3>1, <4>2, WrittenTable
        <5>2. <<HostOf[w], run[w], f>> \in Files /\ <<HostOf[w], run[w], f>> # Location(w)
          BY <1>2, <4>2, <5>1, HostAssumption DEF Location, Files
        <5> QED
          BY <1>2, <1>3, <5>1, <5>2 DEF WorkIsConsistent
      <4> QED
        BY <4>1, <4>2
    <3> QED
      BY <1>2, <1>3, <2>1, <3>1 DEF WorkIsConsistent, Loaded
  <2>2. CASE v # w
    <3>1. Loaded(v) => run[v] # run[w]
      BY <1>2, <2>2 DEF OneWorkerPerRun, Loaded, Busy
    <3>2. ASSUME Loaded(v), NEW f \in WrittenBefore[pc[v]]
          PROVE  disk'[<<HostOf[v], run[v], f>>] = input[v]
      <4>1. run[v] \in RunIds /\ f \in Formats
        BY <3>2, WrittenTable DEF Loaded, TypeOK, Busy
      <4>2. <<HostOf[v], run[v], f>> \in Files /\ <<HostOf[v], run[v], f>> # Location(w)
        BY <3>1, <3>2, <4>1, HostAssumption DEF Location, Files
      <4> QED
        BY <1>3, <3>2, <4>2 DEF WorkIsConsistent
    <3> QED
      BY <1>3, <2>2, <3>2 DEF WorkIsConsistent, Loaded
  <2> QED
    BY <2>1, <2>2
<1>9. FilesStayHome'
  <2> SUFFICES ASSUME NEW l \in Files, disk'[l] # None
               PROVE  \/ runs[l[2]].status \in {"completed", "failed"}
                      \/ /\ runs[l[2]].status = "running"
                         /\ \A v \in Workers : Working(v, l[2]) => HostOf[v] = l[1]
    BY <1>1, <1>4 DEF FilesStayHome, Working
  <2>1. CASE l = Location(w)
    BY <1>2, <1>5, <2>1 DEF Location, Working, OneWorkerPerRun
  <2>2. CASE l # Location(w)
    BY <1>3, <2>2 DEF FilesStayHome
  <2> QED
    BY <2>1, <2>2
<1>10. CompletedIsWhole'
  <2> SUFFICES ASSUME NEW r \in RunIds, runs[r].status = "completed",
                      NEW h \in Hosts, NEW f \in Formats
               PROVE  disk'[<<h, r, f>>] = disk[<<h, r, f>>]
    BY <1>1 DEF CompletedIsWhole
  <2> QED
    BY <1>3, <1>5 DEF Location, Files
<1>11. RowsFillAtOnce'
  BY <1>1 DEF RowsFillAtOnce
<1> QED
  BY <1>6, <1>7, <1>8, <1>9, <1>10, <1>11

LEMMA UploadFileKeepsInv ==
    ASSUME Inv, TypeOK', NEW w \in Workers, UploadFile(w)
    PROVE  Inv'
<1> USE Tables, StepNames DEF Inv
<1>1. UNCHANGED <<runs, disk, run, input>>
  BY DEF UploadFile
<1>2. /\ pc[w] \in DOMAIN Puts
      /\ Loaded(w) /\ Busy(w) /\ run[w] \in RunIds
      /\ Puts[pc[w]] \in Formats /\ <<run[w], Puts[pc[w]]>> \in Objects
  BY DEF UploadFile, Loaded, Busy, TypeOK, Objects
<1>3. /\ \A v \in Workers : v # w => pc'[v] = pc[v] /\ keys'[v] = keys[v]
      /\ pc'[w] = "failing" \/ pc'[w] = Then[pc[w]]
      /\ \A o \in Objects : o # <<run[w], Puts[pc[w]]>> => bucket'[o] = bucket[o]
  BY <1>2 DEF UploadFile, TypeOK
<1>4. \/ keys'[w] = keys[w] /\ bucket' = bucket
      \/ /\ keys'[w] = keys[w] \cup {Puts[pc[w]]}
         /\ bucket'[<<run[w], Puts[pc[w]]>>] = input[w]
  <2>1. disk[<<HostOf[w], run[w], Puts[pc[w]]>>] = input[w]
    BY <1>2, WrittenTable DEF WorkIsConsistent
  <2> QED
    BY <1>2, <2>1 DEF UploadFile, TypeOK
<1>5. \A v \in Workers : Busy(v)' <=> Busy(v)
  BY <1>2, <1>3 DEF Busy
<1>6. runs[run[w]].status = "running"
  BY <1>2 DEF WorkersRunIsOpen
<1>7. OneWorkerPerRun'
  BY <1>1, <1>5 DEF OneWorkerPerRun
<1>8. WorkersRunIsOpen'
  BY <1>1, <1>2, <1>3, <1>5 DEF WorkersRunIsOpen
<1>9. WorkIsConsistent'
  <2> SUFFICES ASSUME NEW v \in Workers
               PROVE  /\ pc'[v] = "load" => keys'[v] = {} /\ input[v] = None
                      /\ Loaded(v)' =>
                           /\ input[v] \in Reports
                           /\ \A f \in WrittenBefore[pc'[v]] :
                                disk[<<HostOf[v], run[v], f>>] = input[v]
                           /\ \A f \in keys'[v] : bucket'[<<run[v], f>>] = input[v]
    BY <1>1 DEF WorkIsConsistent
  <2>1. CASE v = w
    <3>1. \A f \in keys'[w] : bucket'[<<run[w], f>>] = input[w]
      <4> SUFFICES ASSUME NEW f \in keys'[w], f # Puts[pc[w]]
                   PROVE  bucket'[<<run[w], f>>] = input[w]
        BY <1>2, <1>4 DEF WorkIsConsistent
      <4>1. f \in keys[w] /\ <<run[w], f>> \in Objects
        BY <1>2, <1>4 DEF TypeOK, Objects
      <4> QED
        BY <1>2, <1>3, <4>1 DEF WorkIsConsistent
    <3>2. pc'[w] = Then[pc[w]] => WrittenBefore[pc'[w]] = WrittenBefore[pc[w]]
      BY <1>2, WrittenTable
    <3> QED
      BY <1>2, <1>3, <2>1, <3>1, <3>2 DEF WorkIsConsistent, Loaded
  <2>2. CASE v # w
    <3>1. Loaded(v) => run[v] # run[w] /\ run[v] \in RunIds
      BY <1>2, <2>2 DEF OneWorkerPerRun, Loaded, Busy, TypeOK
    <3>2. ASSUME Loaded(v), NEW f \in keys[v]
          PROVE  bucket'[<<run[v], f>>] = input[v]
      <4>1. <<run[v], f>> \in Objects
        BY <3>1, <3>2 DEF TypeOK, Objects
      <4> QED
        BY <1>3, <3>1, <3>2, <4>1 DEF WorkIsConsistent
    <3> QED
      BY <1>3, <2>2, <3>2 DEF WorkIsConsistent, Loaded
  <2> QED
    BY <2>1, <2>2
<1>10. FilesStayHome'
  BY <1>1, <1>5 DEF FilesStayHome, Working
<1>11. CompletedIsWhole'
  <2> SUFFICES ASSUME NEW r \in RunIds, runs[r].status = "completed",
                      NEW f \in runs[r].keys
               PROVE  bucket'[<<r, f>>] = bucket[<<r, f>>]
    BY <1>1 DEF CompletedIsWhole
  <2>1. <<r, f>> \in Objects
    BY DEF TypeOK, Rows, Objects
  <2> QED
    BY <1>3, <1>6, <2>1
<1>12. RowsFillAtOnce'
  BY <1>1 DEF RowsFillAtOnce
<1> QED
  BY <1>7, <1>8, <1>9, <1>10, <1>11, <1>12

(* The row of a run changes only when its worker finishes it, so nobody     *)
(* else's work is disturbed.                                                *)
LEMMA MarkCompletedKeepsInv ==
    ASSUME Inv, TypeOK', NEW w \in Workers, MarkCompleted(w)
    PROVE  Inv'
<1> USE Tables, StepNames DEF Inv
<1>1. UNCHANGED <<disk, bucket, run, input, keys>>
  BY DEF MarkCompleted
<1>2. /\ pc[w] = "complete"
      /\ Loaded(w) /\ Busy(w) /\ run[w] \in RunIds
      /\ runs[run[w]].status = "running"
  BY DEF MarkCompleted, Loaded, Busy, TypeOK, WorkersRunIsOpen
<1>3. /\ \A v \in Workers : v # w => pc'[v] = pc[v]
      /\ \A r \in RunIds : r # run[w] => runs'[r] = runs[r]
      /\ \/ pc'[w] = "idle" /\ runs'[run[w]] = Completed(w)
         \/ pc'[w] = "failing" /\ runs' = runs
         \/ /\ pc'[w] = "failing" /\ runs'[run[w]] = Completed(w)
            /\ "commit_ambiguous" \in Faults
  BY <1>2 DEF MarkCompleted, TypeOK
<1>4. \A v \in Workers : v # w /\ Busy(v) => run[v] # run[w] /\ run[v] \in RunIds
  BY <1>2 DEF OneWorkerPerRun, TypeOK
<1>5. OneWorkerPerRun'
  BY <1>1, <1>3, <1>4 DEF OneWorkerPerRun, Busy
<1>6. Completed(w).status = "completed"
  BY DEF Completed
<1>7. WorkersRunIsOpen'
  BY <1>1, <1>2, <1>3, <1>4, <1>6 DEF WorkersRunIsOpen, Busy
<1>8. WorkIsConsistent'
  BY <1>1, <1>3 DEF WorkIsConsistent, Loaded
<1>9. FilesStayHome'
  <2> SUFFICES ASSUME NEW l \in Files, disk[l] # None
               PROVE  \/ runs'[l[2]].status \in {"completed", "failed"}
                      \/ /\ runs'[l[2]].status = "running"
                         /\ \A v \in Workers : Working(v, l[2])' => HostOf[v] = l[1]
    BY <1>1 DEF FilesStayHome
  <2>1. l[2] \in RunIds
    BY DEF Files
  <2>2. \A v \in Workers : Working(v, l[2])' => Working(v, l[2])
    BY <1>1, <1>2, <1>3 DEF Working, Busy
  <2> QED
    BY <1>3, <1>6, <2>1, <2>2 DEF FilesStayHome
<1>10. CompletedIsWhole'
  <2> SUFFICES ASSUME NEW r \in RunIds, runs'[r].status = "completed", runs'[r] # runs[r]
               PROVE  /\ runs'[r].items # None
                      /\ runs'[r].exported = Formats
                      /\ \A h \in Hosts, f \in Formats :
                           disk[<<h, r, f>>] \in {None, runs'[r].items}
                      /\ \A f \in runs'[r].keys : bucket[<<r, f>>] = runs'[r].items
    BY <1>1 DEF CompletedIsWhole
  <2>1. r = run[w] /\ runs'[r] = Completed(w)
    BY <1>3
  <2>2. /\ Completed(w).items = input[w] /\ Completed(w).exported = Formats
        /\ Completed(w).keys = keys[w]
    BY DEF Completed
  <2>3. input[w] # None
    BY <1>2, NoneAssumption DEF WorkIsConsistent, Reports
  <2>4. ASSUME NEW h \in Hosts, NEW f \in Formats
        PROVE  disk[<<h, r, f>>] \in {None, input[w]}
    <3>1. CASE h = HostOf[w]
      BY <1>2, <2>1, <3>1, WrittenTable DEF WorkIsConsistent
    <3>2. CASE h # HostOf[w]
      BY <1>2, <2>1, <3>2 DEF FilesStayHome, Files, Working
    <3> QED
      BY <3>1, <3>2
  <2> QED
    BY <1>2, <2>1, <2>2, <2>3, <2>4 DEF WorkIsConsistent
<1>11. RowsFillAtOnce'
  BY <1>3, <1>6 DEF RowsFillAtOnce
<1> QED
  BY <1>5, <1>7, <1>8, <1>9, <1>10, <1>11

LEMMA MarkFailedKeepsInv ==
    ASSUME Inv, TypeOK', NEW w \in Workers, MarkFailed(w)
    PROVE  Inv'
<1> USE Tables, StepNames DEF Inv
<1>1. UNCHANGED <<disk, bucket, run, input, keys>>
  BY DEF MarkFailed
<1>2. pc[w] = "failing" /\ Busy(w) /\ run[w] \in RunIds
  BY DEF MarkFailed, Busy, TypeOK
<1>3. /\ pc'[w] = "idle"
      /\ \A v \in Workers : v # w => pc'[v] = pc[v]
      /\ \A r \in RunIds : r # run[w] => runs'[r] = runs[r]
      /\ runs' = runs \/ runs'[run[w]].status = "failed"
  BY <1>2 DEF MarkFailed, Failed, TypeOK
<1>4. \A v \in Workers : v # w /\ Busy(v) => run[v] # run[w] /\ run[v] \in RunIds
  BY <1>2 DEF OneWorkerPerRun, TypeOK
<1>5. OneWorkerPerRun'
  BY <1>1, <1>3 DEF OneWorkerPerRun, Busy
<1>6. WorkersRunIsOpen'
  BY <1>1, <1>3, <1>4 DEF WorkersRunIsOpen, Busy
<1>7. WorkIsConsistent'
  BY <1>1, <1>3 DEF WorkIsConsistent, Loaded
<1>8. FilesStayHome'
  <2> SUFFICES ASSUME NEW l \in Files, disk[l] # None
               PROVE  \/ runs'[l[2]].status \in {"completed", "failed"}
                      \/ /\ runs'[l[2]].status = "running"
                         /\ \A v \in Workers : Working(v, l[2])' => HostOf[v] = l[1]
    BY <1>1 DEF FilesStayHome
  <2>1. l[2] \in RunIds
    BY DEF Files
  <2>2. \A v \in Workers : Working(v, l[2])' => Working(v, l[2])
    BY <1>1, <1>3 DEF Working, Busy
  <2> QED
    BY <1>3, <2>1, <2>2 DEF FilesStayHome
<1>9. CompletedIsWhole'
  BY <1>1, <1>3 DEF CompletedIsWhole
<1>10. RowsFillAtOnce'
  BY <1>3 DEF RowsFillAtOnce
<1> QED
  BY <1>5, <1>6, <1>7, <1>8, <1>9, <1>10

LEMMA CrashKeepsInv ==
    ASSUME Inv, TypeOK', NEW h \in Hosts, Crash(h)
    PROVE  Inv'
<1> USE Tables, StepNames DEF Inv
<1>1. UNCHANGED <<runs, bucket, run, input, keys>>
  BY DEF Crash
<1>2. \A w \in Workers :
        \/ pc'[w] = "idle"
        \/ pc'[w] = pc[w] /\ HostOf[w] # h
  BY DEF Crash, Busy, Victims, TypeOK
<1>3. ASSUME NEW l \in Files, disk'[l] # disk[l]
      PROVE  /\ l[1] = h
             /\ \/ disk'[l] = None
                \/ \E w \in Workers : /\ Busy(w) /\ run[w] = l[2] /\ HostOf[w] = h
                                     /\ runs[l[2]].status = "running"
  <2>1. PICK torn \in SUBSET {w \in Victims(h) : pc[w] \in DOMAIN Writes} :
          disk' = DiskAfterCrash(h, torn)
    BY DEF Crash
  <2>2. CASE l[1] = h /\ h \in Ephemeral
    BY <2>1, <2>2 DEF DiskAfterCrash
  <2>3. CASE \E w \in torn : l = Location(w)
    <3>1. PICK w \in torn : l = Location(w)
      BY <2>3
    <3>2. Busy(w) /\ HostOf[w] = h /\ pc[w] # "failing" /\ w \in Workers
      BY <2>1, <3>1 DEF Victims
    <3>3. run[w] = l[2] /\ l[1] = h
      BY <3>1, <3>2 DEF Location
    <3> QED
      BY <3>2, <3>3 DEF WorkersRunIsOpen
  <2> QED
    BY <1>3, <2>1, <2>2, <2>3 DEF DiskAfterCrash
<1>4. OneWorkerPerRun'
  BY <1>1, <1>2 DEF OneWorkerPerRun, Busy
<1>5. WorkersRunIsOpen'
  BY <1>1, <1>2 DEF WorkersRunIsOpen, Busy
<1>6. WorkIsConsistent'
  <2> SUFFICES ASSUME NEW v \in Workers, Loaded(v)'
               PROVE  \A f \in WrittenBefore[pc[v]] :
                        disk'[<<HostOf[v], run[v], f>>] = disk[<<HostOf[v], run[v], f>>]
    BY <1>1, <1>2 DEF WorkIsConsistent, Loaded
  <2>1. pc'[v] = pc[v] /\ HostOf[v] # h /\ Loaded(v) /\ Busy(v)
    BY <1>2 DEF Loaded, Busy
  <2>2. \A f \in WrittenBefore[pc[v]] : <<HostOf[v], run[v], f>> \in Files
    BY <2>1, WrittenTable, HostAssumption DEF Loaded, TypeOK, Files
  <2> QED
    BY <1>3, <2>1, <2>2
<1>7. FilesStayHome'
  <2> SUFFICES ASSUME NEW l \in Files, disk'[l] # None
               PROVE  \/ runs[l[2]].status \in {"completed", "failed"}
                      \/ /\ runs[l[2]].status = "running"
                         /\ \A w \in Workers : Working(w, l[2])' => HostOf[w] = l[1]
    BY <1>1 DEF FilesStayHome
  <2>1. \A w \in Workers : Working(w, l[2])' => Working(w, l[2])
    BY <1>1, <1>2 DEF Working, Busy
  <2>2. CASE disk'[l] = disk[l]
    BY <2>1, <2>2 DEF FilesStayHome
  <2>3. CASE disk'[l] # disk[l]
    BY <1>3, <2>1, <2>3 DEF Working, OneWorkerPerRun
  <2> QED
    BY <2>2, <2>3
<1>8. CompletedIsWhole'
  <2> SUFFICES ASSUME NEW r \in RunIds, runs[r].status = "completed",
                      NEW k \in Hosts, NEW f \in Formats
               PROVE  disk'[<<k, r, f>>] \in {None, disk[<<k, r, f>>]}
    BY <1>1 DEF CompletedIsWhole
  <2>1. <<k, r, f>> \in Files
    BY DEF Files
  <2> QED
    BY <1>3, <2>1
<1>9. RowsFillAtOnce'
  BY <1>1 DEF RowsFillAtOnce
<1> QED
  BY <1>4, <1>5, <1>6, <1>7, <1>8, <1>9

LEMMA RecycleKeepsInv ==
    ASSUME Inv, TypeOK', NEW h \in Hosts, Recycle(h)
    PROVE  Inv'
<1> USE Tables, StepNames DEF Inv
<1>1. UNCHANGED <<stored, runs, bucket, pc, run, input, keys>>
  BY DEF Recycle
<1>2. /\ \A l \in Files : disk'[l] \in {None, disk[l]}
      /\ \A l \in Files : l[1] # h => disk'[l] = disk[l]
      /\ \A w \in Workers : HostOf[w] = h => ~ Busy(w)
  BY DEF Recycle
<1>3. OneWorkerPerRun' /\ WorkersRunIsOpen'
  BY <1>1 DEF OneWorkerPerRun, WorkersRunIsOpen, Busy
<1>4. WorkIsConsistent'
  <2> SUFFICES ASSUME NEW v \in Workers, Loaded(v), NEW f \in WrittenBefore[pc[v]]
               PROVE  disk'[<<HostOf[v], run[v], f>>] = disk[<<HostOf[v], run[v], f>>]
    BY <1>1 DEF WorkIsConsistent, Loaded
  <2>1. Busy(v)
    BY DEF Loaded, Busy
  <2>2. <<HostOf[v], run[v], f>> \in Files
    BY <2>1, WrittenTable, HostAssumption DEF Loaded, TypeOK, Files
  <2> QED
    BY <1>2, <2>1, <2>2
<1>5. FilesStayHome'
  BY <1>1, <1>2 DEF FilesStayHome, Working, Busy
<1>6. CompletedIsWhole'
  <2> SUFFICES ASSUME NEW r \in RunIds, NEW k \in Hosts, NEW f \in Formats
               PROVE  disk'[<<k, r, f>>] \in {None, disk[<<k, r, f>>]}
    BY <1>1 DEF CompletedIsWhole
  <2> QED
    BY <1>2 DEF Files
<1>7. RowsFillAtOnce'
  BY <1>1 DEF RowsFillAtOnce
<1> QED
  BY <1>3, <1>4, <1>5, <1>6, <1>7

LEMMA InvStep == Inv /\ [Next]_vars => Inv'
<1> SUFFICES ASSUME Inv, [Next]_vars PROVE Inv'
  OBVIOUS
<1>1. TypeOK'
  BY TypeStep DEF Inv
<1>2. CASE UNCHANGED vars
  BY <1>1, <1>2 DEF vars, Inv, OneWorkerPerRun, WorkersRunIsOpen, WorkIsConsistent,
     RowsFillAtOnce, FilesStayHome, CompletedIsWhole, Busy, Working, Loaded
<1>3. CASE Environment
  BY <1>1, <1>3, IngestKeepsInv, CrashKeepsInv, RecycleKeepsInv DEF Environment
<1>4. ASSUME NEW w \in Workers, Proceed(w) PROVE Inv'
  BY <1>1, <1>4, LoadKeepsInv, WriteExportKeepsInv, UploadFileKeepsInv,
     MarkCompletedKeepsInv, MarkFailedKeepsInv DEF Proceed
<1>5. ASSUME NEW w \in Workers, NEW r \in RunIds, NEW u \in Users, NEW p \in Periods,
             CreatePending(w, r, u, p)
      PROVE  Inv'
  BY <1>1, <1>5, CreatePendingKeepsInv
<1> QED
  BY <1>2, <1>3, <1>4, <1>5 DEF Next

(* generate_report keeps its inductive invariant: one worker per run, the   *)
(* files and keys written so far hold the worker's report, rows are filled  *)
(* in one transaction, files stay on their worker's host.                   *)
THEOREM GenerationInvariant == Spec => []Inv
BY InvInit, InvStep, PTL DEF Spec

(* In every reachable state a completed run's line items, files and S3      *)
(* copies are built from the same transactions, whatever failed meanwhile.  *)
THEOREM CompletedRunsAreWhole == Spec => []CompletedIsWhole
<1>1. Inv => CompletedIsWhole
  BY DEF Inv
<1> QED
  BY <1>1, InvInit, InvStep, PTL DEF Spec

-----------------------------------------------------------------------------
(* Batches.  A batch is either stored or not; a snapshot of the stored      *)
(* transactions therefore holds all or none of its part of the period.      *)
Whole(S, b, p) ==
    LET part == {t \in b : PeriodOf[t] = p} IN part \subseteq S \/ part \cap S = {}

BatchInv ==
    /\ \A b \in Batches : b \subseteq stored \/ b \cap stored = {}
    /\ \A w \in Workers, b \in Batches :
         Loaded(w) => Whole(input[w], b, runs[run[w]].period)
    /\ BatchesAreWhole

LEMMA BatchInit == Init => BatchInv
BY Tables DEF Init, BatchInv, BatchesAreWhole, NoRow, Loaded

LEMMA BatchStep == Inv /\ BatchInv /\ [Next]_vars => BatchInv'
<1> SUFFICES ASSUME Inv, BatchInv, [Next]_vars PROVE BatchInv'
  OBVIOUS
<1> USE Tables, StepNames
<1>1. TypeOK
  BY DEF Inv
<1>2. ASSUME NEW b \in Batches, Ingest(b) PROVE BatchInv'
  <2>1. \A c \in Batches : c \subseteq stored' \/ c \cap stored' = {}
    BY <1>2, DataAssumption DEF Ingest, BatchInv
  <2> QED
    BY <1>2, <2>1 DEF Ingest, BatchInv, BatchesAreWhole, Loaded, Whole
<1>3. ASSUME NEW h \in Hosts, Crash(h) \/ Recycle(h) PROVE BatchInv'
  <2>1. \A w \in Workers : Loaded(w)' => Loaded(w)
    BY <1>1, <1>3 DEF Crash, Recycle, Loaded, TypeOK
  <2> QED
    BY <1>3, <2>1 DEF Crash, Recycle, BatchInv, BatchesAreWhole, Whole
<1>4. ASSUME NEW w \in Workers, Load(w) PROVE BatchInv'
  <2>1. \A b \in Batches : Whole(ListForPeriod(runs[run[w]].period), b, runs[run[w]].period)
    BY DEF BatchInv, Whole, ListForPeriod
  <2>2. /\ \A v \in Workers : v # w => Loaded(v)' = Loaded(v) /\ input'[v] = input[v]
        /\ Loaded(w)' => input'[w] = ListForPeriod(runs[run[w]].period)
    BY <1>1, <1>4 DEF Load, Loaded, TypeOK
  <2> QED
    BY <1>4, <2>1, <2>2 DEF Load, BatchInv, BatchesAreWhole, Whole
<1>5. ASSUME NEW w \in Workers, WriteExport(w) \/ UploadFile(w) PROVE BatchInv'
  <2>1. \A v \in Workers : Loaded(v)' => Loaded(v)
    BY <1>1, <1>5 DEF WriteExport, UploadFile, Loaded, TypeOK
  <2> QED
    BY <1>5, <2>1 DEF WriteExport, UploadFile, BatchInv, BatchesAreWhole, Whole
<1>6. ASSUME NEW w \in Workers, MarkCompleted(w) PROVE BatchInv'
  <2>1. /\ Loaded(w) /\ Busy(w) /\ run[w] \in RunIds
        /\ \A v \in Workers : Loaded(v)' => Loaded(v) /\ v # w
    BY <1>1, <1>6 DEF MarkCompleted, Loaded, TypeOK, Busy
  <2>2. /\ \A r \in RunIds : r # run[w] => runs'[r] = runs[r]
        /\ runs'[run[w]] = runs[run[w]] \/ runs'[run[w]] = Completed(w)
    BY <1>1, <1>6, <2>1 DEF MarkCompleted, TypeOK
  <2>3. Completed(w).period = runs[run[w]].period /\ Completed(w).items = input[w]
    BY DEF Completed
  <2>4. \A b \in Batches : Whole(input[w], b, runs[run[w]].period)
    BY <2>1 DEF BatchInv
  <2>5. BatchesAreWhole'
    BY <2>2, <2>3, <2>4 DEF BatchInv, BatchesAreWhole, Whole
  <2>6. \A v \in Workers : Loaded(v) /\ v # w => run[v] # run[w] /\ run[v] \in RunIds
    BY <1>1, <2>1 DEF Inv, OneWorkerPerRun, TypeOK, Busy, Loaded
  <2>7. \A v \in Workers, b \in Batches :
          Loaded(v)' => Whole(input[v], b, runs'[run[v]].period)
    BY <2>1, <2>2, <2>6 DEF BatchInv
  <2> QED
    BY <1>6, <2>5, <2>7 DEF MarkCompleted, BatchInv, Whole
<1>7. ASSUME NEW w \in Workers, MarkFailed(w) PROVE BatchInv'
  <2>1. /\ run[w] \in RunIds
        /\ \A v \in Workers : Loaded(v)' => Loaded(v)
        /\ \A v \in Workers : Loaded(v) => run[v] \in RunIds
    BY <1>1, <1>7 DEF MarkFailed, Loaded, TypeOK, Busy
  <2>2. \A r \in RunIds : runs'[r].period = runs[r].period /\ runs'[r].items = runs[r].items
    BY <1>1, <1>7, <2>1 DEF MarkFailed, Failed, TypeOK
  <2> QED
    BY <1>7, <2>1, <2>2 DEF MarkFailed, BatchInv, BatchesAreWhole, Whole
<1>8. ASSUME NEW w \in Workers, NEW r \in RunIds, NEW u \in Users, NEW p \in Periods,
             CreatePending(w, r, u, p)
      PROVE  BatchInv'
  <2>1. /\ \A v \in Workers : Loaded(v)' => Loaded(v) /\ v # w
        /\ \A v \in Workers : v # w => input'[v] = input[v] /\ run'[v] = run[v]
    BY <1>1, <1>8 DEF CreatePending, Loaded, TypeOK
  <2>2. \A v \in Workers : Loaded(v) => run[v] # r /\ run[v] \in RunIds
    BY <1>1, <1>8 DEF Inv, WorkersRunIsOpen, CreatePending, NoRow, Loaded, Busy, TypeOK
  <2>3. /\ \A q \in RunIds : q # r => runs'[q] = runs[q]
        /\ runs'[r].items = None
    BY <1>1, <1>8 DEF CreatePending, TypeOK
  <2> QED
    BY <1>8, <2>1, <2>2, <2>3 DEF CreatePending, BatchInv, BatchesAreWhole, Whole
<1>9. CASE UNCHANGED vars
  BY <1>9 DEF vars, BatchInv, BatchesAreWhole, Whole, Loaded
<1> QED
  BY <1>2, <1>3, <1>4, <1>5, <1>6, <1>7, <1>8, <1>9 DEF Next, Environment, Proceed

(* A report never contains part of a batch's transactions of its period.    *)
THEOREM ReportsHoldWholeBatches == Spec => []BatchesAreWhole
<1>1. BatchInv => BatchesAreWhole
  BY DEF BatchInv
<1> QED
  BY <1>1, InvInit, InvStep, BatchInit, BatchStep, PTL DEF Spec

-----------------------------------------------------------------------------
(* Without a commit that is applied and yet reported as failed, a worker    *)
(* only ever holds a running run, and the status decides the whole row.     *)
SureCommits == "commit_ambiguous" \notin Faults

HeldRunsAreRunning == \A w \in Workers : Busy(w) => runs[run[w]].status = "running"

SureInv == HeldRunsAreRunning /\ UnfinishedIsEmpty

LEMMA SureInit == Init => SureInv
BY DEF Init, SureInv, HeldRunsAreRunning, UnfinishedIsEmpty, Busy, NoRow

LEMMA SureStep ==
    ASSUME SureCommits
    PROVE  Inv /\ SureInv /\ [Next]_vars => SureInv'
<1> SUFFICES ASSUME Inv, SureInv, [Next]_vars PROVE SureInv'
  OBVIOUS
<1> USE Tables, StepNames DEF SureInv
<1>1. TypeOK /\ OneWorkerPerRun
  BY DEF Inv
<1>2. CASE Environment
  <2>1. runs' = runs /\ run' = run /\ \A w \in Workers : Busy(w)' => Busy(w)
    BY <1>1, <1>2 DEF Environment, Ingest, Crash, Recycle, Busy, TypeOK
  <2> QED
    BY <2>1 DEF HeldRunsAreRunning, UnfinishedIsEmpty
<1>3. ASSUME NEW w \in Workers, Load(w) \/ WriteExport(w) \/ UploadFile(w) PROVE SureInv'
  <2>1. runs' = runs /\ run' = run /\ \A v \in Workers : Busy(v)' => Busy(v)
    BY <1>1, <1>3 DEF Load, WriteExport, UploadFile, Busy, TypeOK
  <2> QED
    BY <2>1 DEF HeldRunsAreRunning, UnfinishedIsEmpty
<1>4. ASSUME NEW w \in Workers, MarkCompleted(w) PROVE SureInv'
  <2>1. /\ Busy(w) /\ run[w] \in RunIds /\ run' = run
        /\ \A v \in Workers : v # w /\ Busy(v)' => Busy(v) /\ run[v] # run[w]
        /\ \A v \in Workers : v # w /\ Busy(v)' => run[v] \in RunIds
    BY <1>1, <1>4 DEF MarkCompleted, Busy, TypeOK, OneWorkerPerRun
  <2>2. \/ runs' = runs
        \/ /\ ~ Busy(w)'
           /\ runs'[run[w]].status = "completed"
           /\ \A r \in RunIds : r # run[w] => runs'[r] = runs[r]
    BY <1>1, <1>4, <2>1 DEF MarkCompleted, Completed, Busy, TypeOK, SureCommits
  <2> QED
    BY <2>1, <2>2 DEF HeldRunsAreRunning, UnfinishedIsEmpty
<1>5. ASSUME NEW w \in Workers, MarkFailed(w) PROVE SureInv'
  <2>1. /\ Busy(w) /\ run[w] \in RunIds /\ run' = run /\ ~ Busy(w)'
        /\ \A v \in Workers : v # w /\ Busy(v)' => Busy(v) /\ run[v] # run[w]
        /\ \A v \in Workers : v # w /\ Busy(v)' => run[v] \in RunIds
    BY <1>1, <1>5 DEF MarkFailed, Busy, TypeOK, OneWorkerPerRun
  <2>2. \/ runs' = runs
        \/ /\ runs'[run[w]] = Failed(runs[run[w]])
           /\ \A r \in RunIds : r # run[w] => runs'[r] = runs[r]
    BY <1>1, <1>5, <2>1 DEF MarkFailed, TypeOK
  <2>3. /\ Failed(runs[run[w]]).items = runs[run[w]].items
        /\ Failed(runs[run[w]]).exported = runs[run[w]].exported
        /\ Failed(runs[run[w]]).keys = runs[run[w]].keys
    BY DEF Failed
  <2> QED
    BY <2>1, <2>2, <2>3 DEF HeldRunsAreRunning, UnfinishedIsEmpty
<1>6. ASSUME NEW w \in Workers, NEW r \in RunIds, NEW u \in Users, NEW p \in Periods,
             CreatePending(w, r, u, p)
      PROVE  SureInv'
  <2>1. \A v \in Workers : Busy(v) => run[v] # r /\ run[v] \in RunIds
    BY <1>1, <1>6 DEF CreatePending, HeldRunsAreRunning, NoRow, TypeOK
  <2>2. /\ runs'[r].status = "running" /\ runs'[r].items = None
        /\ runs'[r].exported = {} /\ runs'[r].keys = {}
        /\ \A q \in RunIds : q # r => runs'[q] = runs[q]
    BY <1>1, <1>6 DEF CreatePending, TypeOK
  <2>3. \A v \in Workers :
          Busy(v)' => (v = w /\ run'[v] = r) \/ (Busy(v) /\ run'[v] = run[v])
    <3>1. pc' = [pc EXCEPT ![w] = "load"] /\ run' = [run EXCEPT ![w] = r]
      BY <1>6 DEF CreatePending, SureCommits
    <3> QED
      BY <1>1, <3>1 DEF Busy, TypeOK
  <2> QED
    BY <2>1, <2>2, <2>3 DEF HeldRunsAreRunning, UnfinishedIsEmpty
<1>7. CASE UNCHANGED vars
  BY <1>7 DEF vars, HeldRunsAreRunning, UnfinishedIsEmpty, Busy
<1> QED
  BY <1>2, <1>3, <1>4, <1>5, <1>6, <1>7 DEF Next, Proceed

(* Whatever fails, a run that is not completed has no line items and names  *)
(* no export.                                                               *)
THEOREM UnfinishedRunsAreEmpty ==
    ASSUME SureCommits
    PROVE  Spec => []UnfinishedIsEmpty
<1>1. SureInv => UnfinishedIsEmpty
  BY DEF SureInv
<1>2. Inv /\ SureInv /\ [Next]_vars => SureInv'
  BY SureStep
<1> QED
  BY <1>1, <1>2, InvInit, InvStep, SureInit, PTL DEF Spec

(* The action half: a step that changes a row changes one that is not       *)
(* finished.                                                                *)
LEMMA SureFinal ==
    Inv /\ SureInv /\ [Next]_vars =>
      [\A r \in RunIds : runs[r].status \in {"completed", "failed"} =>
         runs'[r] = runs[r]]_vars
<1> SUFFICES ASSUME Inv, SureInv, Next, NEW r \in RunIds,
                    runs[r].status \in {"completed", "failed"}
             PROVE  runs'[r] = runs[r]
  OBVIOUS
<1>1. TypeOK /\ HeldRunsAreRunning
  BY DEF Inv, SureInv
<1>2. CASE Environment
  BY <1>2 DEF Environment, Ingest, Crash, Recycle
<1>3. ASSUME NEW w \in Workers, Proceed(w) PROVE runs'[r] = runs[r]
  <2>1. CASE MarkCompleted(w)
    BY <1>1, <2>1 DEF MarkCompleted, HeldRunsAreRunning, Busy, TypeOK
  <2>2. CASE MarkFailed(w)
    BY <1>1, <2>2 DEF MarkFailed, HeldRunsAreRunning, Busy, TypeOK
  <2> QED
    BY <1>3, <2>1, <2>2 DEF Proceed, Load, WriteExport, UploadFile
<1>4. ASSUME NEW w \in Workers, NEW q \in RunIds, NEW u \in Users, NEW p \in Periods,
             CreatePending(w, q, u, p)
      PROVE  runs'[r] = runs[r]
  BY <1>1, <1>4 DEF CreatePending, TypeOK, NoRow
<1> QED
  BY <1>2, <1>3, <1>4 DEF Next

(* A completed or failed run never changes again.                           *)
THEOREM FinishedRunsAreFinal ==
    ASSUME SureCommits
    PROVE  Spec => FinishedIsFinal
<1>1. Inv /\ SureInv /\ [Next]_vars => SureInv'
  BY SureStep
<1> QED
  BY <1>1, SureFinal, InvInit, InvStep, SureInit, PTL DEF Spec, FinishedIsFinal

-----------------------------------------------------------------------------
(* What leaves a run without a worker: a death, an except branch that fails *)
(* itself, a first commit that is applied and yet raises.  Nothing else.    *)
NoAbandonment == {"crash", "db_down", "commit_ambiguous"} \cap Faults = {}

LEMMA AttendedStep ==
    ASSUME NoAbandonment
    PROVE  Inv /\ RunningHasAWorker /\ [Next]_vars => RunningHasAWorker'
<1> SUFFICES ASSUME Inv, RunningHasAWorker, [Next]_vars PROVE RunningHasAWorker'
  OBVIOUS
<1> USE Tables, StepNames
<1>1. TypeOK /\ OneWorkerPerRun
  BY DEF Inv
<1>2. CASE Environment
  <2>1. UNCHANGED <<runs, pc, run>>
    BY <1>2 DEF Environment, Ingest, Crash, Recycle, NoAbandonment
  <2> QED
    BY <2>1 DEF RunningHasAWorker, Worked, Working, Busy
<1>3. ASSUME NEW w \in Workers, Load(w) \/ WriteExport(w) \/ UploadFile(w)
      PROVE  RunningHasAWorker'
  <2>1. runs' = runs /\ run' = run /\ \A v \in Workers : Busy(v) => Busy(v)'
    BY <1>1, <1>3 DEF Load, WriteExport, UploadFile, Busy, TypeOK
  <2> QED
    BY <2>1 DEF RunningHasAWorker, Worked, Working
<1>4. ASSUME NEW w \in Workers, MarkCompleted(w) \/ MarkFailed(w) PROVE RunningHasAWorker'
  <2>1. /\ run[w] \in RunIds /\ run' = run
        /\ \A v \in Workers : v # w => pc'[v] = pc[v]
        /\ \A r \in RunIds : r # run[w] => runs'[r] = runs[r]
    BY <1>1, <1>4 DEF MarkCompleted, MarkFailed, Busy, TypeOK
  <2>2. Busy(w)' \/ runs'[run[w]].status \in {"completed", "failed"}
    BY <1>1, <1>4, <2>1
       DEF MarkCompleted, MarkFailed, Completed, Failed, Busy, TypeOK, NoAbandonment
  <2> QED
    BY <2>1, <2>2 DEF RunningHasAWorker, Worked, Working, Busy
<1>5. ASSUME NEW w \in Workers, NEW r \in RunIds, NEW u \in Users, NEW p \in Periods,
             CreatePending(w, r, u, p)
      PROVE  RunningHasAWorker'
  <2>1. /\ ~ Busy(w) /\ Busy(w)' /\ run'[w] = r
        /\ \A v \in Workers : v # w => pc'[v] = pc[v] /\ run'[v] = run[v]
        /\ \A q \in RunIds : q # r => runs'[q] = runs[q]
    BY <1>1, <1>5 DEF CreatePending, Busy, TypeOK, NoAbandonment
  <2> QED
    BY <2>1 DEF RunningHasAWorker, Worked, Working, Busy
<1>6. CASE UNCHANGED vars
  BY <1>6 DEF vars, RunningHasAWorker, Worked, Working, Busy
<1> QED
  BY <1>2, <1>3, <1>4, <1>5, <1>6 DEF Next, Proceed

(* "Any failure must mark the run failed": every failure the except branch  *)
(* can see and survive.  A run that is still running has a worker on it.    *)
THEOREM RunningRunsAreAttended ==
    ASSUME NoAbandonment
    PROVE  Spec => []RunningHasAWorker
<1>1. Init => RunningHasAWorker
  BY DEF Init, RunningHasAWorker, NoRow
<1>2. Inv /\ RunningHasAWorker /\ [Next]_vars => RunningHasAWorker'
  BY AttendedStep
<1> QED
  BY <1>1, <1>2, InvInit, InvStep, PTL DEF Spec

-----------------------------------------------------------------------------
(* Downloads, first way: if no upload is swallowed, a run only completes    *)
(* with all three keys, and CompletedIsWhole says what is behind them.      *)
LoudUploads == "s3" \notin Faults

UploadsBefore(s) ==
    IF s = "put_csv" THEN {"json"} ELSE IF s = "put_pdf" THEN {"json", "csv"}
    ELSE IF s = "complete" THEN Formats ELSE {}

LEMMA UploadsTable ==
    /\ \A s \in {"idle", "load", "failing", "put_json"} \cup DOMAIN Writes :
         UploadsBefore(s) = {}
    /\ \A s \in DOMAIN Writes : UploadsBefore(Then[s]) = {}
    /\ \A s \in DOMAIN Puts : UploadsBefore(Then[s]) = UploadsBefore(s) \cup {Puts[s]}
    /\ UploadsBefore("complete") = Formats
BY DEF UploadsBefore, Writes, Puts, Then, Formats

KeysInv ==
    /\ \A w \in Workers : UploadsBefore(pc[w]) \subseteq keys[w]
    /\ \A r \in RunIds : runs[r].status = "completed" => runs[r].keys = Formats

LEMMA KeysInit == Init => KeysInv
BY UploadsTable DEF Init, KeysInv, NoRow

LEMMA KeysStep ==
    ASSUME LoudUploads
    PROVE  Inv /\ KeysInv /\ [Next]_vars => KeysInv'
<1> SUFFICES ASSUME Inv, KeysInv, [Next]_vars PROVE KeysInv'
  OBVIOUS
<1> USE Tables, StepNames, UploadsTable DEF KeysInv
<1>1. TypeOK
  BY DEF Inv
<1>2. CASE Environment
  <2>1. /\ UNCHANGED <<runs, keys>>
        /\ \A w \in Workers : pc'[w] \in {"idle", pc[w]}
    BY <1>1, <1>2 DEF Environment, Ingest, Crash, Recycle, TypeOK
  <2> QED
    BY <2>1
<1>3. ASSUME NEW w \in Workers, Load(w) \/ WriteExport(w) PROVE KeysInv'
  <2>1. /\ UNCHANGED <<runs, keys>>
        /\ \A v \in Workers : v # w => pc'[v] = pc[v]
        /\ UploadsBefore(pc'[w]) = {}
    BY <1>1, <1>3 DEF Load, WriteExport, TypeOK
  <2> QED
    BY <2>1
<1>4. ASSUME NEW w \in Workers, UploadFile(w) PROVE KeysInv'
  <2>1. /\ runs' = runs /\ pc[w] \in DOMAIN Puts
        /\ \A v \in Workers : v # w => pc'[v] = pc[v] /\ keys'[v] = keys[v]
        /\ \/ pc'[w] = Then[pc[w]] /\ keys'[w] = keys[w] \cup {Puts[pc[w]]}
           \/ pc'[w] = "failing"
    BY <1>1, <1>4 DEF UploadFile, TypeOK, LoudUploads
  <2> QED
    BY <2>1
<1>5. ASSUME NEW w \in Workers, MarkCompleted(w) PROVE KeysInv'
  <2>1. /\ pc[w] = "complete" /\ keys' = keys /\ pc'[w] \in {"idle", "failing"}
        /\ \A v \in Workers : v # w => pc'[v] = pc[v]
        /\ \A r \in RunIds : runs'[r] = runs[r] \/ runs'[r].keys = keys[w]
    BY <1>1, <1>5 DEF MarkCompleted, Completed, TypeOK
  <2>2. keys[w] = Formats
    <3>1. UploadsBefore(pc[w]) \subseteq keys[w]
      OBVIOUS
    <3>2. keys[w] \in SUBSET Formats
      BY <1>1 DEF TypeOK
    <3>3. UploadsBefore(pc[w]) = Formats
      BY <2>1
    <3> HIDE DEF KeysInv
    <3> QED
      BY <3>1, <3>2, <3>3
  <2> QED
    BY <2>1, <2>2
<1>6. ASSUME NEW w \in Workers, MarkFailed(w) PROVE KeysInv'
  <2>1. /\ keys' = keys /\ pc'[w] = "idle"
        /\ \A v \in Workers : v # w => pc'[v] = pc[v]
        /\ \A r \in RunIds : runs'[r] = runs[r] \/ runs'[r].status = "failed"
    BY <1>1, <1>6 DEF MarkFailed, Failed, TypeOK
  <2> QED
    BY <2>1
<1>7. ASSUME NEW w \in Workers, NEW r \in RunIds, NEW u \in Users, NEW p \in Periods,
             CreatePending(w, r, u, p)
      PROVE  KeysInv'
  <2>1. /\ pc'[w] \in {"idle", "load"}
        /\ \A v \in Workers : v # w => pc'[v] = pc[v] /\ keys'[v] = keys[v]
        /\ \A q \in RunIds : runs'[q] = runs[q] \/ runs'[q].status = "running"
    BY <1>1, <1>7 DEF CreatePending, TypeOK
  <2> QED
    BY <2>1
<1>8. CASE UNCHANGED vars
  BY <1>8 DEF vars
<1> QED
  BY <1>2, <1>3, <1>4, <1>5, <1>6, <1>7, <1>8 DEF Next, Proceed

(* Second way: everybody works on the API host, whose disk outlives its     *)
(* processes.  CompletedIsWhole says what the files hold, if they are there.*)
OneDisk == \A w \in Workers : HostOf[w] = ApiHost

FilesRemain ==
    \A r \in RunIds, f \in Formats :
        runs[r].status = "completed" => disk[<<ApiHost, r, f>>] # None

LEMMA FilesInit == Init => FilesRemain
BY DEF Init, FilesRemain, NoRow

LEMMA FilesStep ==
    ASSUME OneDisk
    PROVE  Inv /\ FilesRemain /\ [Next]_vars => FilesRemain'
<1> SUFFICES ASSUME Inv, FilesRemain, [Next]_vars PROVE FilesRemain'
  OBVIOUS
<1> USE Tables, StepNames DEF FilesRemain
<1>1. TypeOK /\ WorkIsConsistent
  BY DEF Inv
<1>2. \A r \in RunIds, f \in Formats : <<ApiHost, r, f>> \in Files
  BY HostAssumption DEF Files
<1>3. (* every step but MarkCompleted *)
      ASSUME \A l \in Files : disk[l] # None /\ l[1] = ApiHost => disk'[l] # None,
             \A r \in RunIds : runs'[r] = runs[r] \/ runs'[r].status # "completed"
      PROVE  FilesRemain'
  BY <1>2, <1>3
<1>4. CASE Environment
  <2>1. runs' = runs
    BY <1>4 DEF Environment, Ingest, Crash, Recycle
  <2>2. \A l \in Files : disk[l] # None /\ l[1] = ApiHost => disk'[l] # None
    BY <1>4, HostAssumption, NoneAssumption
       DEF Environment, Ingest, Crash, Recycle, DiskAfterCrash
  <2> QED
    BY <1>3, <2>1, <2>2
<1>5. ASSUME NEW w \in Workers, WriteExport(w) PROVE FilesRemain'
  <2>1. /\ runs' = runs /\ Loaded(w) /\ Location(w) \in Files
        /\ \/ disk' = [disk EXCEPT ![Location(w)] = input[w]]
           \/ disk' = [disk EXCEPT ![Location(w)] = Torn]
    BY <1>1, <1>5, HostAssumption
       DEF WriteExport, Loaded, Busy, TypeOK, Location, Files
  <2>2. input[w] # None /\ Torn # None
    BY <1>1, <2>1, NoneAssumption DEF WorkIsConsistent, Reports
  <2>3. \A l \in Files : disk[l] # None => disk'[l] # None
    BY <1>1, <2>1, <2>2 DEF TypeOK
  <2> QED
    BY <1>3, <2>1, <2>3
<1>6. ASSUME NEW w \in Workers, Load(w) \/ UploadFile(w) PROVE FilesRemain'
  BY <1>6 DEF Load, UploadFile
<1>7. ASSUME NEW w \in Workers, MarkCompleted(w) PROVE FilesRemain'
  <2>1. /\ disk' = disk /\ Loaded(w) /\ run[w] \in RunIds
        /\ \A r \in RunIds : runs'[r] = runs[r] \/ r = run[w]
    BY <1>1, <1>7 DEF MarkCompleted, Loaded, Busy, TypeOK
  <2>2. \A f \in Formats : disk[<<ApiHost, run[w], f>>] = input[w]
    BY <1>1, <1>7, <2>1, WrittenTable DEF MarkCompleted, WorkIsConsistent, OneDisk
  <2>3. input[w] # None
    BY <1>1, <2>1, NoneAssumption DEF WorkIsConsistent, Reports
  <2> QED
    BY <2>1, <2>2, <2>3
<1>8. ASSUME NEW w \in Workers, MarkFailed(w) PROVE FilesRemain'
  <2>1. /\ disk' = disk
        /\ \A r \in RunIds : runs'[r] = runs[r] \/ runs'[r].status = "failed"
    BY <1>1, <1>8 DEF MarkFailed, Failed, TypeOK
  <2> QED
    BY <1>3, <2>1
<1>9. ASSUME NEW w \in Workers, NEW r \in RunIds, NEW u \in Users, NEW p \in Periods,
             CreatePending(w, r, u, p)
      PROVE  FilesRemain'
  <2>1. /\ disk' = disk
        /\ \A q \in RunIds : runs'[q] = runs[q] \/ runs'[q].status = "running"
    BY <1>1, <1>9 DEF CreatePending, TypeOK
  <2> QED
    BY <1>3, <2>1
<1>10. CASE UNCHANGED vars
  BY <1>10 DEF vars
<1> QED
  BY <1>4, <1>5, <1>6, <1>7, <1>8, <1>9, <1>10 DEF Next, Proceed

(* What a completed run offers can be downloaded, whatever crashes, if all  *)
(* workers share the API's disk or no upload fails silently.  A Lambda in   *)
(* front of a failing S3 has neither.                                       *)
THEOREM OffersCanBeDownloaded ==
    ASSUME LoudUploads \/ OneDisk
    PROVE  Spec => []Downloadable
<1>1. CASE LoudUploads
  <2>1. Inv /\ KeysInv => Downloadable
    BY HostAssumption DEF Inv, CompletedIsWhole, KeysInv, Downloadable, Served
  <2>2. Inv /\ KeysInv /\ [Next]_vars => KeysInv'
    BY <1>1, KeysStep
  <2> QED
    BY <2>1, <2>2, InvInit, InvStep, KeysInit, PTL DEF Spec
<1>2. CASE OneDisk
  <2>1. Inv /\ FilesRemain => Downloadable
    BY HostAssumption DEF Inv, CompletedIsWhole, FilesRemain, Downloadable, Served
  <2>2. Inv /\ FilesRemain /\ [Next]_vars => FilesRemain'
    BY <1>2, FilesStep
  <2> QED
    BY <2>1, <2>2, InvInit, InvStep, FilesInit, PTL DEF Spec
<1> QED
  BY <1>1, <1>2
=============================================================================
