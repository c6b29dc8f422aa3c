--------------------------- MODULE Ingestion_proofs ---------------------------
(* That no row of an upload is lost, that the rejection trail follows the   *)
(* committed batches, and that a batch appears as a whole, whatever fails.  *)
EXTENDS Ingestion, FiniteSetTheorems, TLAPS

(* What a file's rows are, and that there are finitely many.                *)
LEMMA RowFacts ==
    ASSUME NEW q \in Uploads, file[q] \in Files
    PROVE  /\ Rows(q) \subseteq Indices
           /\ Rejected(q) \subseteq Rows(q)
           /\ Accepted(q) = Rows(q) \ Rejected(q)
           /\ IsFiniteSet(Rows(q)) /\ IsFiniteSet(Rejected(q)) /\ IsFiniteSet(Accepted(q))
<1>1. IsFiniteSet(Rows(q))
  BY FileAssumption DEF Rows
<1>2. Rows(q) \subseteq Indices
  BY DEF Rows, Indices
<1>3. Rejected(q) \subseteq Rows(q) /\ Accepted(q) = Rows(q) \ Rejected(q)
  BY DEF Rejected, RowsThatAre, Accepted
<1>4. IsFiniteSet(Rejected(q)) /\ IsFiniteSet(Accepted(q))
  BY <1>1, <1>3, FS_Subset
<1> QED BY <1>1, <1>2, <1>3, <1>4

LEMMA FinalizedFacts ==
    ASSUME NEW q \in Uploads, file[q] \in Files
    PROVE  /\ Finalized(q) \in [status : {"absent", "completed", "failed"}, row_count : Nat,
                                accepted : Nat, rejected_rows : SUBSET Indices]
           /\ Finalized(q) # NoBatch
           /\ Finalized(q).row_count = Cardinality(Rows(q))
           /\ Finalized(q).accepted = Cardinality(Accepted(q))
           /\ Finalized(q).rejected_rows = Rejected(q)
           /\ Cardinality(Rows(q)) = Cardinality(Accepted(q)) + Cardinality(Rejected(q))
<1>1. /\ Cardinality(Rows(q)) \in Nat
      /\ Cardinality(Accepted(q)) \in Nat
      /\ Cardinality(Rejected(q)) \in Nat
  BY RowFacts, FS_CardinalityType
<1>2. Rejected(q) \in SUBSET Indices
  BY RowFacts
<1>3. Finalized(q).status # NoBatch.status
  BY DEF Finalized, NoBatch
<1>4. Accepted(q) \cup Rejected(q) = Rows(q) /\ Accepted(q) \cap Rejected(q) = {}
  BY RowFacts
<1>5. Cardinality(Rows(q)) = Cardinality(Accepted(q)) + Cardinality(Rejected(q))
                             - Cardinality(Accepted(q) \cap Rejected(q))
  BY <1>4, RowFacts, FS_Union
<1>6. Cardinality(Accepted(q) \cap Rejected(q)) = 0
  BY <1>4, FS_EmptySet
<1>7. Cardinality(Rows(q)) = Cardinality(Accepted(q)) + Cardinality(Rejected(q))
  BY <1>1, <1>5, <1>6
<1>8. Finalized(q) \in [status : {"absent", "completed", "failed"}, row_count : Nat,
                        accepted : Nat, rejected_rows : SUBSET Indices]
  BY <1>1, <1>2 DEF Finalized
<1> QED BY <1>3, <1>7, <1>8 DEF Finalized

LEMMA TrailIsFinite ==
    ASSUME IngestionInv, NEW q \in Uploads
    PROVE  IsFiniteSet(Trail(q)) /\ Cardinality(Trail(q)) \in Nat /\ Trail(q) \subseteq Indices
<1>1. Traces(q) /\ file[q] \in {None} \cup Files
  BY DEF IngestionInv, IngestionTypeOK
<1>2. Trail(q) \subseteq Indices
  BY DEF Trail
<1>3. CASE batches[q] = NoBatch
  BY <1>1, <1>2, <1>3, FS_EmptySet DEF Traces
<1>4. CASE batches[q] # NoBatch
  <2>1. file[q] \in Files /\ Trail(q) \subseteq Rejected(q)
    BY <1>1, <1>4 DEF Traces
  <2>2. IsFiniteSet(Rejected(q))
    BY <2>1, RowFacts
  <2>3. IsFiniteSet(Trail(q))
    BY <2>1, <2>2, FS_Subset
  <2> QED BY <1>2, <2>3, FS_CardinalityType
<1> QED BY <1>3, <1>4

(* A step that touches nothing of upload q keeps what holds of it.          *)
LEMMA Untouched ==
    ASSUME NEW q \in Uploads, Traces(q),
           file'[q] = file[q], batches'[q] = batches[q],
           Kept(q)' = Kept(q), Trail(q)' = Trail(q),
           \/ pc'[q] = pc[q]
           \/ pc'[q] = "done"
           \/ pc[q] = "new" /\ pc'[q] = "commit"
    PROVE  Traces(q)'
<1>1. /\ pc'[q] \in {"new", "commit"} => pc[q] \in {"new", "commit"}
      /\ pc'[q] = "record" => pc[q] = "record"
  OBVIOUS
<1>2. /\ Finalized(q)' = Finalized(q)
      /\ Accepted(q)' = Accepted(q)
      /\ Rejected(q)' = Rejected(q)
  BY DEF Finalized, Accepted, Rejected, RowsThatAre, Rows
<1>3. NoBatch' = NoBatch
  BY DEF NoBatch
<1> QED BY <1>1, <1>2, <1>3 DEF Traces

LEMMA InvInit == Init => IngestionInv
<1> SUFFICES ASSUME Init PROVE IngestionInv
  OBVIOUS
<1>1. IngestionTypeOK
  <2>1. NoBatch \in [status : {"absent", "completed", "failed"}, row_count : Nat,
                     accepted : Nat, rejected_rows : SUBSET Indices]
    BY DEF NoBatch
  <2>2. /\ NoPage \in [at : {"idle", "list", "count", "page"}, batch : {None} \cup Uploads,
                       known : SUBSET Indices, items : SUBSET Indices, total : Nat]
        /\ NoPage.at = "idle"
    BY DEF NoPage, Page
  <2>3. /\ pc \in [Uploads -> {"new", "commit", "record", "done"}]
        /\ file \in [Uploads -> {None} \cup Files]
        /\ answer \in [Uploads -> {0, 201, 400, 413, 415, 500}]
        /\ \A q \in Uploads : pc[q] = "new"
    BY DEF Init
  <2>4. batches \in [Uploads -> [status : {"absent", "completed", "failed"}, row_count : Nat,
                                 accepted : Nat, rejected_rows : SUBSET Indices]]
    BY <2>1 DEF Init
  <2>5. /\ reader \in [at : {"idle", "list", "count", "page"}, batch : {None} \cup Uploads,
                        known : SUBSET Indices, items : SUBSET Indices, total : Nat]
        /\ reader.at = "idle"
    BY <2>2 DEF Init
  <2>6. up \in BOOLEAN /\ ttlIndex \in BOOLEAN /\ stored = {} /\ trail = {}
    BY DEF Init
  <2> QED BY <2>3, <2>4, <2>5, <2>6 DEF IngestionTypeOK
<1>2. ASSUME NEW q \in Uploads PROVE Traces(q)
  BY DEF Init, Traces, Kept, Trail
<1> QED BY <1>1, <1>2 DEF IngestionInv

(* The reader and MongoDB's TTL monitor: only these two can be disturbed.   *)
LEMMA ReaderStep ==
    ASSUME IngestionInv,
           \/ \E q \in Uploads : AskForRejections(q)
           \/ ListForBatch
           \/ CountForBatch
           \/ ClosePage
    PROVE  IngestionInv'
<1> DEFINE Pages == [at : {"idle", "list", "count", "page"}, batch : {None} \cup Uploads,
                     known : SUBSET Indices, items : SUBSET Indices, total : Nat]
<1>1. /\ reader \in Pages
      /\ reader.at # "idle" => reader.batch \in Uploads
  BY DEF IngestionInv, IngestionTypeOK
<1>2. ASSUME NEW at \in {"idle", "list", "count", "page"}, NEW q \in Uploads,
             NEW known \in SUBSET Indices, NEW items \in SUBSET Indices, NEW total \in Nat
      PROVE  Page(at, q, known, items, total) \in Pages
             /\ Page(at, q, known, items, total).batch = q
  BY DEF Page
<1>3. NoPage \in Pages /\ NoPage.at = "idle"
  BY DEF NoPage, Page
<1>4. /\ reader' \in Pages
      /\ reader'.at # "idle" => reader'.batch \in Uploads
  <2>1. CASE \E q \in Uploads : AskForRejections(q)
    <3>1. PICK q \in Uploads : reader' = Page("list", q, Trail(q), {}, 0)
      BY <2>1 DEF AskForRejections
    <3>2. Trail(q) \in SUBSET Indices
      BY DEF Trail
    <3> QED BY <1>2, <3>1, <3>2
  <2>2. CASE ListForBatch
    <3>1. reader.batch \in Uploads /\ Trail(reader.batch) \in SUBSET Indices
      BY <1>1, <2>2 DEF ListForBatch, Trail
    <3>2. reader' \in {NoPage, Page("count", reader.batch, reader.known,
                                    Trail(reader.batch), 0)}
      BY <2>2 DEF ListForBatch
    <3> QED BY <1>1, <1>2, <1>3, <3>1, <3>2
  <2>3. CASE CountForBatch
    <3>1. reader.batch \in Uploads
      BY <1>1, <2>3 DEF CountForBatch
    <3>2. Cardinality(Trail(reader.batch)) \in Nat
      BY <3>1, TrailIsFinite
    <3>3. reader' \in {NoPage, Page("page", reader.batch, reader.known, reader.items,
                                    Cardinality(Trail(reader.batch)))}
      BY <2>3 DEF CountForBatch
    <3> QED BY <1>1, <1>2, <1>3, <3>1, <3>2, <3>3
  <2>4. CASE ClosePage
    BY <1>3, <2>4 DEF ClosePage
  <2> QED BY <2>1, <2>2, <2>3, <2>4
<1>5. UNCHANGED <<up, ttlIndex, batches, stored, trail, pc, file, answer>>
  BY DEF AskForRejections, ListForBatch, CountForBatch, ClosePage
<1>6. IngestionTypeOK'
  BY <1>4, <1>5 DEF IngestionInv, IngestionTypeOK
<1>7. ASSUME NEW q \in Uploads PROVE Traces(q)'
  <2>1. Kept(q)' = Kept(q) /\ Trail(q)' = Trail(q)
    BY <1>5 DEF Kept, Trail
  <2> QED BY <1>5, <2>1, Untouched DEF IngestionInv
<1> QED BY <1>6, <1>7 DEF IngestionInv

LEMMA ReceiveStep ==
    ASSUME IngestionInv, NEW q \in Uploads, NEW f \in Files, Receive(q, f)
    PROVE  IngestionInv'
<1>1. /\ pc[q] = "new"
      /\ file' = [file EXCEPT ![q] = f]
      /\ \/ pc' = [pc EXCEPT ![q] = "done"] /\ answer' = [answer EXCEPT ![q] = f.refused]
         \/ pc' = [pc EXCEPT ![q] = "commit"] /\ answer' = answer
      /\ UNCHANGED <<up, ttlIndex, batches, stored, trail, reader>>
  BY DEF Receive, Finish
<1>2. IngestionTypeOK'
  <2>1. f # None /\ f.refused \in {0, 400, 413, 415}
    BY FileAssumption
  <2>2. file' \in [Uploads -> {None} \cup Files]
    BY <1>1 DEF IngestionInv, IngestionTypeOK
  <2>3. pc' \in [Uploads -> {"new", "commit", "record", "done"}]
    BY <1>1 DEF IngestionInv, IngestionTypeOK
  <2>4. answer' \in [Uploads -> {0, 201, 400, 413, 415, 500}]
    <3>1. answer \in [Uploads -> {0, 201, 400, 413, 415, 500}]
      BY DEF IngestionInv, IngestionTypeOK
    <3>2. answer' = answer \/ answer' = [answer EXCEPT ![q] = f.refused]
      BY <1>1
    <3> QED BY ONLY <2>1, <3>1, <3>2
  <2>5. \A r \in Uploads : pc'[r] \in {"commit", "record"} => file'[r] # None
    BY <1>1, <2>1 DEF IngestionInv, IngestionTypeOK
  <2> QED BY <1>1, <2>2, <2>3, <2>4, <2>5 DEF IngestionInv, IngestionTypeOK
<1>3. ASSUME NEW r \in Uploads PROVE Traces(r)'
  <2>1. /\ Kept(r)' = Kept(r) /\ Trail(r)' = Trail(r)
        /\ batches'[r] = batches[r]
    BY <1>1 DEF Kept, Trail
  <2>2. CASE r # q
    <3>1. file'[r] = file[r] /\ pc'[r] = pc[r]
      BY <1>1, <2>2 DEF IngestionInv, IngestionTypeOK
    <3> QED BY <2>1, <3>1, Untouched DEF IngestionInv
  <2>3. CASE r = q
    <3>1. Traces(q) /\ batches[q] = NoBatch
      BY <1>1 DEF IngestionInv, Traces
    <3>2. pc'[q] \in {"done", "commit"} /\ NoBatch' = NoBatch
      BY <1>1 DEF IngestionInv, IngestionTypeOK, NoBatch
    <3> QED BY <2>1, <2>3, <3>1, <3>2 DEF Traces
  <2> QED BY <2>2, <2>3
<1> QED BY <1>2, <1>3 DEF IngestionInv

LEMMA CommitStep ==
    ASSUME IngestionInv, NEW q \in Uploads, Commit(q)
    PROVE  IngestionInv'
<1>1. /\ pc[q] = "commit"
      /\ \/ pc' = [pc EXCEPT ![q] = "record"] /\ answer' = answer
         \/ pc' = [pc EXCEPT ![q] = "done"] /\ answer' = [answer EXCEPT ![q] = 500]
      /\ UNCHANGED <<up, ttlIndex, trail, file, reader>>
  BY DEF Commit, Finish
<1>2. \/ /\ batches' = [batches EXCEPT ![q] = Finalized(q)]
         /\ stored' = stored \cup ({q} \X Accepted(q))
      \/ /\ pc' = [pc EXCEPT ![q] = "done"]
         /\ UNCHANGED <<batches, stored>>
  BY DEF Commit, Finish
<1>3. file[q] \in Files /\ Traces(q) /\ batches[q] = NoBatch
  BY <1>1 DEF IngestionInv, IngestionTypeOK, Traces
<1>4. Accepted(q) \subseteq Indices
  BY <1>3, RowFacts
<1>5. IngestionTypeOK'
  <2>1. batches' \in [Uploads -> [status : {"absent", "completed", "failed"}, row_count : Nat,
                                  accepted : Nat, rejected_rows : SUBSET Indices]]
    BY <1>2, <1>3, FinalizedFacts DEF IngestionInv, IngestionTypeOK
  <2>2. stored' \subseteq Uploads \X Indices
    BY <1>2, <1>4 DEF IngestionInv, IngestionTypeOK
  <2>3. /\ pc' \in [Uploads -> {"new", "commit", "record", "done"}]
        /\ answer' \in [Uploads -> {0, 201, 400, 413, 415, 500}]
    BY <1>1 DEF IngestionInv, IngestionTypeOK
  <2>4. \A r \in Uploads : pc'[r] \in {"commit", "record"} => file'[r] # None
    BY <1>1, <1>3 DEF IngestionInv, IngestionTypeOK
  <2> QED BY <1>1, <2>1, <2>2, <2>3, <2>4 DEF IngestionInv, IngestionTypeOK
<1>6. ASSUME NEW r \in Uploads PROVE Traces(r)'
  <2>1. Trail(r)' = Trail(r) /\ file'[r] = file[r]
    BY <1>1 DEF Trail
  <2>2. CASE r # q
    <3>1. Kept(r)' = Kept(r)
      BY <1>2, <2>2 DEF Kept
    <3>2. batches'[r] = batches[r] /\ pc'[r] = pc[r]
      BY <1>1, <1>2, <2>2 DEF IngestionInv, IngestionTypeOK
    <3> QED BY <2>1, <3>1, <3>2, Untouched DEF IngestionInv
  <2>3. CASE r = q /\ UNCHANGED <<batches, stored>> /\ pc' = [pc EXCEPT ![q] = "done"]
    <3>1. Kept(q)' = Kept(q) /\ pc'[q] = "done"
      BY <2>3 DEF Kept, IngestionInv, IngestionTypeOK
    <3> QED BY <1>3, <2>1, <2>3, <3>1, Untouched
  <2>4. CASE /\ r = q
             /\ batches' = [batches EXCEPT ![q] = Finalized(q)]
             /\ stored' = stored \cup ({q} \X Accepted(q))
    <3>1. /\ Finalized(q)' = Finalized(q)
          /\ Accepted(q)' = Accepted(q)
          /\ NoBatch' = NoBatch
      BY <2>1, <2>4 DEF Finalized, Accepted, Rejected, RowsThatAre, Rows, NoBatch
    <3>2. Kept(q)' = Kept(q) \cup Accepted(q)
      BY <1>4, <2>4 DEF Kept
    <3>3. Kept(q) = {} /\ Trail(q)' = {}
      BY <1>3, <2>1, <2>4 DEF Traces
    <3>4. batches'[q] = Finalized(q) /\ Finalized(q) # NoBatch
      BY <1>3, <2>4, FinalizedFacts DEF IngestionInv, IngestionTypeOK
    <3>5. pc'[q] \in {"record", "done"} /\ file'[q] # None
      BY <1>1, <1>3, <2>1, <2>4, FileAssumption DEF IngestionInv, IngestionTypeOK
    <3> QED BY <2>4, <3>1, <3>2, <3>3, <3>4, <3>5 DEF Traces
  <2> QED BY <1>2, <2>2, <2>3, <2>4
<1> QED BY <1>5, <1>6 DEF IngestionInv

LEMMA RecordStep ==
    ASSUME IngestionInv, NEW q \in Uploads, Record(q)
    PROVE  IngestionInv'
<1>1. /\ pc[q] = "record"
      /\ pc' = [pc EXCEPT ![q] = "done"] /\ answer' = [answer EXCEPT ![q] = 201]
      /\ UNCHANGED <<up, ttlIndex, batches, stored, file, reader>>
  BY DEF Record, Finish
<1>2. PICK part \in SUBSET Documents(q) : trail' = trail \cup part
  BY DEF Record
<1>3. /\ Traces(q) /\ file[q] \in Files /\ batches[q] # NoBatch
  BY <1>1 DEF IngestionInv, IngestionTypeOK, Traces
<1>4. Documents(q) = {q} \X Rejected(q) /\ Rejected(q) \subseteq Indices
  BY <1>3, RowFacts DEF Documents
<1>5. IngestionTypeOK'
  <2>1. trail' \subseteq Uploads \X Indices
    BY <1>2, <1>4 DEF IngestionInv, IngestionTypeOK
  <2>2. /\ pc' \in [Uploads -> {"new", "commit", "record", "done"}]
        /\ answer' \in [Uploads -> {0, 201, 400, 413, 415, 500}]
        /\ \A r \in Uploads : pc'[r] \in {"commit", "record"} => file'[r] # None
    BY <1>1 DEF IngestionInv, IngestionTypeOK
  <2> QED BY <1>1, <2>1, <2>2 DEF IngestionInv, IngestionTypeOK
<1>6. ASSUME NEW r \in Uploads PROVE Traces(r)'
  <2>1. /\ Kept(r)' = Kept(r) /\ file'[r] = file[r] /\ batches'[r] = batches[r]
    BY <1>1 DEF Kept
  <2>2. CASE r # q
    <3>1. Trail(r)' = Trail(r)
      BY <1>2, <1>4, <2>2 DEF Trail
    <3>2. pc'[r] = pc[r]
      BY <1>1, <2>2 DEF IngestionInv, IngestionTypeOK
    <3> QED BY <2>1, <3>1, <3>2, Untouched DEF IngestionInv
  <2>3. CASE r = q
    <3>1. /\ Finalized(q)' = Finalized(q)
          /\ Accepted(q)' = Accepted(q)
          /\ Rejected(q)' = Rejected(q)
          /\ NoBatch' = NoBatch
      BY <1>1 DEF Finalized, Accepted, Rejected, RowsThatAre, Rows, NoBatch
    <3>2. Trail(q)' \subseteq Trail(q) \cup Rejected(q)
      BY <1>2, <1>4 DEF Trail
    <3>3. Trail(q)' \subseteq Rejected(q)
      BY <1>3, <3>2 DEF Traces
    <3>4. pc'[q] = "done"
      BY <1>1 DEF IngestionInv, IngestionTypeOK
    <3> QED BY <1>3, <2>1, <2>3, <3>1, <3>3, <3>4 DEF Traces
  <2> QED BY <2>2, <2>3
<1> QED BY <1>5, <1>6 DEF IngestionInv

LEMMA EnvironmentStep ==
    ASSUME IngestionInv, Start \/ Crash \/ \E d \in trail : Expire(d)
    PROVE  IngestionInv'
<1>1. /\ UNCHANGED <<batches, stored, file, answer>>
      /\ trail' \subseteq trail
  BY DEF Start, Crash, Expire
<1>2. \/ UNCHANGED pc
      \/ pc' = [q \in Uploads |-> IF pc[q] = "new" THEN "new" ELSE "done"]
  BY DEF Start, Crash, Expire
<1>3. reader' = reader \/ reader' = NoPage
  BY DEF Start, Crash, Expire
<1>4. up' \in BOOLEAN /\ ttlIndex' \in BOOLEAN
  <2>1. up \in BOOLEAN /\ ttlIndex \in BOOLEAN /\ Configured \in BOOLEAN
    BY FileAssumption DEF IngestionInv, IngestionTypeOK
  <2>2. up' \in {up, TRUE, FALSE}
    BY DEF Start, Crash, Expire
  <2>3. ttlIndex' \in {ttlIndex, ttlIndex \/ Configured}
    BY DEF Start, Crash, Expire
  <2> QED BY <2>1, <2>2, <2>3
<1>5. IngestionTypeOK'
  <2>1. /\ NoPage \in [at : {"idle", "list", "count", "page"}, batch : {None} \cup Uploads,
                       known : SUBSET Indices, items : SUBSET Indices, total : Nat]
        /\ NoPage.at = "idle"
    BY DEF NoPage, Page
  <2>2. /\ reader' \in [at : {"idle", "list", "count", "page"}, batch : {None} \cup Uploads,
                        known : SUBSET Indices, items : SUBSET Indices, total : Nat]
        /\ reader'.at # "idle" => reader'.batch \in Uploads
    BY <1>3, <2>1 DEF IngestionInv, IngestionTypeOK
  <2>3. /\ pc' \in [Uploads -> {"new", "commit", "record", "done"}]
        /\ \A r \in Uploads : pc'[r] \in {"commit", "record"} => file'[r] # None
    BY <1>1, <1>2 DEF IngestionInv, IngestionTypeOK
  <2> QED BY <1>1, <1>4, <2>2, <2>3 DEF IngestionInv, IngestionTypeOK
<1>6. ASSUME NEW r \in Uploads PROVE Traces(r)'
  <2>1. /\ Kept(r)' = Kept(r) /\ Trail(r)' \subseteq Trail(r)
        /\ file'[r] = file[r] /\ batches'[r] = batches[r]
    BY <1>1 DEF Kept, Trail
  <2>2. /\ Finalized(r)' = Finalized(r)
        /\ Accepted(r)' = Accepted(r)
        /\ Rejected(r)' = Rejected(r)
        /\ NoBatch' = NoBatch
    BY <1>1 DEF Finalized, Accepted, Rejected, RowsThatAre, Rows, NoBatch
  <2>3. /\ pc'[r] \in {"new", "commit"} => pc[r] \in {"new", "commit"}
        /\ pc'[r] = "record" => pc[r] = "record"
    BY <1>2
  <2> QED BY <2>1, <2>2, <2>3 DEF Traces, IngestionInv
<1> QED BY <1>5, <1>6 DEF IngestionInv

LEMMA InvStep == IngestionInv /\ [Next]_vars => IngestionInv'
<1> SUFFICES ASSUME IngestionInv, [Next]_vars PROVE IngestionInv'
  OBVIOUS
<1>1. CASE \E q \in Uploads, f \in Files : Receive(q, f)
  BY <1>1, ReceiveStep
<1>2. CASE \E q \in Uploads : Commit(q)
  BY <1>2, CommitStep
<1>3. CASE \E q \in Uploads : Record(q)
  BY <1>3, RecordStep
<1>4. CASE (\E q \in Uploads : AskForRejections(q)) \/ ListForBatch \/ CountForBatch \/ ClosePage
  BY <1>4, ReaderStep
<1>5. CASE Start \/ Crash \/ \E d \in trail : Expire(d)
  BY <1>5, EnvironmentStep
<1>6. CASE UNCHANGED vars
  <2>1. UNCHANGED <<up, ttlIndex, batches, stored, trail, pc, file, answer, reader>>
    BY <1>6 DEF vars
  <2>2. IngestionTypeOK'
    BY <2>1 DEF IngestionInv, IngestionTypeOK
  <2>3. ASSUME NEW q \in Uploads PROVE Traces(q)'
    <3>1. Kept(q)' = Kept(q) /\ Trail(q)' = Trail(q)
      BY <2>1 DEF Kept, Trail
    <3> QED BY <2>1, <3>1, Untouched DEF IngestionInv
  <2> QED BY <2>2, <2>3 DEF IngestionInv
<1> QED BY <1>1, <1>2, <1>3, <1>4, <1>5, <1>6 DEF Next, Serve

(* The inductive invariant: nothing of an upload is visible before its      *)
(* commit, its rows and its summary agree from then on (upload_batch).      *)
THEOREM IngestionInvariant == Spec => []IngestionInv
BY InvInit, InvStep, PTL DEF Spec

LEMMA InvImpliesAccounted == IngestionInv => EveryRowIsAccountedFor
<1> SUFFICES ASSUME IngestionInv, NEW q \in Uploads, batches[q] # NoBatch
             PROVE  /\ Kept(q) \cup batches[q].rejected_rows = Rows(q)
                    /\ Kept(q) \cap batches[q].rejected_rows = {}
                    /\ Cardinality(Kept(q)) = batches[q].accepted
                    /\ batches[q].row_count =
                         batches[q].accepted + Cardinality(batches[q].rejected_rows)
  BY DEF EveryRowIsAccountedFor
<1>1. /\ file[q] \in Files
      /\ batches[q] = Finalized(q)
      /\ Kept(q) = Accepted(q)
  BY DEF IngestionInv, IngestionTypeOK, Traces
<1>2. /\ batches[q].rejected_rows = Rejected(q)
      /\ batches[q].accepted = Cardinality(Accepted(q))
      /\ batches[q].row_count = Cardinality(Rows(q))
      /\ Cardinality(Rows(q)) = Cardinality(Accepted(q)) + Cardinality(Rejected(q))
  BY <1>1, FinalizedFacts
<1>3. Accepted(q) \cup Rejected(q) = Rows(q) /\ Accepted(q) \cap Rejected(q) = {}
  BY <1>1, RowFacts
<1> QED BY <1>1, <1>2, <1>3

(* No row of a committed batch is lost or counted twice (ingest_batch and   *)
(* finalize).                                                               *)
THEOREM RowsAreAccountedFor == Spec => []EveryRowIsAccountedFor
BY IngestionInvariant, InvImpliesAccounted, PTL

(* The trail never references a batch that does not exist, nor a row that   *)
(* was not rejected (the write comes after the relational commit).          *)
THEOREM TrailReferencesCommittedBatches == Spec => []TrailFollowsBatch
<1>1. IngestionInv => TrailFollowsBatch
  <2> SUFFICES ASSUME IngestionInv, NEW q \in Uploads
               PROVE  Trail(q) \subseteq batches[q].rejected_rows
    BY DEF TrailFollowsBatch
  <2>1. Traces(q) /\ file[q] \in {None} \cup Files
    BY DEF IngestionInv, IngestionTypeOK
  <2>2. CASE batches[q] = NoBatch
    BY <2>1, <2>2 DEF Traces
  <2>3. CASE batches[q] # NoBatch
    <3>1. file[q] \in Files /\ batches[q] = Finalized(q) /\ Trail(q) \subseteq Rejected(q)
      BY <2>1, <2>3 DEF Traces
    <3> QED BY <3>1, FinalizedFacts
  <2> QED BY <2>2, <2>3
<1> QED BY <1>1, IngestionInvariant, PTL

(* A batch and its transactions become visible in one step and do not       *)
(* change afterwards (one relational transaction per upload).               *)
THEOREM BatchesAreAtomic == Spec => BatchesAppearAtOnce
<1> DEFINE Atomic(q) == \/ batches'[q] = batches[q] /\ Kept(q)' = Kept(q)
                        \/ batches[q] = NoBatch /\ EveryRowIsAccountedFor'
<1>0. IngestionInv' => EveryRowIsAccountedFor'
  BY InvImpliesAccounted, PTL
<1>1. IngestionInv /\ IngestionInv' /\ [Next]_vars => [\A q \in Uploads : Atomic(q)]_vars
  <2> SUFFICES ASSUME IngestionInv, IngestionInv', [Next]_vars, NEW q \in Uploads
               PROVE  Atomic(q)
    OBVIOUS
  <2>1. CASE UNCHANGED <<batches, stored>>
    BY <2>1 DEF Kept
  <2>2. ASSUME NEW r \in Uploads, Commit(r) PROVE Atomic(q)
    <3>1. CASE UNCHANGED <<batches, stored>>
      BY <3>1 DEF Kept
    <3>2. CASE /\ batches' = [batches EXCEPT ![r] = Finalized(r)]
               /\ stored' = stored \cup ({r} \X Accepted(r))
      <4>1. CASE q # r
        BY <3>2, <4>1 DEF Kept, IngestionInv, IngestionTypeOK
      <4>2. CASE q = r
        <5>1. Traces(r) /\ pc[r] = "commit"
          BY <2>2 DEF IngestionInv, Commit
        <5>2. batches[r] = NoBatch
          BY <5>1 DEF Traces
        <5>3. EveryRowIsAccountedFor'
          BY <1>0
        <5> QED BY <4>2, <5>2, <5>3
      <4> QED BY <4>1, <4>2
    <3> QED BY <2>2, <3>1, <3>2 DEF Commit
  <2>3. CASE ~ \E r \in Uploads : Commit(r)
    <3>1. UNCHANGED <<batches, stored>>
      BY <2>3 DEF Next, Serve, Start, Receive, Record, AskForRejections, ListForBatch,
                  CountForBatch, ClosePage, Expire, Crash, vars
    <3> QED BY <2>1, <3>1
  <2> QED BY <2>2, <2>3
<1> QED BY <1>1, IngestionInvariant, PTL DEF Spec, BatchesAppearAtOnce

-----------------------------------------------------------------------------
(* An upload that is over changes no more, except that its trail expires;   *)
(* one that is not has no trail yet and no answer.                          *)
Settled(q) ==
    /\ pc[q] # "done" => answer[q] = 0 /\ Trail(q) = {}
    /\ answer[q] >= 400 => Trail(q) = {} /\ (batches[q] = NoBatch \/ answer[q] = 500)

LEMMA Progress ==
    ASSUME IngestionInv, [Next]_vars, NEW q \in Uploads
    PROVE  /\ batches[q] # NoBatch => batches'[q] = batches[q]
           /\ pc[q] = "done" =>
                pc'[q] = "done" /\ answer'[q] = answer[q] /\ Trail(q)' \subseteq Trail(q)
           /\ pc'[q] # "done" => answer'[q] = answer[q] /\ Trail(q)' \subseteq Trail(q)
           /\ pc[q] # "record" => Trail(q)' \subseteq Trail(q)
           /\ batches[q] # NoBatch /\ answer[q] = 0 => answer'[q] \in {0, 201}
           /\ answer'[q] # answer[q] =>
                Commit(q) \/ Record(q) \/ \E f \in Files : Receive(q, f)
<1>1. /\ Traces(q)
      /\ pc \in [Uploads -> {"new", "commit", "record", "done"}]
      /\ answer \in [Uploads -> {0, 201, 400, 413, 415, 500}]
      /\ batches \in [Uploads -> [status : {"absent", "completed", "failed"},
                                  row_count : Nat, accepted : Nat,
                                  rejected_rows : SUBSET Indices]]
  BY DEF IngestionInv, IngestionTypeOK
<1>2. ASSUME NEW r \in Uploads, NEW f \in Files, Receive(r, f)
      PROVE  /\ pc[r] = "new" /\ UNCHANGED <<batches, trail>>
             /\ \A u \in Uploads : u # r => pc'[u] = pc[u] /\ answer'[u] = answer[u]
             /\ pc'[r] = "done" \/ answer'[r] = answer[r]
  BY <1>1, <1>2 DEF Receive, Finish
<1>3. ASSUME NEW r \in Uploads, Commit(r)
      PROVE  /\ pc[r] = "commit" /\ trail' = trail
             /\ \A u \in Uploads : u # r =>
                  pc'[u] = pc[u] /\ answer'[u] = answer[u] /\ batches'[u] = batches[u]
             /\ pc'[r] = "done" \/ answer'[r] = answer[r]
  BY <1>1, <1>3 DEF Commit, Finish
<1>4. ASSUME NEW r \in Uploads, Record(r)
      PROVE  /\ pc[r] = "record" /\ batches' = batches
             /\ pc'[r] = "done" /\ answer'[r] = 201
             /\ \A u \in Uploads : u # r => pc'[u] = pc[u] /\ answer'[u] = answer[u]
             /\ \A u \in Uploads : u # r => Trail(u)' = Trail(u)
  <2>1. /\ pc[r] = "record" /\ batches' = batches
        /\ pc'[r] = "done" /\ answer'[r] = 201
        /\ \A u \in Uploads : u # r => pc'[u] = pc[u] /\ answer'[u] = answer[u]
    BY <1>1, <1>4 DEF Record, Finish
  <2>2. PICK part \in SUBSET Documents(r) : trail' = trail \cup part
    BY <1>4 DEF Record
  <2> QED BY <2>1, <2>2 DEF Trail, Documents
<1>5. ASSUME Start \/ Crash \/ \E d \in trail : Expire(d)
      PROVE  /\ UNCHANGED <<batches, answer>> /\ Trail(q)' \subseteq Trail(q)
             /\ pc[q] = "done" => pc'[q] = "done"
  BY <1>5 DEF Start, Crash, Expire, Trail
<1>6. ASSUME \/ \E r \in Uploads : AskForRejections(r)
             \/ ListForBatch \/ CountForBatch \/ ClosePage \/ UNCHANGED vars
      PROVE  UNCHANGED <<batches, trail, pc, answer>>
  BY <1>6 DEF AskForRejections, ListForBatch, CountForBatch, ClosePage, vars
<1>7. trail' = trail => Trail(q)' = Trail(q)
  BY DEF Trail
<1>8. CASE \E r \in Uploads, f \in Files : Receive(r, f)
  BY <1>1, <1>2, <1>7, <1>8 DEF Traces
<1>9. CASE \E r \in Uploads : Commit(r)
  BY <1>1, <1>3, <1>7, <1>9 DEF Traces
<1>10. CASE \E r \in Uploads : Record(r)
  BY <1>1, <1>4, <1>10
<1> QED BY <1>5, <1>6, <1>7, <1>8, <1>9, <1>10 DEF Next, Serve

LEMMA SettledInit == Init => \A q \in Uploads : Settled(q)
BY DEF Init, Settled, Trail

LEMMA SettledStep ==
    IngestionInv /\ (\A q \in Uploads : Settled(q)) /\ [Next]_vars
        => \A q \in Uploads : Settled(q)'
<1> SUFFICES ASSUME IngestionInv, [Next]_vars, NEW q \in Uploads, Settled(q)
             PROVE  Settled(q)'
  OBVIOUS
<1>1. NoBatch' = NoBatch
  BY DEF NoBatch
<1>2. pc'[q] # "done" => answer'[q] = 0 /\ Trail(q)' = {}
  BY Progress DEF Settled
<1>3. CASE pc[q] = "done"
  <2>1. ASSUME answer'[q] >= 400
        PROVE  Trail(q)' = {} /\ (batches'[q] = NoBatch \/ answer'[q] = 500)
    <3>1. answer'[q] = answer[q] /\ Trail(q)' \subseteq Trail(q)
      BY <1>3, Progress
    <3>2. batches'[q] = batches[q]
      <4>1. CASE batches[q] # NoBatch
        BY <4>1, Progress
      <4>2. CASE batches[q] = NoBatch
        BY <1>3, <4>2
           DEF IngestionInv, IngestionTypeOK, Next, Serve, Start, Receive, Commit, Record,
               AskForRejections, ListForBatch, CountForBatch, ClosePage, Expire, Crash, vars
      <4> QED BY <4>1, <4>2
    <3> QED BY <2>1, <3>1, <3>2 DEF Settled
  <2> QED BY <1>1, <1>2, <2>1 DEF Settled
<1>4. CASE pc[q] # "done"
  <2>1. answer[q] = 0 /\ Trail(q) = {} /\ Traces(q) /\ answer[q] \in Nat
    BY <1>4 DEF Settled, IngestionInv
  <2>2. CASE answer'[q] = answer[q]
    BY <1>1, <1>2, <2>1, <2>2 DEF Settled
  <2>3. ASSUME NEW f \in Files, Receive(q, f)
        PROVE  Trail(q)' = {} /\ batches'[q] = NoBatch
    BY <2>1, <2>3 DEF Receive, Traces, Trail
  <2>4. ASSUME Commit(q), answer'[q] # answer[q]
        PROVE  Trail(q)' = {} /\ answer'[q] = 500
    <3>1. trail' = trail /\ answer'[q] = 500
      BY <2>4 DEF Commit, Finish, IngestionInv, IngestionTypeOK
    <3> QED BY <2>1, <3>1 DEF Trail
  <2>5. ASSUME Record(q) PROVE answer'[q] = 201
    BY <2>5 DEF Record, Finish, IngestionInv, IngestionTypeOK
  <2>6. CASE ~ (Commit(q) \/ Record(q) \/ \E f \in Files : Receive(q, f))
    BY <2>2, <2>6, Progress
  <2>7. 0 >= 400 <=> FALSE /\ ~ (201 >= 400)
    OBVIOUS
  <2> QED BY <1>1, <1>2, <2>2, <2>3, <2>4, <2>5, <2>6, <2>7 DEF Settled
<1> QED BY <1>3, <1>4

(* An upload answered with an error left nothing, or, after a commit that   *)
(* was applied all the same, its whole batch and no trail (upload_batch).   *)
THEOREM ErrorsAreAllOrNothing == Spec => []ErrorsLeaveAllOrNothing
<1>1. IngestionInv /\ (\A q \in Uploads : Settled(q)) => ErrorsLeaveAllOrNothing
  BY DEF IngestionInv, Traces, Settled, ErrorsLeaveAllOrNothing
<1>2. (\A q \in Uploads : Settled(q)') <=> (\A q \in Uploads : Settled(q))'
  OBVIOUS
<1> QED BY <1>1, <1>2, InvInit, InvStep, SettledInit, SettledStep, PTL DEF Spec

(* "A MongoDB outage never fails an upload PostgreSQL already accepted".    *)
THEOREM OutagesNeverFailUploads == Spec => OutageNeverFailsUpload
<1>1. IngestionInv /\ [Next]_vars =>
        [\A q \in Uploads : batches[q] # NoBatch /\ answer[q] = 0 =>
           answer'[q] \in {0, 201}]_vars
  BY Progress
<1> QED BY <1>1, InvInit, InvStep, PTL DEF Spec, OutageNeverFailsUpload

-----------------------------------------------------------------------------
(* A page of the trail in the making.  What was known when it was asked for *)
(* is only ever lost by expiry, because an upload writes its trail once.    *)
PageInv ==
    LET q == reader.batch IN
    reader.at # "idle" =>
        /\ batches[q] # NoBatch
        /\ pc[q] # "done" => reader.known = {}
        /\ reader.at # "list" =>
             /\ reader.known \cap Trail(q) \subseteq reader.items
             /\ reader.items \subseteq batches[q].rejected_rows
        /\ reader.at = "page" => Cardinality(reader.known \cap Trail(q)) <= reader.total

LEMMA PageInit == Init => PageInv
BY DEF Init, PageInv, NoPage, Page

(* Whatever other requests and the TTL monitor do, the page stays complete. *)
LEMMA PageSurvives ==
    ASSUME IngestionInv, IngestionInv', PageInv, [Next]_vars, reader' = reader
    PROVE  PageInv'
<1> SUFFICES ASSUME reader.at # "idle" PROVE PageInv'
  BY DEF PageInv
<1> DEFINE q == reader.batch
           now == reader.known \cap Trail(q)
           later == reader.known \cap Trail(q)'
<1>1. q \in Uploads /\ batches[q] # NoBatch /\ reader.total \in Nat
  BY DEF IngestionInv, IngestionTypeOK, PageInv
<1>2. batches'[q] = batches[q] /\ NoBatch' = NoBatch
  BY <1>1, Progress DEF NoBatch
<1>3. pc'[q] # "done" => pc[q] # "done"
  BY <1>1, Progress
<1>4. later \subseteq now
  BY <1>1, Progress DEF PageInv
<1>5. IsFiniteSet(now)
  BY <1>1, TrailIsFinite, FS_Subset
<1>6. Cardinality(later) <= Cardinality(now) /\ IsFiniteSet(later)
  BY <1>4, <1>5, FS_Subset
<1>7. Cardinality(later) \in Nat /\ Cardinality(now) \in Nat
  BY <1>5, <1>6, FS_CardinalityType
<1>8. reader.at = "page" => Cardinality(later) <= reader.total
  BY <1>1, <1>6, <1>7 DEF PageInv
<1>9. reader.at # "list" => later \subseteq reader.items
  BY <1>4 DEF PageInv
<1> QED BY <1>1, <1>2, <1>3, <1>8, <1>9 DEF PageInv

LEMMA PageStep ==
    IngestionInv /\ IngestionInv' /\ (\A q \in Uploads : Settled(q)) /\ PageInv /\ [Next]_vars
        => PageInv'
<1> SUFFICES ASSUME IngestionInv, IngestionInv', \A q \in Uploads : Settled(q), PageInv,
                    [Next]_vars
             PROVE  PageInv'
  OBVIOUS
<1>1. CASE reader' = reader
  BY <1>1, PageSurvives
<1>2. CASE reader' = NoPage
  BY <1>2 DEF PageInv, NoPage, Page
<1>3. ASSUME NEW q \in Uploads, AskForRejections(q) PROVE PageInv'
  <2>1. /\ reader' = Page("list", q, Trail(q), {}, 0) /\ batches[q] # NoBatch
        /\ UNCHANGED <<batches, trail, pc>>
    BY <1>3 DEF AskForRejections
  <2>2. pc[q] # "done" => Trail(q) = {}
    BY DEF Settled
  <2> QED BY <2>1, <2>2 DEF PageInv, Page, NoBatch
<1>4. CASE ListForBatch /\ reader' # NoPage
  <2>1. /\ reader.at = "list" /\ UNCHANGED <<batches, trail, pc>>
        /\ reader' = Page("count", reader.batch, reader.known, Trail(reader.batch), 0)
    BY <1>4 DEF ListForBatch
  <2>2. PICK q \in Uploads : q = reader.batch
    BY <2>1 DEF IngestionInv, IngestionTypeOK
  <2>3. /\ batches[q] # NoBatch
        /\ pc[q] # "done" => reader.known = {}
    BY <2>1, <2>2 DEF PageInv
  <2>4. Trail(q) \subseteq batches[q].rejected_rows
    <3>1. /\ file[q] \in Files /\ batches[q] = Finalized(q) /\ Trail(q) \subseteq Rejected(q)
      BY <2>3 DEF IngestionInv, IngestionTypeOK, Traces
    <3> QED BY <3>1, FinalizedFacts
  <2>5. /\ reader'.at = "count" /\ reader'.batch = q /\ reader'.known = reader.known
        /\ reader'.items = Trail(q)
    BY <2>1, <2>2 DEF Page
  <2>6. Trail(q)' = Trail(q) /\ NoBatch' = NoBatch
    BY <2>1 DEF Trail, NoBatch
  <2> QED BY <2>1, <2>3, <2>4, <2>5, <2>6 DEF PageInv
<1>5. CASE CountForBatch /\ reader' # NoPage
  <2>1. /\ reader.at = "count" /\ UNCHANGED <<batches, trail, pc>>
        /\ reader' = Page("page", reader.batch, reader.known, reader.items,
                          Cardinality(Trail(reader.batch)))
    BY <1>5 DEF CountForBatch
  <2>2. PICK q \in Uploads : q = reader.batch
    BY <2>1 DEF IngestionInv, IngestionTypeOK
  <2>3. Cardinality(reader.known \cap Trail(q)) <= Cardinality(Trail(q))
    BY <2>2, TrailIsFinite, FS_Subset
  <2>4. /\ reader'.at = "page" /\ reader'.batch = q /\ reader'.known = reader.known
        /\ reader'.items = reader.items /\ reader'.total = Cardinality(Trail(q))
    BY <2>1, <2>2 DEF Page
  <2>5. Trail(q)' = Trail(q) /\ NoBatch' = NoBatch
    BY <2>1 DEF Trail, NoBatch
  <2> QED BY <2>1, <2>2, <2>3, <2>4, <2>5 DEF PageInv
<1>6. \/ reader' \in {reader, NoPage}
      \/ \E q \in Uploads : AskForRejections(q)
      \/ ListForBatch \/ CountForBatch
  BY DEF Next, Serve, Start, Receive, Commit, Record, ClosePage, Expire, Crash, vars
<1> QED BY <1>1, <1>2, <1>3, <1>4, <1>5, <1>6

(* A page of rejections lists all that was there when it was asked for and  *)
(* has not expired, and rejected rows only; an outage gives no page at all  *)
(* (list_batch_rejections).                                                 *)
THEOREM PagesMissNothing == Spec => []PagesAreComplete
<1>1. PageInv => PagesAreComplete
  BY DEF PageInv, PagesAreComplete
<1>2. (\A q \in Uploads : Settled(q)') <=> (\A q \in Uploads : Settled(q))'
  OBVIOUS
<1> QED
  BY <1>1, <1>2, InvInit, InvStep, SettledInit, SettledStep, PageInit, PageStep, PTL DEF Spec
=============================================================================
