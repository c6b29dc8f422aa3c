------------------------------ MODULE Ingestion ------------------------------
(***************************************************************************)
(* upload_batch and the rejection trail.  A batch and its transactions are *)
(* one PostgreSQL transaction; after its commit the raw payloads of the    *)
(* rejected rows are written to MongoDB, best effort, by a thread of the   *)
(* pool, so that other requests, a crash and MongoDB's TTL monitor fall    *)
(* between the two databases.                                              *)
(***************************************************************************)
EXTENDS Naturals, FiniteSets

CONSTANTS
    Uploads,        \* requests; a client that retries sends another one
    Files,          \* what may be uploaded: [refused, rows], see FileAssumption
    Configured,     \* MONGO_URL is set
    Faults,         \* failures the environment may inject, see AllFaults
    None            \* no batch

(* "mongo": the server does not answer (what it had done so far stays).    *)
(* "commit_lost" / "commit_ambiguous": the commit raises, and was not /    *)
(* was applied.  "crash": the API process dies.                            *)
AllFaults == {"mongo", "commit_lost", "commit_ambiguous", "crash"}

(* A row is malformed (TransactionRowSchema rejects it), fine, or          *)
(* well-formed but too much for its column (NUMERIC(18, 2), NUL in text).  *)
RowKinds == {"malformed", "fine", "unstorable"}

(* A file is refused as a whole with a status code, before anything is     *)
(* written, or consists of rows.                                           *)
ASSUME FileAssumption ==
    /\ \A f \in Files : /\ f.refused \in {0, 400, 413, 415}
                        /\ f.rows \in [DOMAIN f.rows -> RowKinds]
                        /\ DOMAIN f.rows \subseteq Nat /\ IsFiniteSet(DOMAIN f.rows)
    /\ Configured \in BOOLEAN
    /\ Faults \subseteq AllFaults
    /\ None \notin Files

VARIABLES
    up,         \* the API process runs
    ttlIndex,   \* the TTL index exists
    batches,    \* per upload: its committed batches row
    stored,     \* committed transactions, <<upload, row index>>
    trail,      \* documents in ingestion_rejections, <<upload, row index>>
    pc,         \* per upload: "new", "commit", "record", "done"
    file,       \* per upload: the uploaded file
    answer,     \* per upload: the status code answered, 0 while there is none
    reader      \* a request of GET /batches/{id}/rejections

vars == <<up, ttlIndex, batches, stored, trail, pc, file, answer, reader>>

-----------------------------------------------------------------------------
Indices == UNION {DOMAIN f.rows : f \in Files}
Rows(q) == DOMAIN file[q].rows
RowsThatAre(kind, q) == {i \in Rows(q) : file[q].rows[i] = kind}
Rejected(q) == RowsThatAre("malformed", q)

(* Faulty: the rejected rows are not left out of the batch's transactions. *)
AcceptedWithRejected(q) == Rows(q)

Accepted(q) == Rows(q) \ Rejected(q)

Documents(q) == {q} \X Rejected(q)
Trail(q) == {i \in Indices : <<q, i>> \in trail}
Kept(q) == {i \in Indices : <<q, i>> \in stored}

NoBatch == [status |-> "absent", row_count |-> 0, accepted |-> 0, rejected_rows |-> {}]

(* A page of rejections in the making: known are the documents that were   *)
(* there when it was asked for.                                            *)
Page(at, q, known, items, total) ==
    [at |-> at, batch |-> q, known |-> known, items |-> items, total |-> total]
NoPage == Page("idle", None, {}, {}, 0)

IngestionTypeOK ==
    /\ up \in BOOLEAN /\ ttlIndex \in BOOLEAN
    /\ batches \in [Uploads -> [status : {"absent", "completed", "failed"},
                                row_count : Nat, accepted : Nat,
                                rejected_rows : SUBSET Indices]]
    /\ stored \subseteq Uploads \X Indices
    /\ trail \subseteq Uploads \X Indices
    /\ pc \in [Uploads -> {"new", "commit", "record", "done"}]
    /\ file \in [Uploads -> {None} \cup Files]
    /\ answer \in [Uploads -> {0, 201, 400, 413, 415, 500}]
    /\ reader \in [at : {"idle", "list", "count", "page"}, batch : {None} \cup Uploads,
                   known : SUBSET Indices, items : SUBSET Indices, total : Nat]
    /\ \A q \in Uploads : pc[q] \in {"commit", "record"} => file[q] # None
    /\ reader.at # "idle" => reader.batch \in Uploads

Init ==
    /\ up = FALSE
    /\ ttlIndex = FALSE
    /\ batches = [q \in Uploads |-> NoBatch]
    /\ stored = {}
    /\ trail = {}
    /\ pc = [q \in Uploads |-> "new"]
    /\ file = [q \in Uploads |-> None]
    /\ answer = [q \in Uploads |-> 0]
    /\ reader = NoPage

Finish(q, status) ==
    /\ pc' = [pc EXCEPT ![q] = "done"]
    /\ answer' = [answer EXCEPT ![q] = status]

-----------------------------------------------------------------------------
(* Faulty variants of the definitions below, each a plausible mistake.     *)

(* The batch row is committed when it is created, its content later.       *)
CommitInTwoSteps(q) ==
    /\ up /\ pc[q] = "commit"
    /\ \/ /\ batches[q] = NoBatch
          /\ batches' = [batches EXCEPT ![q] =
                 [status |-> "failed", row_count |-> 0, accepted |-> 0, rejected_rows |-> {}]]
          /\ stored' = stored \cup ({q} \X RowsThatAre("fine", q))
          /\ UNCHANGED <<pc, answer>>
       \/ /\ batches[q] # NoBatch
          /\ IF RowsThatAre("unstorable", q) # {} THEN Finish(q, 500)
             ELSE pc' = [pc EXCEPT ![q] = "record"] /\ UNCHANGED answer
          /\ UNCHANGED <<batches, stored>>
    /\ UNCHANGED <<up, ttlIndex, trail, file, reader>>

(* The trail is written while the batch is not committed.                  *)
RecordFirst(q, f) ==
    /\ up /\ pc[q] = "new"
    /\ file' = [file EXCEPT ![q] = f]
    /\ IF f.refused # 0 THEN Finish(q, f.refused) /\ UNCHANGED trail
       ELSE /\ pc' = [pc EXCEPT ![q] = "commit"] /\ UNCHANGED answer
            /\ trail' = trail \cup ({q} \X {i \in DOMAIN f.rows : f.rows[i] = "malformed"})
    /\ UNCHANGED <<up, ttlIndex, batches, stored, reader>>

(* record's exception reaches the client.                                  *)
RecordOrFail(q) ==
    /\ up /\ pc[q] = "record"
    /\ \/ trail' = trail \cup Documents(q) /\ Finish(q, 201)
       \/ "mongo" \in Faults /\ UNCHANGED trail /\ Finish(q, 500)
    /\ UNCHANGED <<up, ttlIndex, batches, stored, file, reader>>

(* A store that cannot be reached reads as an empty one.                   *)
ListOrNothing ==
    /\ up /\ reader.at = "list"
    /\ \/ reader' = Page("count", reader.batch, reader.known, Trail(reader.batch), 0)
       \/ "mongo" \in Faults /\ reader' = Page("page", reader.batch, reader.known, {}, 0)
    /\ UNCHANGED <<up, ttlIndex, batches, stored, trail, pc, file, answer>>

(* The index is dropped and created again at every start.                 *)
StartAfresh ==
    /\ ~ up
    /\ up' = TRUE
    /\ \/ ttlIndex' = Configured
       \/ "mongo" \in Faults /\ ttlIndex' = FALSE
    /\ UNCHANGED <<batches, stored, trail, pc, file, answer, reader>>

-----------------------------------------------------------------------------
(* The lifespan hook: ensure_mongo_indexes swallows a failure.             *)
Start ==
    /\ ~ up
    /\ up' = TRUE
    /\ \/ ttlIndex' = (ttlIndex \/ Configured)
       \/ "mongo" \in Faults /\ UNCHANGED ttlIndex
    /\ UNCHANGED <<batches, stored, trail, pc, file, answer, reader>>

(* The checks on the file as a whole, none of which writes anything.       *)
Receive(q, f) ==
    /\ up /\ pc[q] = "new"
    /\ file' = [file EXCEPT ![q] = f]
    /\ IF f.refused # 0 THEN Finish(q, f.refused)
       ELSE pc' = [pc EXCEPT ![q] = "commit"] /\ UNCHANGED answer
    /\ UNCHANGED <<up, ttlIndex, batches, stored, trail, reader>>

(* The batches row finalize leaves.                                        *)
Finalized(q) ==
    [status |-> IF Accepted(q) # {} THEN "completed" ELSE "failed",
     row_count |-> Cardinality(Rows(q)), accepted |-> Cardinality(Accepted(q)),
     rejected_rows |-> Rejected(q)]

(* ingest_batch and the commit.  A row the database cannot store makes the *)
(* flush raise an error upload_batch does not handle; the session is       *)
(* closed and everything rolled back.                                      *)
Commit(q) ==
    /\ up /\ pc[q] = "commit"
    /\ \/ /\ RowsThatAre("unstorable", q) = {}
          /\ batches' = [batches EXCEPT ![q] = Finalized(q)]
          /\ stored' = stored \cup ({q} \X Accepted(q))
          /\ \/ pc' = [pc EXCEPT ![q] = "record"] /\ UNCHANGED answer
             \/ "commit_ambiguous" \in Faults /\ Finish(q, 500)
       \/ /\ RowsThatAre("unstorable", q) # {} \/ "commit_lost" \in Faults
          /\ Finish(q, 500)
          /\ UNCHANGED <<batches, stored>>
    /\ UNCHANGED <<up, ttlIndex, trail, file, reader>>

(* record_rejections_best_effort and the answer.  insert_many is not       *)
(* ordered: a failure may leave any part of the documents.                 *)
Record(q) ==
    /\ up /\ pc[q] = "record"
    /\ \/ trail' = trail \cup (IF Configured THEN Documents(q) ELSE {})
       \/ /\ "mongo" \in Faults /\ Configured
          /\ \E part \in SUBSET Documents(q) : trail' = trail \cup part
    /\ Finish(q, 201)
    /\ UNCHANGED <<up, ttlIndex, batches, stored, file, reader>>

(* list_batch_rejections: two reads, with a limit no batch reaches.  A     *)
(* batch that is not committed is a 404, a store that is not configured or *)
(* does not answer a 503; neither gives a page.                            *)
AskForRejections(q) ==
    /\ up /\ reader.at = "idle"
    /\ batches[q] # NoBatch /\ Configured
    /\ reader' = Page("list", q, Trail(q), {}, 0)
    /\ UNCHANGED <<up, ttlIndex, batches, stored, trail, pc, file, answer>>

ListForBatch ==
    /\ up /\ reader.at = "list"
    /\ \/ reader' = Page("count", reader.batch, reader.known, Trail(reader.batch), 0)
       \/ "mongo" \in Faults /\ reader' = NoPage
    /\ UNCHANGED <<up, ttlIndex, batches, stored, trail, pc, file, answer>>

CountForBatch ==
    /\ up /\ reader.at = "count"
    /\ \/ reader' = Page("page", reader.batch, reader.known, reader.items,
                          Cardinality(Trail(reader.batch)))
       \/ "mongo" \in Faults /\ reader' = NoPage
    /\ UNCHANGED <<up, ttlIndex, batches, stored, trail, pc, file, answer>>

ClosePage ==
    /\ reader.at = "page"
    /\ reader' = NoPage
    /\ UNCHANGED <<up, ttlIndex, batches, stored, trail, pc, file, answer>>

(* MongoDB's TTL monitor; how long a document has lived is left open.      *)
Expire(d) ==
    /\ ttlIndex /\ d \in trail
    /\ trail' = trail \ {d}
    /\ UNCHANGED <<up, ttlIndex, batches, stored, pc, file, answer, reader>>

(* The process dies, and with it every request; nobody is answered.        *)
Crash ==
    /\ "crash" \in Faults
    /\ up
    /\ up' = FALSE
    /\ pc' = [q \in Uploads |-> IF pc[q] = "new" THEN "new" ELSE "done"]
    /\ reader' = NoPage
    /\ UNCHANGED <<ttlIndex, batches, stored, trail, file, answer>>

Serve(q) == Commit(q) \/ Record(q)

Next ==
    \/ Start
    \/ \E q \in Uploads, f \in Files : Receive(q, f)
    \/ \E q \in Uploads : Serve(q) \/ AskForRejections(q)
    \/ ListForBatch
    \/ CountForBatch
    \/ ClosePage
    \/ \E d \in trail : Expire(d)
    \/ Crash

Spec == Init /\ [][Next]_vars

(* MongoDB's TTL monitor runs once a minute.                               *)
Fairness == \A d \in Uploads \X Indices : WF_vars(Expire(d))

FairSpec == Spec /\ Fairness

-----------------------------------------------------------------------------
(* The properties.                                                         *)

(* No row is lost or counted twice: every row of a committed batch is      *)
(* either a stored transaction or listed in rejected_rows, and the counts  *)
(* of the row say so.                                                      *)
EveryRowIsAccountedFor ==
    \A q \in Uploads : batches[q] # NoBatch =>
        /\ Kept(q) \cup batches[q].rejected_rows = Rows(q)
        /\ Kept(q) \cap batches[q].rejected_rows = {}
        /\ Cardinality(Kept(q)) = batches[q].accepted
        /\ batches[q].row_count = batches[q].accepted + Cardinality(batches[q].rejected_rows)

(* The trail "can never reference a batch that doesn't exist", nor a row   *)
(* that was not rejected.                                                  *)
TrailFollowsBatch ==
    \A q \in Uploads : Trail(q) \subseteq batches[q].rejected_rows

(* An upload that was answered with an error left nothing behind in either *)
(* database, or (a commit that was applied all the same) its whole batch   *)
(* and no trail; never a part of it.                                       *)
ErrorsLeaveAllOrNothing ==
    \A q \in Uploads : answer[q] >= 400 =>
        /\ Trail(q) = {}
        /\ \/ batches[q] = NoBatch /\ Kept(q) = {}
           \/ answer[q] = 500 /\ batches[q] = Finalized(q) /\ Kept(q) = Accepted(q)

(* A page of the trail lists every document that was there when it was     *)
(* asked for and has not expired since; an outage never reads as "no       *)
(* rejections".                                                            *)
PagesAreComplete ==
    reader.at = "page" =>
        /\ reader.known \cap Trail(reader.batch) \subseteq reader.items
        /\ Cardinality(reader.known \cap Trail(reader.batch)) <= reader.total
        /\ reader.items \subseteq batches[reader.batch].rejected_rows

(* A batch and its transactions appear in one step, together, and never    *)
(* change again.                                                           *)
BatchesAppearAtOnce ==
    [][\A q \in Uploads :
         \/ batches'[q] = batches[q] /\ Kept(q)' = Kept(q)
         \/ batches[q] = NoBatch /\ EveryRowIsAccountedFor']_vars

(* "A MongoDB outage never fails an upload PostgreSQL already accepted":   *)
(* once its batch is there, an unanswered upload is only answered 201.     *)
OutageNeverFailsUpload ==
    [][\A q \in Uploads : batches[q] # NoBatch /\ answer[q] = 0 =>
         answer'[q] \in {0, 201}]_vars

(* "A bad-but-well-formed row is still stored": with no failure about, an  *)
(* upload that was not refused stores its well-formed rows.                *)
WellFormedRowsAreStored ==
    Faults = {} => \A q \in Uploads :
        pc[q] = "done" /\ file[q].refused = 0 => {q} \X Accepted(q) \subseteq stored

(* "Keep raw rejected input 90 days, then it's gone": once the TTL index   *)
(* has been created, whatever happens to the API or to MongoDB later, and  *)
(* however often the API starts again.                                     *)
TrailExpires ==
    \A d \in Uploads \X Indices : ttlIndex /\ d \in trail ~> d \notin trail

-----------------------------------------------------------------------------
(* Why the properties hold: an inductive invariant.  Nothing of an upload  *)
(* is visible before its commit, everything but the trail from then on.    *)
Traces(q) ==
    /\ pc[q] \in {"new", "commit"} => batches[q] = NoBatch
    /\ pc[q] = "record" => batches[q] # NoBatch
    /\ batches[q] = NoBatch => Kept(q) = {} /\ Trail(q) = {}
    /\ batches[q] # NoBatch =>
         /\ file[q] # None
         /\ batches[q] = Finalized(q)
         /\ Kept(q) = Accepted(q)
         /\ Trail(q) \subseteq Rejected(q)

IngestionInv == IngestionTypeOK /\ \A q \in Uploads : Traces(q)
=============================================================================
