------------------------- MODULE RequestPool_proofs -------------------------
(***************************************************************************)
(* PoolInv is an invariant for every number of requests, threads and       *)
(* connections; with it an upload never waits for a connection on the      *)
(* event loop, holds no connection while MongoDB is slow, and succeeds     *)
(* once its commit has returned.                                           *)
(***************************************************************************)
EXTENDS RequestPool, TLAPS

(* Nobody has arrived in an initial state.                                 *)
LEMMA PoolInit == Init => PoolInv
  BY PoolAssumption DEF Init, PoolInv, PoolTypeOK, RequestInv, TakesItsRoute,
     OccupiesTheLoop, Running, KeepsItsConnection, GivesItBack, AnswersLast,
     IsAccepted, StaysCommitted, Steps, OnLoop, OnThread, Reporting

(* An action of r leaves the other requests alone, also in what is shared. *)
Alone(r) ==
    \A q \in Requests \ {r} :
        /\ route'[q] = route[q] /\ at'[q] = at[q]
        /\ phase'[q] = phase[q] /\ answer'[q] = answer[q]
        /\ loop' = q <=> loop = q
        /\ q \in conns' <=> q \in conns
        /\ q \in committed' <=> q \in committed

(* So only r's own invariant can be disturbed.                             *)
LEMMA OthersKeepTheirs ==
  ASSUME PoolInv, PoolTypeOK', NEW r \in Requests, Alone(r), RequestInv(r)'
  PROVE  PoolInv'
<1> SUFFICES ASSUME NEW q \in Requests PROVE RequestInv(q)'
  BY DEF PoolInv
<1>1. CASE q = r
  BY <1>1
<1>2. CASE q # r
  BY <1>2 DEF Alone, PoolInv, RequestInv, TakesItsRoute, OccupiesTheLoop, Running,
     KeepsItsConnection, GivesItBack, IsAccepted, AnswersLast, StaysCommitted
<1> QED BY <1>1, <1>2

(* Following leads a request along its route.                              *)
LEMMA FollowingIsAStep ==
  ASSUME PoolInv, NEW r \in Requests, phase[r] = "returned"
  PROVE  /\ Following(r) \in Steps \ {"new", "done", "user"}
         /\ Following(r) \in OnLoop \cup {"body", "trail"} => route[r] \in Uploading
         /\ Following(r) \in Reporting => route[r] = "report"
         /\ Following(r) = "store" => route[r] \in Uploading \cup {"rejections"}
         /\ Following(r) \in {"handle", "respond"} => route[r] \notin Uploading
         /\ Following(r) = "handle" => at[r] \in {"user", "store"}
         /\ Following(r) = "trail" <=> at[r] = "ingest" /\ answer[r] \notin {"refused", "failed"}
         /\ Following(r) \in {"store", "check", "body", "ingest"} =>
               at[r] \in {"user", "store", "check", "body"}
         /\ Following(r) \in {"respond", "close"} => answer[r] # "none"
         /\ Following(r) \notin {"respond", "close"} => answer[r] = "none"
<1>1. PoolTypeOK /\ RequestInv(r)
  BY DEF PoolInv
<1>2. at[r] \in Steps \ {"new", "close", "done"} /\ route[r] \in Routes \cup {None}
  BY <1>1 DEF PoolTypeOK, RequestInv, TakesItsRoute
<1>3. CASE answer[r] \in {"refused", "failed"}
  BY <1>2, <1>3 DEF Following, Steps, OnLoop, Reporting
<1>4. CASE answer[r] \notin {"refused", "failed"}
  <2>1. answer[r] \in {"none", "ok"}
    BY <1>1, <1>4 DEF PoolTypeOK
  <2>2. CASE at[r] \in OnLoop \cup {"user", "store", "body"}
    <3>1. answer[r] = "none"
      BY <1>1, <2>1, <2>2 DEF RequestInv, AnswersLast, OnLoop
    <3>2. route[r] \in AllRoutes \ Open
      BY <1>1, <2>2 DEF RequestInv, TakesItsRoute, AllRoutes, Open, Uploading, OnLoop
    <3>3. at[r] = "store" => route[r] \in {"rejections", "upload", "large_upload"}
      BY <1>1 DEF RequestInv, TakesItsRoute, Uploading
    <3>4. at[r] \in OnLoop \cup {"body"} => route[r] \in Uploading
      BY <1>1 DEF RequestInv, TakesItsRoute
    <3> QED
      BY <1>4, <2>2, <3>1, <3>2, <3>3, <3>4
         DEF Following, AfterUser, AfterStore, Steps, OnLoop, OnThread, Reporting, Uploading,
             AllRoutes, Open
  <2>3. CASE at[r] \in Reporting \cup {"handle", "trail", "respond"}
    <3>1. answer[r] = "ok"
      BY <1>1, <2>1, <2>3 DEF RequestInv, AnswersLast
    <3>2. at[r] \in {"handle", "readback", "trail", "respond"}
      BY <1>1, <1>2, <3>1 DEF RequestInv, AnswersLast
    <3>3. at[r] \in {"handle", "readback", "respond"} => route[r] \notin Uploading
      BY <1>1 DEF RequestInv, TakesItsRoute, Uploading, Reporting
    <3> QED
      BY <1>4, <3>1, <3>2, <3>3 DEF Following, Steps, OnLoop, OnThread, Reporting
  <2> QED BY <1>2, <2>2, <2>3 DEF Steps, OnLoop, OnThread
<1> QED BY <1>3, <1>4

(* A request arrives.                                                      *)
LEMMA ArriveKeepsPoolInv ==
  ASSUME PoolInv, NEW r \in Requests, Arrive(r)
  PROVE  PoolInv'
<1>1. PoolTypeOK /\ RequestInv(r)
  BY DEF PoolInv
<1>2. PoolTypeOK'
  BY <1>1 DEF PoolTypeOK, Arrive, Steps, OnLoop, OnThread
<1>3. Alone(r)
  BY <1>1, PoolAssumption DEF Alone, PoolTypeOK, Arrive
<1>4. PICK p \in Routes :
          /\ route' = [route EXCEPT ![r] = p]
          /\ at' = [at EXCEPT ![r] = IF p \in Open THEN "handle" ELSE "user"]
  BY DEF Arrive
<1>5. route'[r] = p /\ at'[r] = IF p \in Open THEN "handle" ELSE "user"
  BY <1>1, <1>4 DEF PoolTypeOK
<1>6. phase'[r] = "waiting" /\ answer'[r] = "none" /\ at[r] = "new" /\ UNCHANGED <<loop, committed>>
  BY <1>1 DEF Arrive, RequestInv, TakesItsRoute, AnswersLast
<1>7. StaysCommitted(r)'
  BY <1>1, <1>5, <1>6 DEF RequestInv, StaysCommitted, IsAccepted
<1>8. TakesItsRoute(r)'
  BY <1>5, <1>6, PoolAssumption DEF TakesItsRoute, OnLoop, Open, Uploading, AllRoutes, Reporting
<1>9. OccupiesTheLoop(r)' /\ KeepsItsConnection(r)' /\ GivesItBack(r)' /\ AnswersLast(r)'
  BY <1>1, <1>5, <1>6
     DEF RequestInv, OccupiesTheLoop, KeepsItsConnection, GivesItBack, IsAccepted,
         AnswersLast, OnLoop, Reporting
<1> QED BY <1>2, <1>3, <1>7, <1>8, <1>9, OthersKeepTheirs DEF RequestInv

(* A step gets its thread, or the loop.                                    *)
LEMMA EnterKeepsPoolInv ==
  ASSUME PoolInv, NEW r \in Requests, Enter(r)
  PROVE  PoolInv'
<1>1. PoolTypeOK /\ RequestInv(r)
  BY DEF PoolInv
<1>2. PoolTypeOK'
  BY <1>1 DEF PoolTypeOK, Enter
<1>3. Alone(r)
  BY <1>1, PoolAssumption DEF Alone, PoolTypeOK, Enter
<1>4. RequestInv(r)'
  BY <1>1, PoolAssumption
     DEF PoolTypeOK, Enter,
         Running, RequestInv, TakesItsRoute, OccupiesTheLoop,
         KeepsItsConnection, GivesItBack, IsAccepted, AnswersLast, StaysCommitted,
         Steps, OnLoop, OnThread, OnDatabase, Reporting, Uploading, AllRoutes, Open
<1> QED BY <1>2, <1>3, <1>4, OthersKeepTheirs

(* The engine hands out a connection.                                      *)
LEMMA CheckOutKeepsPoolInv ==
  ASSUME PoolInv, NEW r \in Requests, CheckOut(r)
  PROVE  PoolInv'
<1>1. PoolTypeOK /\ RequestInv(r)
  BY DEF PoolInv
<1>2. PoolTypeOK'
  BY <1>1 DEF PoolTypeOK, CheckOut, Connecting
<1>3. Alone(r)
  BY <1>1, PoolAssumption DEF Alone, PoolTypeOK, CheckOut, Connecting
<1>4. RequestInv(r)'
  BY <1>1, PoolAssumption
     DEF PoolTypeOK, CheckOut, Connecting,
         Running, RequestInv, TakesItsRoute, OccupiesTheLoop,
         KeepsItsConnection, GivesItBack, IsAccepted, AnswersLast, StaysCommitted,
         Steps, OnLoop, OnThread, OnDatabase, Reporting, Uploading, AllRoutes, Open
<1> QED BY <1>2, <1>3, <1>4, OthersKeepTheirs

(* The engine gives up waiting for a connection.                           *)
LEMMA TimeOutKeepsPoolInv ==
  ASSUME PoolInv, NEW r \in Requests, TimeOut(r)
  PROVE  PoolInv'
<1>1. PoolTypeOK /\ RequestInv(r)
  BY DEF PoolInv
<1>2. PoolTypeOK'
  BY <1>1 DEF PoolTypeOK, TimeOut, Raises, Connecting, Return, GoOn, Steps, OnLoop, OnThread, Reporting
<1>3. Alone(r)
  BY <1>1, PoolAssumption DEF Alone, PoolTypeOK, TimeOut, Raises, Connecting, Return, GoOn
<1>4. RequestInv(r)'
  BY <1>1, PoolAssumption
     DEF PoolTypeOK, TimeOut, Raises, Connecting, Return, GoOn,
         Running, RequestInv, TakesItsRoute, OccupiesTheLoop,
         KeepsItsConnection, GivesItBack, IsAccepted, AnswersLast, StaysCommitted,
         Steps, OnLoop, OnThread, OnDatabase, Reporting, Uploading, AllRoutes, Open
<1> QED BY <1>2, <1>3, <1>4, OthersKeepTheirs

(* A statement raises.                                                     *)
LEMMA DatabaseFailsKeepsPoolInv ==
  ASSUME PoolInv, NEW r \in Requests, DatabaseFails(r)
  PROVE  PoolInv'
<1>1. PoolTypeOK /\ RequestInv(r)
  BY DEF PoolInv
<1>2. PoolTypeOK'
  BY <1>1 DEF PoolTypeOK, DatabaseFails, Raises, Return, GoOn, GiveBack, MayLose, Running, Steps, OnLoop, OnThread, Reporting
<1>3. Alone(r)
  BY <1>1, PoolAssumption
     DEF Alone, PoolTypeOK, RequestInv, OccupiesTheLoop, OnLoop, OnDatabase, Reporting, DatabaseFails, Raises, Return, GoOn, GiveBack, MayLose, Running
<1>4. RequestInv(r)'
  BY <1>1, PoolAssumption
     DEF PoolTypeOK, DatabaseFails, Raises, Return, GoOn, GiveBack, MayLose, Running,
         RequestInv, TakesItsRoute, OccupiesTheLoop,
         KeepsItsConnection, GivesItBack, IsAccepted, AnswersLast, StaysCommitted,
         Steps, OnLoop, OnThread, OnDatabase, Reporting, Uploading, AllRoutes, Open
<1> QED BY <1>2, <1>3, <1>4, OthersKeepTheirs

(* get_current_user keeps the connection it took.                          *)
LEMMA ResolveUserKeepsPoolInv ==
  ASSUME PoolInv, NEW r \in Requests, ResolveUser(r)
  PROVE  PoolInv'
<1>1. PoolTypeOK /\ RequestInv(r)
  BY DEF PoolInv
<1>2. PoolTypeOK'
  BY <1>1 DEF PoolTypeOK, ResolveUser, Return, Keep, Running
<1>3. Alone(r)
  BY <1>1, PoolAssumption DEF Alone, PoolTypeOK, ResolveUser, Return, Keep, Running
<1>4. RequestInv(r)'
  BY <1>1, PoolAssumption
     DEF PoolTypeOK, ResolveUser, Return, Keep, Running,
         RequestInv, TakesItsRoute, OccupiesTheLoop,
         KeepsItsConnection, GivesItBack, IsAccepted, AnswersLast, StaysCommitted,
         Steps, OnLoop, OnThread, OnDatabase, Reporting, Uploading, AllRoutes, Open
<1> QED BY <1>2, <1>3, <1>4, OthersKeepTheirs

(* get_rejection_store.                                                    *)
LEMMA ResolveStoreKeepsPoolInv ==
  ASSUME PoolInv, NEW r \in Requests, ResolveStore(r)
  PROVE  PoolInv'
<1>1. PoolTypeOK /\ RequestInv(r)
  BY DEF PoolInv
<1>2. PoolTypeOK'
  BY <1>1 DEF PoolTypeOK, ResolveStore, Return, Keep, Running
<1>3. Alone(r)
  BY <1>1, PoolAssumption DEF Alone, PoolTypeOK, ResolveStore, Return, Keep, Running
<1>4. RequestInv(r)'
  BY <1>1, PoolAssumption
     DEF PoolTypeOK, ResolveStore, Return, Keep, Running,
         RequestInv, TakesItsRoute, OccupiesTheLoop,
         KeepsItsConnection, GivesItBack, IsAccepted, AnswersLast, StaysCommitted,
         Steps, OnLoop, OnThread, OnDatabase, Reporting, Uploading, AllRoutes, Open
<1> QED BY <1>2, <1>3, <1>4, OthersKeepTheirs

(* The body of an upload.                                                  *)
LEMMA ReadBodyKeepsPoolInv ==
  ASSUME PoolInv, NEW r \in Requests, ReadBody(r)
  PROVE  PoolInv'
<1>1. PoolTypeOK /\ RequestInv(r)
  BY DEF PoolInv
<1>2. PoolTypeOK'
  BY <1>1 DEF PoolTypeOK, ReadBody, Return, Keep, Running
<1>3. Alone(r)
  BY <1>1, PoolAssumption DEF Alone, PoolTypeOK, ReadBody, Return, Keep, Running
<1>4. RequestInv(r)'
  BY <1>1, PoolAssumption
     DEF PoolTypeOK, ReadBody, Return, Keep, Running,
         RequestInv, TakesItsRoute, OccupiesTheLoop,
         KeepsItsConnection, GivesItBack, IsAccepted, AnswersLast, StaysCommitted,
         Steps, OnLoop, OnThread, OnDatabase, Reporting, Uploading, AllRoutes, Open
<1> QED BY <1>2, <1>3, <1>4, OthersKeepTheirs

(* The synchronous endpoints.                                              *)
LEMMA HandleKeepsPoolInv ==
  ASSUME PoolInv, NEW r \in Requests, Handle(r)
  PROVE  PoolInv'
<1>1. PoolTypeOK /\ RequestInv(r)
  BY DEF PoolInv
<1>2. PoolTypeOK'
  BY <1>1 DEF PoolTypeOK, Handle, Return, GiveBack, Running
<1>3. Alone(r)
  BY <1>1, PoolAssumption DEF Alone, PoolTypeOK, Handle, Return, GiveBack, Running
<1>4. RequestInv(r)'
  BY <1>1, PoolAssumption
     DEF PoolTypeOK, Handle, Return, GiveBack, Running,
         RequestInv, TakesItsRoute, OccupiesTheLoop,
         KeepsItsConnection, GivesItBack, IsAccepted, AnswersLast, StaysCommitted,
         Steps, OnLoop, OnThread, OnDatabase, Reporting, Uploading, AllRoutes, Open
<1> QED BY <1>2, <1>3, <1>4, OthersKeepTheirs

(* trigger_report up to commit #1.                                         *)
LEMMA BeginReportKeepsPoolInv ==
  ASSUME PoolInv, NEW r \in Requests, BeginReport(r)
  PROVE  PoolInv'
<1>1. PoolTypeOK /\ RequestInv(r)
  BY DEF PoolInv
<1>2. PoolTypeOK'
  BY <1>1 DEF PoolTypeOK, BeginReport, Return, GoOn, GiveBack, Running, Steps, OnLoop, OnThread, Reporting
<1>3. Alone(r)
  BY <1>1, PoolAssumption DEF Alone, PoolTypeOK, BeginReport, Return, GoOn, GiveBack, Running
<1>4. RequestInv(r)'
  BY <1>1, PoolAssumption
     DEF PoolTypeOK, BeginReport, Return, GoOn, GiveBack, Running,
         RequestInv, TakesItsRoute, OccupiesTheLoop,
         KeepsItsConnection, GivesItBack, IsAccepted, AnswersLast, StaysCommitted,
         Steps, OnLoop, OnThread, OnDatabase, Reporting, Uploading, AllRoutes, Open
<1> QED BY <1>2, <1>3, <1>4, OthersKeepTheirs

(* trigger_report up to commit #2 or its rollback.                         *)
LEMMA MakeReportKeepsPoolInv ==
  ASSUME PoolInv, NEW r \in Requests, MakeReport(r)
  PROVE  PoolInv'
<1>1. PoolTypeOK /\ RequestInv(r)
  BY DEF PoolInv
<1>2. PoolTypeOK'
  BY <1>1 DEF PoolTypeOK, MakeReport, GoOn, GiveBack, Running, Steps, OnLoop, OnThread, Reporting
<1>3. Alone(r)
  BY <1>1, PoolAssumption DEF Alone, PoolTypeOK, MakeReport, GoOn, GiveBack, Running
<1>4. RequestInv(r)'
  BY <1>1, PoolAssumption
     DEF PoolTypeOK, MakeReport, GoOn, GiveBack, Running,
         RequestInv, TakesItsRoute, OccupiesTheLoop,
         KeepsItsConnection, GivesItBack, IsAccepted, AnswersLast, StaysCommitted,
         Steps, OnLoop, OnThread, OnDatabase, Reporting, Uploading, AllRoutes, Open
<1> QED BY <1>2, <1>3, <1>4, OthersKeepTheirs

(* The except branch of generate_report.                                   *)
LEMMA UnwindKeepsPoolInv ==
  ASSUME PoolInv, NEW r \in Requests, Unwind(r)
  PROVE  PoolInv'
<1>1. PoolTypeOK /\ RequestInv(r)
  BY DEF PoolInv
<1>2. PoolTypeOK'
  BY <1>1 DEF PoolTypeOK, Unwind, Return, GiveBack, Running
<1>3. Alone(r)
  BY <1>1, PoolAssumption DEF Alone, PoolTypeOK, Unwind, Return, GiveBack, Running
<1>4. RequestInv(r)'
  BY <1>1, PoolAssumption
     DEF PoolTypeOK, Unwind, Return, GiveBack, Running,
         RequestInv, TakesItsRoute, OccupiesTheLoop,
         KeepsItsConnection, GivesItBack, IsAccepted, AnswersLast, StaysCommitted,
         Steps, OnLoop, OnThread, OnDatabase, Reporting, Uploading, AllRoutes, Open
<1> QED BY <1>2, <1>3, <1>4, OthersKeepTheirs

(* The answer of trigger_report.                                           *)
LEMMA ReadBackKeepsPoolInv ==
  ASSUME PoolInv, NEW r \in Requests, ReadBack(r)
  PROVE  PoolInv'
<1>1. PoolTypeOK /\ RequestInv(r)
  BY DEF PoolInv
<1>2. PoolTypeOK'
  BY <1>1 DEF PoolTypeOK, ReadBack, Return, Keep, Running
<1>3. Alone(r)
  BY <1>1, PoolAssumption DEF Alone, PoolTypeOK, ReadBack, Return, Keep, Running
<1>4. RequestInv(r)'
  BY <1>1, PoolAssumption
     DEF PoolTypeOK, ReadBack, Return, Keep, Running,
         RequestInv, TakesItsRoute, OccupiesTheLoop,
         KeepsItsConnection, GivesItBack, IsAccepted, AnswersLast, StaysCommitted,
         Steps, OnLoop, OnThread, OnDatabase, Reporting, Uploading, AllRoutes, Open
<1> QED BY <1>2, <1>3, <1>4, OthersKeepTheirs

(* The first part of upload_batch.                                         *)
LEMMA CheckKeepsPoolInv ==
  ASSUME PoolInv, NEW r \in Requests, Check(r)
  PROVE  PoolInv'
<1>1. PoolTypeOK /\ RequestInv(r)
  BY DEF PoolInv
<1>2. PoolTypeOK'
  BY <1>1 DEF PoolTypeOK, Check, Return, GoOn, Running, Steps, OnLoop, OnThread, Reporting
<1>3. Alone(r)
  BY <1>1, PoolAssumption
     DEF Alone, PoolTypeOK, RequestInv, OccupiesTheLoop, OnLoop, Check, Return, GoOn, Running
<1>4. RequestInv(r)'
  BY <1>1, PoolAssumption
     DEF PoolTypeOK, Check, Return, GoOn, Running,
         RequestInv, TakesItsRoute, OccupiesTheLoop,
         KeepsItsConnection, GivesItBack, IsAccepted, AnswersLast, StaysCommitted,
         Steps, OnLoop, OnThread, OnDatabase, Reporting, Uploading, AllRoutes, Open
<1> QED BY <1>2, <1>3, <1>4, OthersKeepTheirs

(* Its second part: only a commit that raises leaves a doubt.              *)
LEMMA IngestKeepsPoolInv ==
  ASSUME PoolInv, NEW r \in Requests, Ingest(r)
  PROVE  PoolInv'
<1>1. PoolTypeOK /\ RequestInv(r)
  BY DEF PoolInv
<1>2. PoolTypeOK'
  BY <1>1 DEF PoolTypeOK, Ingest, Return, GiveBack, MayLose, Running
<1>3. Alone(r)
  BY <1>1, PoolAssumption
     DEF Alone, PoolTypeOK, RequestInv, OccupiesTheLoop, OnLoop, Ingest, Return, GiveBack, MayLose, Running
<1>4. RequestInv(r)'
  BY <1>1, PoolAssumption
     DEF PoolTypeOK, Ingest, Return, GiveBack, MayLose, Running,
         RequestInv, TakesItsRoute, OccupiesTheLoop,
         KeepsItsConnection, GivesItBack, IsAccepted, AnswersLast, StaysCommitted,
         Steps, OnLoop, OnThread, OnDatabase, Reporting, Uploading, AllRoutes, Open
<1> QED BY <1>2, <1>3, <1>4, OthersKeepTheirs

(* The trail of an upload; its failures are swallowed.                     *)
LEMMA RecordKeepsPoolInv ==
  ASSUME PoolInv, NEW r \in Requests, Record(r)
  PROVE  PoolInv'
<1>1. PoolTypeOK /\ RequestInv(r)
  BY DEF PoolInv
<1>2. PoolTypeOK'
  BY <1>1 DEF PoolTypeOK, Record, Return, Keep, Running
<1>3. Alone(r)
  BY <1>1, PoolAssumption DEF Alone, PoolTypeOK, Record, Return, Keep, Running
<1>4. RequestInv(r)'
  BY <1>1, PoolAssumption
     DEF PoolTypeOK, Record, Return, Keep, Running,
         RequestInv, TakesItsRoute, OccupiesTheLoop,
         KeepsItsConnection, GivesItBack, IsAccepted, AnswersLast, StaysCommitted,
         Steps, OnLoop, OnThread, OnDatabase, Reporting, Uploading, AllRoutes, Open
<1> QED BY <1>2, <1>3, <1>4, OthersKeepTheirs

(* The validation of an answer.                                            *)
LEMMA RespondKeepsPoolInv ==
  ASSUME PoolInv, NEW r \in Requests, Respond(r)
  PROVE  PoolInv'
<1>1. PoolTypeOK /\ RequestInv(r)
  BY DEF PoolInv
<1>2. PoolTypeOK'
  BY <1>1 DEF PoolTypeOK, Respond, Return, Keep, Running
<1>3. Alone(r)
  BY <1>1, PoolAssumption DEF Alone, PoolTypeOK, Respond, Return, Keep, Running
<1>4. RequestInv(r)'
  BY <1>1, PoolAssumption
     DEF PoolTypeOK, Respond, Return, Keep, Running,
         RequestInv, TakesItsRoute, OccupiesTheLoop,
         KeepsItsConnection, GivesItBack, IsAccepted, AnswersLast, StaysCommitted,
         Steps, OnLoop, OnThread, OnDatabase, Reporting, Uploading, AllRoutes, Open
<1> QED BY <1>2, <1>3, <1>4, OthersKeepTheirs

(* The exit of get_db.                                                     *)
LEMMA CloseKeepsPoolInv ==
  ASSUME PoolInv, NEW r \in Requests, Close(r)
  PROVE  PoolInv'
<1>1. PoolTypeOK /\ RequestInv(r)
  BY DEF PoolInv
<1>2. PoolTypeOK'
  BY <1>1 DEF PoolTypeOK, Close, GiveBack, Steps
<1>3. Alone(r)
  BY <1>1, PoolAssumption DEF Alone, PoolTypeOK, Close, GiveBack
<1>4. RequestInv(r)'
  BY <1>1, PoolAssumption
     DEF PoolTypeOK, Close, GiveBack,
         Running, RequestInv, TakesItsRoute, OccupiesTheLoop,
         KeepsItsConnection, GivesItBack, IsAccepted, AnswersLast, StaysCommitted,
         Steps, OnLoop, OnThread, OnDatabase, Reporting, Uploading, AllRoutes, Open
<1> QED BY <1>2, <1>3, <1>4, OthersKeepTheirs

(* A request goes on to its next step.                                     *)
LEMMA ResumeKeepsPoolInv ==
  ASSUME PoolInv, NEW r \in Requests, Resume(r)
  PROVE  PoolInv'
<1>1. PoolTypeOK /\ RequestInv(r) /\ phase[r] = "returned"
  BY DEF PoolInv, Resume
<1>2. PoolTypeOK'
  BY <1>1, FollowingIsAStep DEF PoolTypeOK, Resume
<1>3. Alone(r)
  BY <1>1 DEF Alone, PoolTypeOK, Resume
<1>4. at'[r] = Following(r) /\ phase'[r] = "waiting"
  BY <1>1 DEF PoolTypeOK, Resume
<1>5. TakesItsRoute(r)' /\ OccupiesTheLoop(r)'
  BY <1>1, <1>4, FollowingIsAStep
     DEF TakesItsRoute, OccupiesTheLoop, RequestInv, Resume
<1>6. KeepsItsConnection(r)'
  BY <1>1, <1>4, FollowingIsAStep
     DEF KeepsItsConnection, RequestInv, TakesItsRoute, AllRoutes, Open, Uploading, Resume
<1>7. IsAccepted(r)' => IsAccepted(r)
  BY <1>1, <1>4, FollowingIsAStep DEF IsAccepted, Resume
<1>8. AnswersLast(r)'
  BY <1>1, <1>4, FollowingIsAStep DEF AnswersLast, Resume
<1>9. GivesItBack(r)'
  BY <1>1, <1>7 DEF GivesItBack, RequestInv, Resume
<1>10. StaysCommitted(r)'
  <2>1. r \in committed => answer[r] \in {"none", "ok", "failed"}
    BY <1>1 DEF RequestInv, StaysCommitted
  <2>2. r \in committed => at'[r] \in {"trail", "close"} /\ (answer[r] = "none" => at'[r] = "trail")
    BY <1>1, <1>4 DEF RequestInv, StaysCommitted, Following, AnswersLast
  <2>3. r \in committed /\ at'[r] = "trail" => answer[r] = "none"
    BY <1>4, FollowingIsAStep, <1>1
  <2> QED BY <1>1, <1>7, <2>1, <2>2, <2>3 DEF StaysCommitted, RequestInv, Resume
<1> QED BY <1>2, <1>3, <1>5, <1>6, <1>8, <1>9, <1>10, OthersKeepTheirs DEF RequestInv

(* For every number of requests, threads and connections, PoolInv holds of *)
(* the process that serves them.                                           *)
THEOREM PoolInvariant == Spec => []PoolInv
<1>1. Init => PoolInv
  BY PoolInit
<1>2. PoolInv /\ [Next]_vars => PoolInv'
  <2> SUFFICES ASSUME PoolInv, [Next]_vars PROVE PoolInv'
    OBVIOUS
  <2>1. CASE UNCHANGED vars
    BY <2>1 DEF vars, PoolInv, PoolTypeOK, RequestInv, TakesItsRoute, OccupiesTheLoop, Running,
       KeepsItsConnection, GivesItBack, IsAccepted, AnswersLast, StaysCommitted
  <2>2. ASSUME NEW r \in Requests, Arrive(r) PROVE PoolInv'
    BY <2>2, ArriveKeepsPoolInv
  <2>3. ASSUME NEW r \in Requests, Enter(r) \/ Resume(r) \/ CheckOut(r) \/ Close(r)
                               \/ TimeOut(r) \/ DatabaseFails(r)
        PROVE  PoolInv'
    BY <2>3, EnterKeepsPoolInv, ResumeKeepsPoolInv, CheckOutKeepsPoolInv, CloseKeepsPoolInv,
       TimeOutKeepsPoolInv, DatabaseFailsKeepsPoolInv
  <2>4. ASSUME NEW r \in Requests, Endpoint(r) PROVE PoolInv'
    <3>1. CASE ResolveUser(r) \/ ResolveStore(r) \/ ReadBody(r) \/ Handle(r) \/ Respond(r)
      BY <3>1, ResolveUserKeepsPoolInv, ResolveStoreKeepsPoolInv, ReadBodyKeepsPoolInv,
         HandleKeepsPoolInv, RespondKeepsPoolInv
    <3>2. CASE BeginReport(r) \/ MakeReport(r) \/ Unwind(r) \/ ReadBack(r)
      BY <3>2, BeginReportKeepsPoolInv, MakeReportKeepsPoolInv, UnwindKeepsPoolInv,
         ReadBackKeepsPoolInv
    <3>3. CASE Check(r) \/ Ingest(r) \/ Record(r)
      BY <3>3, CheckKeepsPoolInv, IngestKeepsPoolInv, RecordKeepsPoolInv
    <3> QED BY <2>4, <3>1, <3>2, <3>3 DEF Endpoint
  <2> QED BY <2>1, <2>2, <2>3, <2>4 DEF Next, Serve
<1> QED BY <1>1, <1>2, PTL DEF Spec

(* upload_batch never waits for a connection on the event loop: the loop's *)
(* coroutine has the connection get_current_user took, however small the   *)
(* pools are.                                                              *)
THEOREM TheLoopNeverWaits == Spec => []LoopNeverWaits
<1>1. PoolInv => LoopNeverWaits
  BY DEF PoolInv, PoolTypeOK, RequestInv, OccupiesTheLoop, KeepsItsConnection, AnswersLast,
     LoopNeverWaits, OnLoop, Reporting
<1> QED BY <1>1, PoolInvariant, PTL

(* While an upload waits for MongoDB it holds a thread, and neither the    *)
(* loop nor a connection.                                                  *)
THEOREM OutagesHoldNothingScarce == Spec => []TrailHoldsNothingScarce
<1>1. PoolInv => TrailHoldsNothingScarce
  BY DEF PoolInv, RequestInv, OccupiesTheLoop, GivesItBack, IsAccepted, OnLoop,
     TrailHoldsNothingScarce
<1> QED BY <1>1, PoolInvariant, PTL

(* In one step the answer of an upload goes where its commit went.         *)
Agrees(r) ==
    route[r] \in Uploading /\ answer[r] = "none" =>
        /\ answer'[r] = "ok" => r \in committed
        /\ answer'[r] = "refused" => r \notin committed'
        /\ answer'[r] = "failed" => r \notin committed

(* Before the trail an upload that has no answer is not committed.         *)
LEMMA AnswersAgree ==
  ASSUME PoolInv, NEW r \in Requests, Serve(r)
  PROVE  Agrees(r) /\ \A q \in Requests \ {r} : answer'[q] = answer[q]
<1>1. PoolTypeOK /\ TakesItsRoute(r) /\ StaysCommitted(r)
  BY DEF PoolInv, RequestInv
<1>2. at[r] # "trail" /\ phase[r] = "running" => r \notin committed
  BY <1>1 DEF StaysCommitted, TakesItsRoute
<1>3. CASE Enter(r) \/ Resume(r) \/ CheckOut(r) \/ Close(r)
  BY <1>1, <1>3 DEF Agrees, Enter, Resume, CheckOut, Close
<1>4. CASE TimeOut(r) \/ DatabaseFails(r)
  BY <1>1, <1>2, <1>4
     DEF Agrees, TimeOut, DatabaseFails, Raises, Connecting, Return, GoOn, PoolTypeOK,
         OnDatabase, Reporting, Uploading
<1>5. CASE Ingest(r)
  BY <1>1, <1>2, <1>5 DEF Agrees, Ingest, Running, Return, PoolTypeOK
<1>6. CASE Record(r)
  BY <1>1, <1>6 DEF Agrees, Record, Running, Return, PoolTypeOK, StaysCommitted, IsAccepted
<1>7. CASE ResolveUser(r) \/ ResolveStore(r) \/ ReadBody(r) \/ Check(r)
  BY <1>1, <1>2, <1>7
     DEF Agrees, ResolveUser, ResolveStore, ReadBody, Check, Running, Return, GoOn, Keep,
         PoolTypeOK
<1>8. CASE Handle(r) \/ Respond(r)
  BY <1>1, <1>8
     DEF Agrees, TakesItsRoute, Handle, Respond, Running, Return, PoolTypeOK
<1>9. CASE BeginReport(r) \/ MakeReport(r) \/ Unwind(r) \/ ReadBack(r)
  BY <1>1, <1>9
     DEF Agrees, TakesItsRoute, BeginReport, MakeReport, Unwind, ReadBack, Running, Return,
         GoOn, PoolTypeOK, Reporting, Uploading
<1> QED BY <1>3, <1>4, <1>5, <1>6, <1>7, <1>8, <1>9 DEF Serve, Endpoint

(* Whatever the size of the pools, an upload whose commit has returned is  *)
(* answered with success, one that is refused is not committed, and an     *)
(* error answers it only if no commit has returned.                        *)
THEOREM UploadsAreAnsweredAsCommitted == Spec => AnswersFollowTheCommit
<1>1. PoolInv /\ [Next]_vars => [\A q \in Requests : Agrees(q)]_vars
  <2> SUFFICES ASSUME PoolInv, Next, NEW q \in Requests PROVE Agrees(q)
    BY DEF vars, Agrees
  <2>1. ASSUME NEW r \in Requests, Arrive(r) PROVE Agrees(q)
    BY <2>1 DEF Arrive, Agrees
  <2>2. ASSUME NEW r \in Requests, Serve(r) PROVE Agrees(q)
    <3>1. CASE q = r
      BY <2>2, <3>1, AnswersAgree
    <3>2. CASE q # r
      BY <2>2, <3>2, AnswersAgree DEF Agrees
    <3> QED BY <3>1, <3>2
  <2> QED BY <2>1, <2>2 DEF Next
<1>2. [\A q \in Requests : Agrees(q)]_vars =>
        [\A r \in Requests :
            route[r] \in Uploading /\ answer[r] = "none" =>
                /\ answer'[r] = "ok" => r \in committed
                /\ answer'[r] = "refused" => r \notin committed'
                /\ answer'[r] = "failed" => r \notin committed]_vars
  BY DEF Agrees
<1> QED BY <1>1, <1>2, PoolInvariant, PTL DEF Spec, AnswersFollowTheCommit
=============================================================================
