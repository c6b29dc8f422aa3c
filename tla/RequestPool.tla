---------------------------- MODULE RequestPool ----------------------------
(***************************************************************************)
(* How one API process serves its requests.  Three things are shared: the  *)
(* event loop, FastAPI's pool of threads and SQLAlchemy's pool of          *)
(* connections.  A synchronous dependency or endpoint takes a thread and   *)
(* gives it back; the request's session takes a connection at its first    *)
(* statement and gives it back at a commit, a rollback or its close.  So a *)
(* request waits for a thread while it holds a connection and for a        *)
(* connection while it holds a thread.                                     *)
(***************************************************************************)
EXTENDS Naturals, FiniteSets

CONSTANTS
    Requests,       \* numbered as they arrive
    Routes,         \* the endpoints that are called
    Threads,        \* the size of the thread pool (40)
    Connections,    \* connections the engine hands out at most (5 + 10)
    None            \* no request

(* "read" stands for the GET endpoints of batches and reports, export      *)
(* included; "large_upload" is an upload whose body was rolled to disk.    *)
Open == {"health", "login", "register"}
Uploading == {"upload", "large_upload"}
AllRoutes == Open \cup Uploading \cup {"read", "rejections", "report"}

ASSUME PoolAssumption ==
    /\ Routes \subseteq AllRoutes
    /\ Threads \in Nat \ {0} /\ Connections \in Nat \ {0}
    /\ Requests \subseteq Nat /\ IsFiniteSet(Requests) /\ None \notin Requests

VARIABLES
    route,      \* per request: the endpoint, None before it arrives
    at,         \* per request: its step, see Steps
    phase,      \* "waiting" for a thread or the loop, "running", "returned"
    loop,       \* the request whose coroutine occupies the event loop
    conns,      \* requests whose session holds a connection
    answer,     \* "none", "ok" (2xx), "refused" (4xx), "failed" (5xx)
    committed   \* uploads whose batch PostgreSQL has accepted

vars == <<route, at, phase, loop, conns, answer, committed>>

-----------------------------------------------------------------------------
(* begin, make, unwind and readback are parts of trigger_report: up to its *)
(* first commit, up to its second, its except branch, and the answer.      *)
Reporting == {"begin", "make", "unwind", "readback"}
OnThread == Reporting \cup {"user", "store", "body", "handle", "trail", "respond"}
OnDatabase == Reporting \cup {"user", "handle", "ingest"}

(* The parts of upload_batch that run on the loop: before the body is read,*)
(* and from there to the commit.                                           *)
OnLoop == {"check", "ingest"}
Steps == OnThread \cup OnLoop \cup {"new", "close", "done"}

BusyThreads == {r \in Requests : at[r] \in OnThread /\ phase[r] # "waiting"}

Running(r, step) == at[r] = step /\ phase[r] = "running"

(* The session of r executes a statement and has no connection yet.        *)
Connecting(r) == at[r] \in OnDatabase /\ phase[r] = "running" /\ r \notin conns

Exhausted == Cardinality(conns) >= Connections

AfterUser(p) == IF p = "read" THEN "handle" ELSE IF p = "report" THEN "begin" ELSE "store"
AfterStore(p) == IF p = "rejections" THEN "handle" ELSE "check"

(* An error goes straight to the close; a report's first three parts end   *)
(* with one or go on in their thread.                                      *)
Following(r) ==
    IF answer[r] \in {"refused", "failed"} \/ at[r] \in {"trail", "respond"} THEN "close"
    ELSE IF at[r] \in {"handle", "readback"} THEN "respond"
    ELSE IF at[r] = "user" THEN AfterUser(route[r])
    ELSE IF at[r] = "store" THEN AfterStore(route[r])
    ELSE IF at[r] = "check" THEN "body"
    ELSE IF at[r] = "body" THEN "ingest"
    ELSE "trail"

PoolTypeOK ==
    /\ route \in [Requests -> Routes \cup {None}]
    /\ at \in [Requests -> Steps]
    /\ phase \in [Requests -> {"waiting", "running", "returned"}]
    /\ loop \in Requests \cup {None}
    /\ conns \subseteq Requests
    /\ answer \in [Requests -> {"none", "ok", "refused", "failed"}]
    /\ committed \subseteq Requests

Init ==
    /\ route = [r \in Requests |-> None]
    /\ at = [r \in Requests |-> "new"]
    /\ phase = [r \in Requests |-> "waiting"]
    /\ loop = None
    /\ conns = {}
    /\ answer = [r \in Requests |-> "none"]
    /\ committed = {}

-----------------------------------------------------------------------------
(* The framework: the loop starts steps and resumes requests, the engine   *)
(* hands out connections.                                                  *)

(* get_db opens the session in a thread and a moment; a session without a  *)
(* statement holds nothing, so this is a part of the arrival.              *)
Arrive(r) ==
    /\ at[r] = "new" /\ loop = None
    /\ \A q \in Requests : q < r => at[q] # "new"
    /\ \E p \in Routes :
          /\ route' = [route EXCEPT ![r] = p]
          /\ at' = [at EXCEPT ![r] = IF p \in Open THEN "handle" ELSE "user"]
    /\ UNCHANGED <<phase, loop, conns, answer, committed>>

(* Faulty: the trail is written by the coroutine itself.                   *)
EnterTrailOnLoop(r) ==
    /\ phase[r] = "waiting" /\ loop = None
    /\ \/ /\ at[r] \in OnThread \ {"trail"} /\ Cardinality(BusyThreads) < Threads
          /\ UNCHANGED loop
       \/ /\ at[r] \in OnLoop \cup {"trail"}
          /\ loop' = r
    /\ phase' = [phase EXCEPT ![r] = "running"]
    /\ UNCHANGED <<route, at, conns, answer, committed>>

Enter(r) ==
    /\ phase[r] = "waiting" /\ loop = None
    /\ \/ /\ at[r] \in OnThread /\ Cardinality(BusyThreads) < Threads
          /\ UNCHANGED loop
       \/ /\ at[r] \in OnLoop
          /\ loop' = r
    /\ phase' = [phase EXCEPT ![r] = "running"]
    /\ UNCHANGED <<route, at, conns, answer, committed>>

(* The coroutine awaiting a step goes on, which frees the step's thread.   *)
Resume(r) ==
    /\ phase[r] = "returned" /\ loop = None
    /\ at' = [at EXCEPT ![r] = Following(r)]
    /\ phase' = [phase EXCEPT ![r] = "waiting"]
    /\ UNCHANGED <<route, loop, conns, answer, committed>>

CheckOut(r) ==
    /\ Connecting(r) /\ ~Exhausted
    /\ conns' = conns \cup {r}
    /\ UNCHANGED <<route, at, phase, loop, answer, committed>>

-----------------------------------------------------------------------------
(* The end of a step: its outcome, and what it leaves of the connection.   *)
Return(r, outcome) ==
    /\ phase' = [phase EXCEPT ![r] = "returned"]
    /\ answer' = [answer EXCEPT ![r] = outcome]
    /\ UNCHANGED <<route, at>>

(* A part of trigger_report ends and the next one begins, in one thread;   *)
(* so do the parts of an upload_batch whose body is in memory, on the loop.*)
GoOn(r, step) ==
    /\ at' = [at EXCEPT ![r] = step]
    /\ UNCHANGED <<route, phase, answer>>

Keep == UNCHANGED <<loop, conns, committed>>

(* What commit() and rollback() do.                                        *)
GiveBack(r) == conns' = conns \ {r}

(* After an error that nobody rolls back the session keeps its connection, *)
(* unless the driver found it broken.                                      *)
MayLose(r) == conns' \in {conns, conns \ {r}}

(* Faulty variants of the actions below, each a plausible mistake.         *)

(* get_current_user closes the session it was given, or has its own.       *)
ResolveUserAndClose(r) ==
    /\ Running(r, "user") /\ r \in conns
    /\ Return(r, "none")
    /\ GiveBack(r)
    /\ UNCHANGED <<loop, committed>>

(* The commit of the upload is left to the end of the request.             *)
IngestUncommitted(r) ==
    /\ Running(r, "ingest") /\ r \in conns
    /\ Return(r, "none")
    /\ loop' = None
    /\ UNCHANGED <<conns, committed>>

(* An outage of MongoDB is an error of the upload.                         *)
RecordOrFail(r) ==
    /\ Running(r, "trail")
    /\ \E outcome \in {"ok", "failed"} : Return(r, outcome)
    /\ Keep

(* The engine waits for a connection as long as it takes.                  *)
TimeOutNever(r) == FALSE /\ UNCHANGED vars

-----------------------------------------------------------------------------
(* A token that does not decode is refused before the session is used, one *)
(* of an unknown or inactive user after its statement.                     *)
ResolveUser(r) ==
    /\ Running(r, "user")
    /\ \/ r \notin conns /\ Return(r, "refused")
       \/ r \in conns /\ \E outcome \in {"none", "refused"} : Return(r, outcome)
    /\ Keep

ResolveStore(r) == Running(r, "store") /\ Return(r, "none") /\ Keep
ReadBody(r) == Running(r, "body") /\ Return(r, "none") /\ Keep

(* The synchronous endpoints.  Only register commits; list_batch_rejections*)
(* fails with MongoDB.                                                     *)
Handle(r) ==
    /\ Running(r, "handle") /\ r \in conns
    /\ \/ Return(r, "ok")
       \/ route[r] # "health" /\ Return(r, "refused")
       \/ route[r] = "rejections" /\ Return(r, "failed")
    /\ IF route[r] = "register" /\ answer'[r] = "ok" THEN GiveBack(r) ELSE UNCHANGED conns
    /\ UNCHANGED <<loop, committed>>

(* generate_report up to commit #1.                                        *)
BeginReport(r) ==
    /\ Running(r, "begin") /\ r \in conns
    /\ \/ Return(r, "refused") /\ UNCHANGED conns
       \/ GoOn(r, "make") /\ GiveBack(r)
    /\ UNCHANGED <<loop, committed>>

(* Its try block: commit #2, or the rollback of whatever was raised.       *)
MakeReport(r) ==
    /\ Running(r, "make") /\ r \in conns
    /\ GoOn(r, "readback") \/ GoOn(r, "unwind")
    /\ GiveBack(r)
    /\ UNCHANGED <<loop, committed>>

Unwind(r) ==
    /\ Running(r, "unwind") /\ r \in conns
    /\ Return(r, "failed")
    /\ GiveBack(r)
    /\ UNCHANGED <<loop, committed>>

ReadBack(r) == Running(r, "readback") /\ r \in conns /\ Return(r, "ok") /\ Keep

(* A file without a name or of another type is refused.  No body to wait   *)
(* for: the coroutine keeps the loop.                                      *)
Check(r) ==
    /\ Running(r, "check") /\ r \in conns
    /\ \/ Return(r, "refused") /\ loop' = None
       \/ route[r] = "large_upload" /\ Return(r, "none") /\ loop' = None
       \/ route[r] = "upload" /\ GoOn(r, "ingest") /\ UNCHANGED loop
    /\ UNCHANGED <<conns, committed>>

(* The commit; or what is refused and rolled back; or an error of the      *)
(* database, which nobody catches: a commit may raise and yet be applied.  *)
Ingest(r) ==
    /\ Running(r, "ingest") /\ r \in conns
    /\ \/ Return(r, "none") /\ GiveBack(r) /\ committed' = committed \cup {r}
       \/ Return(r, "refused") /\ GiveBack(r) /\ UNCHANGED committed
       \/ Return(r, "failed") /\ MayLose(r) /\ committed' \in {committed, committed \cup {r}}
    /\ loop' = None

Record(r) == Running(r, "trail") /\ Return(r, "ok") /\ Keep

(* FastAPI validates what a synchronous endpoint returned, in a thread.    *)
Respond(r) == Running(r, "respond") /\ Return(r, answer[r]) /\ Keep

(* What the endpoints make of a statement that raises: generate_report     *)
(* unwinds, health_check answers all the same, the others fail.            *)
Raises(r) ==
    /\ \/ at[r] = "make" /\ GoOn(r, "unwind")
       \/ route[r] = "health" /\ Return(r, "ok")
       \/ at[r] # "make" /\ route[r] # "health" /\ Return(r, "failed")
    /\ loop' = IF loop = r THEN None ELSE loop

(* No connection came back for pool_timeout: QueuePool raises.             *)
TimeOut(r) ==
    /\ Connecting(r) /\ Exhausted
    /\ Raises(r)
    /\ UNCHANGED <<conns, committed>>

(* Connecting, a statement or a commit raises; Ingest has its own.         *)
DatabaseFails(r) ==
    /\ at[r] \in OnDatabase \ {"ingest"} /\ phase[r] = "running"
    /\ r \in conns \/ ~Exhausted
    /\ Raises(r)
    /\ IF at[r] = "make" THEN GiveBack(r) ELSE MayLose(r)
    /\ UNCHANGED committed

(* The exit of get_db has a thread of its own, outside the pool.           *)
Close(r) ==
    /\ at[r] = "close" /\ loop = None
    /\ at' = [at EXCEPT ![r] = "done"]
    /\ GiveBack(r)
    /\ UNCHANGED <<route, phase, loop, answer, committed>>

-----------------------------------------------------------------------------
Endpoint(r) ==
    \/ ResolveUser(r) \/ ResolveStore(r) \/ ReadBody(r)
    \/ Handle(r) \/ BeginReport(r) \/ MakeReport(r) \/ Unwind(r) \/ ReadBack(r)
    \/ Check(r) \/ Ingest(r) \/ Record(r) \/ Respond(r)

Serve(r) ==
    \/ Enter(r) \/ Resume(r) \/ CheckOut(r) \/ TimeOut(r) \/ DatabaseFails(r)
    \/ Endpoint(r) \/ Close(r)

Next == \E r \in Requests : Arrive(r) \/ Serve(r)

Spec == Init /\ [][Next]_vars

(* Threads run, the loop takes up what is ready, the waits for the pool    *)
(* and for MongoDB have their time limits, and PostgreSQL ends a statement *)
(* or the driver notices (no time limit is set).  Clients need not call.   *)
Fairness == \A r \in Requests : WF_vars(Serve(r))

FairSpec == Spec /\ Fairness

-----------------------------------------------------------------------------
(* A request is where its route leads.                                     *)
TakesItsRoute(r) ==
    /\ at[r] \in OnLoop \cup {"body", "trail"} => route[r] \in Uploading
    /\ at[r] \in Reporting => route[r] = "report"
    /\ at[r] = "store" => route[r] \in Uploading \cup {"rejections"}
    /\ at[r] = "user" => route[r] \in AllRoutes \ Open
    /\ at[r] \in {"handle", "respond"} => route[r] \notin Uploading
    /\ at[r] \in {"new", "close", "done"} => phase[r] = "waiting"

OccupiesTheLoop(r) == loop = r <=> at[r] \in OnLoop /\ phase[r] = "running"

(* From get_current_user on, a session keeps the connection it took there, *)
(* up to its first commit.                                                 *)
KeepsItsConnection(r) ==
    \/ at[r] \in {"store", "check", "body"}
    \/ at[r] = "ingest" /\ phase[r] # "returned"
    \/ at[r] = "user" /\ phase[r] = "returned"
    \/ at[r] = "handle" /\ route[r] \notin Open
    => answer[r] \in {"refused", "failed"} \/ r \in conns

(* The commit has returned, and the answer is still to come.               *)
IsAccepted(r) ==
    at[r] = "trail" \/ (at[r] = "ingest" /\ phase[r] = "returned" /\ answer[r] = "none")

GivesItBack(r) == IsAccepted(r) => r \notin conns

AnswersLast(r) ==
    /\ answer[r] = "ok" =>
          at[r] \in {"handle", "readback", "trail", "respond", "close", "done"}
    /\ answer[r] # "none" => phase[r] = "returned" \/ at[r] \in {"respond", "close", "done"}
    /\ \/ at[r] \in {"respond", "close", "done"}
       \/ at[r] \in Reporting \cup {"handle", "trail"} /\ phase[r] = "returned"
       => answer[r] # "none"

(* A committed upload is on its way to success, or its commit raised.      *)
StaysCommitted(r) ==
    /\ IsAccepted(r) => r \in committed
    /\ r \in committed =>
          /\ route[r] \in Uploading
          /\ \/ at[r] = "ingest" /\ phase[r] = "returned" /\ answer[r] \in {"none", "failed"}
             \/ at[r] = "trail" /\ answer[r] \in {"none", "ok"}
             \/ at[r] \in {"close", "done"} /\ answer[r] \in {"ok", "failed"}

RequestInv(r) ==
    /\ TakesItsRoute(r) /\ OccupiesTheLoop(r) /\ KeepsItsConnection(r)
    /\ GivesItBack(r) /\ AnswersLast(r) /\ StaysCommitted(r)

(* The inductive invariant of this module.                                 *)
PoolInv == PoolTypeOK /\ \A r \in Requests : RequestInv(r)

(* The coroutine of an upload does its database work on the event loop, so *)
(* it must never wait there for a connection: whoever holds one needs the  *)
(* loop to give it back, and everybody would stand still.                  *)
LoopNeverWaits == loop # None => loop \in conns

(* "with MongoDB down, the driver's server-selection timeout must delay    *)
(* only this request": an upload that waits for MongoDB occupies neither   *)
(* the loop nor a connection.  It does occupy one of the threads.          *)
TrailHoldsNothingScarce ==
    \A r \in Requests : at[r] = "trail" => loop # r /\ r \notin conns

(* "a MongoDB outage must not fail an upload that PostgreSQL already       *)
(* accepted", and nothing else may: once the commit has returned, the      *)
(* answer is success; a refusal leaves nothing.  An error answers an       *)
(* upload only at its commit or before it, so a client that sends it again *)
(* doubles at most what a commit applied though it raised.                 *)
AnswersFollowTheCommit ==
    [][\A r \in Requests :
          route[r] \in Uploading /\ answer[r] = "none" =>
              /\ answer'[r] = "ok" => r \in committed
              /\ answer'[r] = "refused" => r \notin committed'
              /\ answer'[r] = "failed" => r \notin committed]_vars

(* Threads waiting for connections whose holders wait for threads: the     *)
(* time limit of the pool dissolves it, and again and again every request  *)
(* that has arrived is done.  None comes back from there, so this says of  *)
(* each that it is answered.                                               *)
EveryRequestIsAnswered ==
    []<>(\A r \in Requests : at[r] \in {"new", "done"})
=============================================================================
