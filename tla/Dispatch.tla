------------------------------ MODULE Dispatch ------------------------------
(***************************************************************************)
(* How requests become runs, and how the process goes down: the create_run *)
(* endpoint with its idempotency keys, the background tasks it leaves      *)
(* behind, the gate in front of new work, and the drain at shutdown.       *)
(*                                                                         *)
(* A run is named by the request that made it.  Durable are the            *)
(* reservations and the rows; the gate, _active_runs, the background tasks *)
(* and the request threads die with the process.  The walk of a run is one *)
(* step here (RunLifecycle has its steps, and its cancel endpoint), and so  *)
(* is a collector hook.                                                    *)
(***************************************************************************)
EXTENDS Integers

CONSTANTS
  Clients,      \* the create_run requests, and the runs they make
  Keys, NoKey,  \* idempotency keys; NoKey when the header is missing
  Payloads,     \* request fingerprints
  Requests,     \* what the clients may send, one record per client
  MaxRestarts,  \* bound on crashes and restarts of the process
  MaxFaults     \* bound on SQLite failures of the idempotency store

ASSUME KeysAssumption == NoKey \notin Keys
ASSUME RequestsAssumption ==
  Requests \subseteq [Clients -> [key : Keys \cup {NoKey}, payload : Payloads]]
ASSUME BoundsAssumption == MaxRestarts \in Nat /\ MaxFaults \in Nat

VARIABLES
  req,       \* what each client sends
  reserved,  \* the idempotency records
  row,       \* the run rows: status and cancellation flag
  gate,      \* LifecycleManager._state
  open,      \* the stores the shutdown has not closed
  active,    \* AgentRunner._active_runs
  pc, reply, \* each request's thread, and its answer
  work,      \* each run's background task
  outcome,   \* what the walk of a run returned
  launched,  \* the runs whose start_run was entered
  drain, victims, counted, drained,
  restarts, faults

requests == <<pc, reply>>
tasks == <<work, outcome, launched>>
shutdown == <<drain, victims, counted, drained>>
bounds == <<restarts, faults>>
dvars == <<req, reserved, row, gate, open, active, requests, tasks, shutdown,
           bounds>>

-----------------------------------------------------------------------------
(* Rows and reservations.                                                  *)

Terminal == {"COMPLETED", "FAILED", "CANCELLED"}
Statuses ==
  Terminal \cup {"NONE", "QUEUED", "RUNNING", "WAITING_APPROVAL", "CANCELLING"}
Row == [status : Statuses, cancelReq : BOOLEAN]

\* create_or_update_run: the new status wins.  A closed store raises, and the
\* collector swallows it.
Upsert(r, s) ==
  IF "store" \in open THEN [row EXCEPT ![r].status = s] ELSE row

\* request_cancellation, one UPDATE guarded by status and flag.
RequestCancellation(x) ==
  IF x.status \in Terminal \cup {"NONE"} \/ x.cancelReq THEN x
  ELSE [status |-> IF x.status = "WAITING_APPROVAL" THEN "CANCELLED"
                                                    ELSE "CANCELLING",
        cancelReq |-> TRUE]

NoRecord == [status |-> "FREE"]
Record == [status : {"PENDING", "DISPATCHED"}, run : Clients, payload : Payloads]

Answer == [kind : {"none", "unavailable", "conflict", "error", "dispatched",
                   "replayed"},
           run : Clients]
Acknowledged(c) == reply[c].kind \in {"dispatched", "replayed"}

-----------------------------------------------------------------------------
TypeOK ==
  /\ req \in [Clients -> [key : Keys \cup {NoKey}, payload : Payloads]]
  /\ reserved \in [Keys -> Record \cup {NoRecord}]
  /\ row \in [Clients -> Row]
  /\ gate \in {"STARTING", "READY", "DRAINING", "STOPPED"}
  /\ open \subseteq {"runner", "store"}
  /\ active \subseteq Clients /\ launched \subseteq Clients
  /\ pc \in [Clients -> {"new", "reserve", "register", "record", "complete",
                         "answer", "done"}]
  /\ reply \in [Clients -> Answer]
  /\ work \in [Clients -> {"none", "queued", "begun", "running", "ended", "done"}]
  /\ outcome \in [Clients -> Statuses]
  /\ drain \in {"off", "poll", "cancel", "grace", "close", "closed"}
  /\ victims \subseteq Clients /\ counted \subseteq Clients
  /\ drained \in BOOLEAN
  /\ restarts \in 0..MaxRestarts /\ faults \in 0..MaxFaults

Init ==
  /\ req \in Requests
  /\ reserved = [k \in Keys |-> NoRecord]
  /\ row = [c \in Clients |-> [status |-> "NONE", cancelReq |-> FALSE]]
  /\ gate = "STARTING" /\ open = {"runner", "store"} /\ active = {}
  /\ pc = [c \in Clients |-> "new"]
  /\ reply = [c \in Clients |-> [kind |-> "none", run |-> c]]
  /\ work = [c \in Clients |-> "none"]
  /\ outcome = [c \in Clients |-> "NONE"] /\ launched = {}
  /\ drain = "off" /\ victims = {} /\ counted = {} /\ drained = FALSE
  /\ restarts = 0 /\ faults = 0

Goto(c, p) == pc' = [pc EXCEPT ![c] = p] /\ UNCHANGED reply
Reply(c, k, r) ==
  /\ pc' = [pc EXCEPT ![c] = "done"]
  /\ reply' = [reply EXCEPT ![c] = [kind |-> k, run |-> r]]

-----------------------------------------------------------------------------
(* create_run.                                                             *)

\* check_accepting_work, before the handler runs.
Receive(c) ==
  /\ pc[c] = "new"
  /\ IF gate # "READY" THEN Reply(c, "unavailable", c)
     ELSE Goto(c, IF req[c].key = NoKey THEN "register" ELSE "reserve")
  /\ UNCHANGED <<req, reserved, row, gate, open, active, tasks, shutdown, bounds>>

\* check_or_reserve: the INSERT reserves the key, or finds it taken.
\* Mutant: a record that is not DISPATCHED yet is taken over.
ReserveAgain(c) ==
  LET k == req[c].key  held == reserved[k]
  IN /\ pc[c] = "reserve"
     /\ \/ /\ held.status \in {"FREE", "PENDING"}
           /\ reserved' = [reserved EXCEPT ![k] =
                [status |-> "PENDING", run |-> c, payload |-> req[c].payload]]
           /\ Goto(c, "register")
        \/ /\ held.status = "DISPATCHED" /\ held.payload = req[c].payload
           /\ Reply(c, "replayed", held.run) /\ UNCHANGED reserved
        \/ /\ held.status = "DISPATCHED" /\ held.payload # req[c].payload
           /\ Reply(c, "conflict", c) /\ UNCHANGED reserved
     /\ UNCHANGED <<req, row, gate, open, active, tasks, shutdown, bounds>>
\* Mutant: the fingerprint is not compared.
ReserveAnyPayload(c) ==
  LET k == req[c].key  held == reserved[k]
  IN /\ pc[c] = "reserve"
     /\ \/ /\ held = NoRecord
           /\ reserved' = [reserved EXCEPT ![k] =
                [status |-> "PENDING", run |-> c, payload |-> req[c].payload]]
           /\ Goto(c, "register")
        \/ /\ held # NoRecord
           /\ Reply(c, "replayed", held.run) /\ UNCHANGED reserved
     /\ UNCHANGED <<req, row, gate, open, active, tasks, shutdown, bounds>>
Reserve(c) ==
  LET k == req[c].key  held == reserved[k]
  IN /\ pc[c] = "reserve"
     /\ \/ /\ held = NoRecord
           /\ reserved' = [reserved EXCEPT ![k] =
                [status |-> "PENDING", run |-> c, payload |-> req[c].payload]]
           /\ Goto(c, "register")
        \/ /\ held # NoRecord /\ held.payload = req[c].payload
           /\ Reply(c, "replayed", held.run) /\ UNCHANGED reserved
        \/ /\ held # NoRecord /\ held.payload # req[c].payload
           /\ Reply(c, "conflict", c) /\ UNCHANGED reserved
     /\ UNCHANGED <<req, row, gate, open, active, tasks, shutdown, bounds>>

\* register_run: the run is active before its row exists.
Register(c) ==
  /\ pc[c] = "register"
  /\ active' = active \cup {c}
  /\ Goto(c, "record")
  /\ UNCHANGED <<req, reserved, row, gate, open, tasks, shutdown, bounds>>

\* Mutant: the task is started here, not by the response (create_task).
RecordCreatedAndDispatch(c) ==
  /\ pc[c] = "record"
  /\ row' = Upsert(c, "QUEUED")
  /\ Goto(c, IF req[c].key = NoKey THEN "answer" ELSE "complete")
  /\ work' = [work EXCEPT ![c] = "queued"]
  /\ UNCHANGED <<req, reserved, gate, open, active, outcome, launched, shutdown,
                 bounds>>
RecordCreated(c) ==
  /\ pc[c] = "record"
  /\ row' = Upsert(c, "QUEUED")
  /\ Goto(c, IF req[c].key = NoKey THEN "answer" ELSE "complete")
  /\ UNCHANGED <<req, reserved, gate, open, active, tasks, shutdown, bounds>>

CompleteReservation(c) ==
  /\ pc[c] = "complete"
  /\ reserved' = [reserved EXCEPT ![req[c].key].status = "DISPATCHED"]
  /\ Goto(c, "answer")
  /\ UNCHANGED <<req, row, gate, open, active, tasks, shutdown, bounds>>

\* The idempotency store fails: the request ends with an error, and a task that
\* was only added to it is dropped.
FailRequest(c) ==
  /\ pc[c] \in {"reserve", "complete"} /\ faults < MaxFaults
  /\ faults' = faults + 1
  /\ Reply(c, "error", c)
  /\ UNCHANGED <<req, reserved, row, gate, open, active, tasks, shutdown, restarts>>

\* Mutant: the task is dropped with the response.
AnswerOnly(c) ==
  /\ pc[c] = "answer"
  /\ Reply(c, "dispatched", c)
  /\ UNCHANGED <<req, reserved, row, gate, open, active, tasks, shutdown, bounds>>
\* The response is sent, and then the background task of the request is run.
AnswerAndDispatch(c) ==
  /\ pc[c] = "answer"
  /\ Reply(c, "dispatched", c)
  /\ work' = [work EXCEPT ![c] = "queued"]
  /\ UNCHANGED <<req, reserved, row, gate, open, active, outcome, launched,
                 shutdown, bounds>>

-----------------------------------------------------------------------------
(* start_run, the background task.                                         *)

StartRun(r) ==
  /\ work[r] = "queued"
  /\ work' = [work EXCEPT ![r] = "begun"]
  /\ launched' = launched \cup {r}
  /\ active' = active \cup {r}
  /\ row' = Upsert(r, "QUEUED")
  /\ UNCHANGED <<req, reserved, gate, open, requests, outcome, shutdown, bounds>>

RecordStarted(r) ==
  /\ work[r] = "begun"
  /\ work' = [work EXCEPT ![r] = "running"]
  /\ row' = Upsert(r, "RUNNING")
  /\ UNCHANGED <<req, reserved, gate, open, active, requests, outcome, launched,
                 shutdown, bounds>>

\* What graph.invoke may return: "NONE" is a run that failed at END, for which
\* start_run has no hook.  Without its stores a walk can only raise.
Outcomes(r) ==
  IF open # {"runner", "store"} THEN {"FAILED"}
  ELSE {"COMPLETED", "FAILED", "WAITING_APPROVAL", "NONE"}
       \cup {s \in {"CANCELLED"} : row[r].cancelReq}

\* The walk returns or raises, and the run leaves _active_runs.
\* Mutant: the run leaves _active_runs before the walk is over.
EndWalkEarly(r) ==
  /\ work[r] = "running" /\ r \in active
  /\ active' = active \ {r}
  /\ UNCHANGED <<req, reserved, row, gate, open, requests, tasks, shutdown, bounds>>
EndWalk(r) ==
  /\ work[r] = "running"
  /\ work' = [work EXCEPT ![r] = "ended"]
  /\ \E s \in Outcomes(r) : outcome' = [outcome EXCEPT ![r] = s]
  /\ active' = active \ {r}
  /\ UNCHANGED <<req, reserved, row, gate, open, requests, launched, shutdown,
                 bounds>>

\* Only then is the outcome recorded: mark_cancelled spares a terminal row, the
\* other hooks upsert.
RecordOutcome(r) ==
  /\ work[r] = "ended"
  /\ work' = [work EXCEPT ![r] = "done"]
  /\ outcome' = [outcome EXCEPT ![r] = "NONE"]
  /\ row' = IF \/ outcome[r] = "NONE"
               \/ outcome[r] = "CANCELLED" /\ row[r].status \in Terminal
              THEN row ELSE Upsert(r, outcome[r])
  /\ UNCHANGED <<req, reserved, gate, open, active, requests, launched, shutdown,
                 bounds>>

-----------------------------------------------------------------------------
(* The life of the process.                                                *)

\* lifespan, startup: the result of check_readiness is not looked at.
BecomeReady ==
  /\ gate = "STARTING"
  /\ gate' = "READY"
  /\ UNCHANGED <<req, reserved, row, open, active, requests, tasks, shutdown, bounds>>

\* lifespan, shutdown: the gate closes, and the active runs are counted.
BeginShutdown ==
  /\ gate = "READY"
  /\ gate' = "DRAINING" /\ drain' = "poll" /\ counted' = active
  /\ UNCHANGED <<req, reserved, row, open, active, requests, tasks, victims,
                 drained, bounds>>

DrainReports(verdict) ==
  /\ drained' = verdict
  /\ gate' = "STOPPED" /\ drain' = "close"

\* drain: a poll finds no active run ...
DrainEmpty ==
  /\ drain = "poll" /\ active = {}
  /\ DrainReports(TRUE)
  /\ UNCHANGED <<req, reserved, row, open, active, requests, tasks, victims,
                 counted, bounds>>

\* ... or the deadline passes, and whoever is active then is cancelled,
DrainDeadline ==
  /\ drain = "poll"
  /\ drain' = "cancel" /\ victims' = active
  /\ UNCHANGED <<req, reserved, row, gate, open, active, requests, tasks, counted,
                 drained, bounds>>

DrainCancel(r) ==
  /\ drain = "cancel" /\ r \in victims
  /\ victims' = victims \ {r}
  /\ row' = [row EXCEPT ![r] = RequestCancellation(@)]
  /\ UNCHANGED <<req, reserved, gate, open, active, requests, tasks, drain,
                 counted, drained, bounds>>

DrainAllCancelled ==
  /\ drain = "cancel" /\ victims = {}
  /\ drain' = "grace"
  /\ UNCHANGED <<req, reserved, row, gate, open, active, requests, tasks, victims,
                 counted, drained, bounds>>

\* and the grace period ends when no run is active, or by its own deadline.
\* Mutant: the grace period has no deadline.
DrainGracePatient ==
  /\ drain = "grace" /\ active = {}
  /\ DrainReports(TRUE)
  /\ UNCHANGED <<req, reserved, row, open, active, requests, tasks, victims,
                 counted, bounds>>
DrainGrace ==
  /\ drain = "grace"
  /\ DrainReports(active = {})
  /\ UNCHANGED <<req, reserved, row, open, active, requests, tasks, victims,
                 counted, bounds>>

\* lifespan closes the checkpointer, then the telemetry store.
CloseStores ==
  /\ drain = "close"
  /\ \/ open = {"runner", "store"} /\ open' = {"store"} /\ UNCHANGED drain
     \/ open = {"store"} /\ open' = {} /\ drain' = "closed"
  /\ UNCHANGED <<req, reserved, row, gate, active, requests, tasks, victims,
                 counted, drained, bounds>>

\* The process ends, by a crash or after its shutdown, and comes up again.
Restart ==
  /\ restarts < MaxRestarts
  /\ restarts' = restarts + 1
  /\ gate' = "STARTING" /\ open' = {"runner", "store"} /\ active' = {}
  /\ pc' = [c \in Clients |-> IF pc[c] = "new" THEN "new" ELSE "done"]
  /\ work' = [c \in Clients |-> IF work[c] = "none" THEN "none" ELSE "done"]
  /\ outcome' = [c \in Clients |-> "NONE"]
  /\ drain' = "off" /\ victims' = {} /\ counted' = {} /\ drained' = FALSE
  /\ UNCHANGED <<req, reserved, row, reply, launched, faults>>

-----------------------------------------------------------------------------
HandleRequest(c) ==
  \/ Receive(c) \/ Reserve(c) \/ Register(c) \/ RecordCreated(c)
  \/ CompleteReservation(c) \/ FailRequest(c) \/ AnswerAndDispatch(c)

RunTask(r) == StartRun(r) \/ RecordStarted(r) \/ EndWalk(r) \/ RecordOutcome(r)

Drain ==
  \/ DrainEmpty \/ DrainDeadline \/ DrainAllCancelled \/ DrainGrace
  \/ CloseStores \/ \E r \in Clients : DrainCancel(r)

DispatchNext ==
  \/ BecomeReady \/ BeginShutdown \/ Drain \/ Restart
  \/ \E c \in Clients : HandleRequest(c) \/ RunTask(c)

\* A request and its task, one after the other, where they must not stand still.
Thread(c) ==
  \/ pc[c] # "new" /\ HandleRequest(c)
  \/ StartRun(c) \/ RecordStarted(c) \/ RecordOutcome(c)

\* Threads that run keep running, and the timers of a shutdown expire.  Nobody
\* has to send a request, end a walk or stop the process.
DispatchFairness ==
  /\ WF_dvars(BecomeReady) /\ WF_dvars(Drain)
  /\ \A c \in Clients : WF_dvars(Thread(c))

DispatchSpec == Init /\ [][DispatchNext]_dvars /\ DispatchFairness

-----------------------------------------------------------------------------
(* What dispatching promises.                                              *)

(***************************************************************************)
(* An idempotency key starts at most one run: whatever is retried, races,  *)
(* fails half-way or is cut off by a restart ("atomic reservation and      *)
(* replay across process restarts and workers", IdempotencyStore).         *)
(***************************************************************************)
OneRunPerKey ==
  \A c, d \in launched :
    req[c].key = req[d].key /\ req[c].key # NoKey => c = d

(***************************************************************************)
(* All clients that are told of a run under one key are told of the same   *)
(* run, and it is the run of a request that carried the same payload.      *)
(***************************************************************************)
RepliesNameTheRun ==
  \A c \in Clients : Acknowledged(c) =>
    LET r == reply[c].run
    IN /\ req[r] = req[c] \/ r = c
       /\ \A d \in Clients :
            Acknowledged(d) /\ req[d].key = req[c].key /\ req[c].key # NoKey
              => reply[d].run = r

(***************************************************************************)
(* Reservations, failures, answers, background tasks, shutdowns and        *)
(* restarts together do no more than IdempotentRuns allows: a key is       *)
(* claimed once and for ever, only the claimant's run is ever answered or  *)
(* started under it, only for the same request, and no run is started      *)
(* twice or without its client having been told.                           *)
(***************************************************************************)
Claimed ==
  {c \in Clients : /\ req[c].key # NoKey /\ reserved[req[c].key] # NoRecord
                   /\ reserved[req[c].key].run = c}
Told == [c \in Clients |-> IF Acknowledged(c) THEN {reply[c].run} ELSE {}]
Keyed == INSTANCE IdempotentRuns
           WITH claimed <- Claimed, told <- Told, started <- launched
ImplementsIdempotentRuns == Keyed!Spec

(***************************************************************************)
(* A drain that reports drained left none of the runs it counted at the    *)
(* start of the shutdown executing or waiting to execute.                  *)
(***************************************************************************)
DrainedIsQuiet ==
  drained => \A r \in counted : work[r] \notin {"queued", "begun", "running"}

(***************************************************************************)
(* A client that was told of a run gets that run: it is started, unless    *)
(* the process ends first or the request that made it failed.              *)
(***************************************************************************)
AcknowledgedStarts ==
  \A c, r \in Clients :
    Acknowledged(c) /\ reply[c].run = r
      ~> r \in launched \/ restarts > 0 \/ faults > 0

(***************************************************************************)
(* A shutdown ends, however many runs are active and whatever they do.     *)
(***************************************************************************)
ShutdownCompletes == gate = "DRAINING" ~> gate # "DRAINING"

(***************************************************************************)
(* The drain never cancels a run that waits for its reviewer               *)
(* ("Waiting-approval preservation across drain/shutdown", and             *)
(* test_waiting_approval_runs_are_not_cancelled_by_drain).                 *)
(***************************************************************************)
PauseSurvivesDrain ==
  [][victims' # victims =>
       \A r \in Clients :
         row[r].status = "WAITING_APPROVAL" => row'[r].status = "WAITING_APPROVAL"
    ]_dvars
=============================================================================
