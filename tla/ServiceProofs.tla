--------------------------- MODULE ServiceProofs ---------------------------
(***************************************************************************)
(* The safety of Dispatch, and of Watchdog beside it, for any number of    *)
(* requests, keys, payloads, watchdogs, restarts and faults, and the       *)
(* refinement of IdempotentRuns.                                           *)
(*                                                                         *)
(* The inductive invariant of the dispatch says that a request past its    *)
(* reservation owns the record of its key from then on, through restarts   *)
(* and failures, that an answer under a key names the owner, and that a    *)
(* run between its registration and the end of its walk is active.  With   *)
(* watchdogs, that whoever is about to report a run is the only one, and   *)
(* that a flagged run is cancelled, about to be, or ended.                 *)
(***************************************************************************)
EXTENDS Watchdog, TLAPS

Held(c) == reserved[req[c].key]

\* The record of c's key was made by c.
Owns(c) ==
  req[c].key # NoKey =>
    Held(c) # NoRecord /\ Held(c).run = c /\ Held(c).payload = req[c].payload

KeyInv(c) == pc[c] \in {"reserve", "complete"} => req[c].key # NoKey

Reserved(c) ==
  \/ pc[c] \in {"register", "record", "complete", "answer"}
  \/ work[c] # "none"
  \/ c \in launched

OwnerInv(c) == Reserved(c) => Owns(c)

RecordInv(k) ==
  reserved[k] # NoRecord =>
    /\ req[reserved[k].run].key = k
    /\ req[reserved[k].run].payload = reserved[k].payload

ReplyInv(c) ==
  /\ reply[c].kind = "dispatched" => reply[c].run = c /\ Owns(c)
  /\ reply[c].kind = "replayed" =>
       /\ req[c].key # NoKey /\ Held(c) # NoRecord
       /\ Held(c).run = reply[c].run /\ Held(c).payload = req[c].payload

Busy(c) ==
  pc[c] \in {"record", "complete", "answer"} \/ work[c] \in {"queued", "begun", "running"}

ActiveInv(c) ==
  /\ work[c] # "none" => pc[c] = "done"
  /\ Busy(c) => c \in active
  /\ c \in active \cup counted => pc[c] \notin {"new", "reserve", "register"}
  /\ drained => gate = "STOPPED"
  /\ drained /\ c \in counted => ~Busy(c)

Inv ==
  /\ TypeOK
  /\ \A k \in Keys : RecordInv(k)
  /\ \A c \in Clients : KeyInv(c) /\ OwnerInv(c) /\ ReplyInv(c) /\ ActiveInv(c)

-----------------------------------------------------------------------------
(* Rows, answers and records.                                              *)

\* Hooks and cancellations leave rows rows.
LEMMA RowOperators ==
  ASSUME row \in [Clients -> Row], NEW r \in Clients, NEW s \in Statuses
  PROVE  /\ Upsert(r, s) \in [Clients -> Row]
         /\ RequestCancellation(row[r]) \in Row
BY DEF Upsert, RequestCancellation, Row, Statuses, Terminal

\* A record is not the absence of one.
LEMMA RecordIsNotFree == ASSUME NEW x \in Record PROVE x # NoRecord
BY DEF Record, NoRecord

\* Answers are well typed.
LEMMA ReplyType ==
  ASSUME TypeOK, NEW c \in Clients, NEW r \in Clients,
         NEW k \in {"unavailable", "conflict", "error", "dispatched", "replayed"},
         Reply(c, k, r)
  PROVE  /\ pc' \in [Clients -> {"new", "reserve", "register", "record", "complete",
                                 "answer", "done"}]
         /\ reply' \in [Clients -> Answer]
BY DEF TypeOK, Reply, Answer

\* What a client sends, and a record that it may find.
LEMMA RequestType ==
  ASSUME TypeOK, NEW c \in Clients
  PROVE  req[c].key \in Keys \cup {NoKey} /\ req[c].payload \in Payloads
<1>1. req[c] \in [key : Keys \cup {NoKey}, payload : Payloads]
  BY DEF TypeOK
<1> QED BY <1>1

\* A record that is there names a client.
LEMMA ReservedType ==
  ASSUME TypeOK, NEW k \in Keys, reserved[k] # NoRecord
  PROVE  reserved[k] \in Record /\ reserved[k].run \in Clients
<1>1. reserved[k] \in Record
  BY DEF TypeOK
<1> QED BY <1>1 DEF Record

-----------------------------------------------------------------------------
(* Types.                                                                  *)

\* The initial state is well typed.
LEMMA TypeInit == Init => TypeOK
<1> SUFFICES ASSUME Init PROVE TypeOK
  OBVIOUS
<1>1. req \in [Clients -> [key : Keys \cup {NoKey}, payload : Payloads]]
  BY RequestsAssumption DEF Init
<1>2. row \in [Clients -> Row] /\ reply \in [Clients -> Answer]
  BY DEF Init, Row, Statuses, Answer
<1>3. restarts \in 0..MaxRestarts /\ faults \in 0..MaxFaults
  BY BoundsAssumption DEF Init
<1> QED
  BY <1>1, <1>2, <1>3 DEF Init, TypeOK, Statuses

\* The steps of a request.
LEMMA RequestTypes ==
  ASSUME Inv, NEW c \in Clients, HandleRequest(c) PROVE TypeOK'
<1>0. TypeOK
  BY DEF Inv
<1>1. CASE Receive(c)
  <2>1. CASE Reply(c, "unavailable", c)
    BY <1>0, <1>1, <2>1, ReplyType DEF Receive, TypeOK, tasks, shutdown, bounds
  <2>2. CASE \E p \in {"register", "reserve"} : Goto(c, p)
    BY <1>0, <1>1, <2>2 DEF Receive, Goto, TypeOK, tasks, shutdown, bounds
  <2> QED
    BY <1>0, <1>1, <2>1, <2>2 DEF Receive
<1>2. CASE Reserve(c)
  <2>1. CASE pc' = [pc EXCEPT ![c] = "register"] /\ UNCHANGED reply
    <3>1. reserved' = [reserved EXCEPT ![req[c].key] =
             [status |-> "PENDING", run |-> c, payload |-> req[c].payload]]
      BY <1>0, <1>2, <2>1 DEF Reserve, Goto, Reply, TypeOK
    <3>2. [status |-> "PENDING", run |-> c, payload |-> req[c].payload] \in Record
      BY <1>0, RequestType DEF Record
    <3> QED
      BY <1>0, <1>2, <2>1, <3>1, <3>2 DEF Reserve, TypeOK, tasks, shutdown, bounds
  <2>2. CASE \E k \in {"replayed", "conflict"}, r \in Clients :
               Reply(c, k, r) /\ UNCHANGED reserved
    BY <1>0, <1>2, <2>2, ReplyType DEF Reserve, TypeOK, tasks, shutdown, bounds
  <2>3. req[c].key \in Keys
    BY <1>0, <1>2, RequestType DEF Reserve, Inv, KeyInv
  <2>4. Held(c) # NoRecord => Held(c).run \in Clients
    BY <1>0, <2>3, ReservedType DEF Held
  <2> QED
    BY <1>2, <2>1, <2>2, <2>4 DEF Reserve, Goto, Held
<1>3. CASE Register(c)
  BY <1>0, <1>3 DEF Register, Goto, TypeOK, tasks, shutdown, bounds
<1>4. CASE RecordCreated(c)
  <2>1. row' \in [Clients -> Row]
    BY <1>0, <1>4, RowOperators DEF RecordCreated, TypeOK, Statuses
  <2> QED
    BY <1>0, <1>4, <2>1 DEF RecordCreated, Goto, TypeOK, tasks, shutdown, bounds
<1>5. CASE CompleteReservation(c)
  <2>1. req[c].key \in Keys /\ Held(c) \in Record
    <3>1. req[c].key \in Keys /\ Held(c) # NoRecord
      BY <1>0, <1>5, RequestType DEF CompleteReservation, Inv, KeyInv, OwnerInv,
                                                  Reserved, Owns
    <3> QED
      BY <1>0, <3>1, ReservedType DEF Held
  <2>2. [Held(c) EXCEPT !.status = "DISPATCHED"] \in Record
    BY <2>1 DEF Record
  <2>3. reserved' \in [Keys -> Record \cup {NoRecord}]
    BY <1>0, <1>5, <2>2 DEF CompleteReservation, Held, TypeOK
  <2> QED
    BY <1>0, <1>5, <2>3 DEF CompleteReservation, Goto, TypeOK, tasks, shutdown, bounds
<1>6. CASE FailRequest(c)
  BY <1>0, <1>6, ReplyType, BoundsAssumption DEF FailRequest, TypeOK, tasks, shutdown
<1>7. CASE AnswerAndDispatch(c)
  BY <1>0, <1>7, ReplyType DEF AnswerAndDispatch, TypeOK, shutdown, bounds
<1> QED
  BY <1>0, <1>1, <1>2, <1>3, <1>4, <1>5, <1>6, <1>7 DEF HandleRequest

\* The steps of a background task.
LEMMA TaskTypes == ASSUME TypeOK, NEW r \in Clients, RunTask(r) PROVE TypeOK'
<1> USE DEF requests, shutdown, bounds
<1>1. CASE StartRun(r)
  BY <1>1, RowOperators DEF StartRun, TypeOK, Statuses
<1>2. CASE RecordStarted(r)
  BY <1>2, RowOperators DEF RecordStarted, TypeOK, Statuses
<1>3. CASE EndWalk(r)
  <2>1. Outcomes(r) \subseteq Statuses
    BY DEF Outcomes, Statuses, Terminal
  <2> QED
    BY <1>3, <2>1 DEF EndWalk, TypeOK
<1>4. CASE RecordOutcome(r)
  BY <1>4, RowOperators DEF RecordOutcome, TypeOK, Statuses
<1> QED
  BY <1>1, <1>2, <1>3, <1>4 DEF RunTask

\* The steps of a shutdown and of a restart.
LEMMA ProcessTypes ==
  ASSUME TypeOK, BecomeReady \/ BeginShutdown \/ Drain \/ Restart PROVE TypeOK'
<1> USE DEF requests, tasks, bounds
<1>1. CASE BecomeReady \/ BeginShutdown
  BY <1>1 DEF BecomeReady, BeginShutdown, TypeOK, shutdown
<1>2. CASE DrainEmpty \/ DrainDeadline \/ DrainAllCancelled \/ DrainGrace
  BY <1>2 DEF DrainEmpty, DrainDeadline, DrainAllCancelled, DrainGrace,
              DrainReports, TypeOK
<1>3. CASE CloseStores
  BY <1>3 DEF CloseStores, TypeOK
<1>4. ASSUME NEW r \in Clients, DrainCancel(r) PROVE TypeOK'
  BY <1>4, RowOperators DEF DrainCancel, TypeOK, Statuses
<1>5. CASE Restart
  <2>1. /\ pc' \in [Clients -> {"new", "done"}]
        /\ work' \in [Clients -> {"none", "done"}]
        /\ outcome' \in [Clients -> Statuses]
    BY <1>5 DEF Restart, Statuses
  <2>2. restarts' \in 0..MaxRestarts
    BY <1>5, BoundsAssumption DEF Restart, TypeOK
  <2> QED
    BY <1>5, <2>1, <2>2 DEF Restart, TypeOK
<1> QED
  BY <1>1, <1>2, <1>3, <1>4, <1>5 DEF Drain

\* Every step of the dispatch keeps the types.
LEMMA TypeStep == Inv /\ [DispatchNext]_dvars => TypeOK'
<1> SUFFICES ASSUME Inv, [DispatchNext]_dvars PROVE TypeOK'
  OBVIOUS
<1>0. TypeOK
  BY DEF Inv
<1>1. CASE UNCHANGED dvars
  BY <1>0, <1>1 DEF dvars, requests, tasks, shutdown, bounds, TypeOK
<1> QED
  BY <1>0, <1>1, RequestTypes, TaskTypes, ProcessTypes DEF DispatchNext
-----------------------------------------------------------------------------
(* The invariant.                                                          *)

\* The invariant holds initially.
LEMMA InvInit == Init => Inv
<1> SUFFICES ASSUME Init PROVE Inv
  OBVIOUS
<1>1. \A k \in Keys : RecordInv(k)
  BY DEF Init, RecordInv
<1>2. ASSUME NEW c \in Clients
      PROVE  KeyInv(c) /\ OwnerInv(c) /\ ReplyInv(c) /\ ActiveInv(c)
  BY DEF Init, KeyInv, OwnerInv, Reserved, ReplyInv, ActiveInv, Busy
<1> QED
  BY <1>1, <1>2, TypeInit DEF Inv

\* Nothing but Reserve and CompleteReservation touches the records, and neither
\* takes one from its owner.
LEMMA RecordsStay ==
  ASSUME Inv, [DispatchNext]_dvars
  PROVE  /\ req' = req
         /\ \A k \in Keys : reserved[k] # NoRecord =>
              /\ reserved'[k] # NoRecord
              /\ reserved'[k].run = reserved[k].run
              /\ reserved'[k].payload = reserved[k].payload
<1>0. TypeOK
  BY DEF Inv
<1> DEFINE Stay == \A k \in Keys : reserved[k] # NoRecord =>
              /\ reserved'[k] # NoRecord
              /\ reserved'[k].run = reserved[k].run
              /\ reserved'[k].payload = reserved[k].payload
<1>1. ASSUME NEW c \in Clients, Reserve(c) PROVE req' = req /\ Stay
  <2>1. \/ reserved' = reserved
        \/ Held(c) = NoRecord /\ \E x : reserved' = [reserved EXCEPT ![req[c].key] = x]
    BY <1>1 DEF Reserve, Held
  <2> QED
    BY <1>0, <1>1, <2>1 DEF Reserve, Held, TypeOK
<1>2. ASSUME NEW c \in Clients, CompleteReservation(c) PROVE req' = req /\ Stay
  <2>1. ASSUME NEW k \in Keys, reserved[k] # NoRecord
        PROVE  /\ reserved'[k] # NoRecord
               /\ reserved'[k].run = reserved[k].run
               /\ reserved'[k].payload = reserved[k].payload
    <3>1. reserved[k] \in Record
      BY <1>0, <2>1, ReservedType
    <3>2. [reserved[k] EXCEPT !.status = "DISPATCHED"] \in Record
      BY <3>1 DEF Record
    <3>3. [reserved[k] EXCEPT !.status = "DISPATCHED"] # NoRecord
      BY <3>2, RecordIsNotFree
    <3>4. reserved'[k] \in {reserved[k], [reserved[k] EXCEPT !.status = "DISPATCHED"]}
      BY <1>0, <1>2 DEF CompleteReservation, TypeOK
    <3> QED
      BY <2>1, <3>1, <3>3, <3>4 DEF Record
  <2> QED
    BY <1>2, <2>1 DEF CompleteReservation
<1>3. CASE req' = req /\ reserved' = reserved
  BY <1>3
<1>4. ASSUME NEW c \in Clients, HandleRequest(c) \/ RunTask(c)
      PROVE  Reserve(c) \/ CompleteReservation(c) \/ (req' = req /\ reserved' = reserved)
  BY <1>4 DEF HandleRequest, RunTask, Receive, Register, RecordCreated, FailRequest,
              AnswerAndDispatch, StartRun, RecordStarted, EndWalk, RecordOutcome
<1>5. CASE \/ BecomeReady \/ BeginShutdown \/ Drain \/ Restart \/ UNCHANGED dvars
  BY <1>3, <1>5 DEF BecomeReady, BeginShutdown, Drain, DrainEmpty, DrainDeadline,
                    DrainAllCancelled, DrainGrace, DrainCancel, CloseStores, Restart,
                    dvars
<1> QED
  BY <1>1, <1>2, <1>3, <1>4, <1>5 DEF DispatchNext

\* An owner stays one.
LEMMA OwnsStays ==
  ASSUME Inv, [DispatchNext]_dvars, NEW c \in Clients, Owns(c) PROVE Owns(c)'
<1>1. req[c].key # NoKey => req[c].key \in Keys
  BY RequestType DEF Inv
<1> QED
  BY <1>1, RecordsStay DEF Owns, Held

\* A request comes to own its key's record in Reserve, where it makes it.
LEMMA OwnerStep ==
  ASSUME Inv, [DispatchNext]_dvars, NEW c \in Clients PROVE OwnerInv(c)'
<1>0. TypeOK /\ OwnerInv(c) /\ KeyInv(c)
  BY DEF Inv
<1>1. CASE Reserved(c)
  BY <1>0, <1>1, OwnsStays DEF OwnerInv
<1>2. CASE Reserve(c) /\ pc' = [pc EXCEPT ![c] = "register"]
  <2>1. req[c].key \in Keys
    BY <1>0, <1>2, RequestType DEF Reserve, KeyInv
  <2>2. reserved' = [reserved EXCEPT ![req[c].key] =
             [status |-> "PENDING", run |-> c, payload |-> req[c].payload]]
    BY <1>0, <1>2 DEF Reserve, Goto, Reply, TypeOK
  <2>3. [status |-> "PENDING", run |-> c, payload |-> req[c].payload] \in Record
    BY <1>0, RequestType DEF Record
  <2>4. Owns(c)'
    BY <1>0, <1>2, <2>1, <2>2, <2>3, RecordIsNotFree DEF Owns, Held, Reserve, TypeOK
  <2> QED
    BY <2>4 DEF OwnerInv
<1>3. CASE Receive(c) /\ req[c].key = NoKey
  BY <1>3 DEF Receive, OwnerInv, Owns
<1>4. CASE ~Reserved(c)'
  BY <1>4 DEF OwnerInv
<1>5. CASE UNCHANGED dvars
  BY <1>0, <1>5 DEF dvars, requests, tasks, OwnerInv, Reserved, Owns, Held
<1>6. ASSUME NEW d \in Clients, HandleRequest(d), ~Reserved(c)
      PROVE  OwnerInv(c)'
  <2>1. CASE Receive(d)
    BY <1>0, <1>3, <1>4, <1>6, <2>1 DEF Receive, Reserved, Reply, Goto, tasks, TypeOK
  <2>2. CASE Reserve(d)
    BY <1>0, <1>2, <1>4, <1>6, <2>2 DEF Reserve, Reserved, Reply, Goto, tasks, TypeOK
  <2>3. CASE \/ Register(d) \/ RecordCreated(d) \/ CompleteReservation(d)
             \/ FailRequest(d)
    BY <1>0, <1>4, <1>6, <2>3 DEF Register, RecordCreated, CompleteReservation,
       FailRequest, Reserved, Reply, Goto, tasks, TypeOK
  <2>4. CASE AnswerAndDispatch(d)
    BY <1>0, <1>4, <1>6, <2>4 DEF AnswerAndDispatch, Reserved, Reply, TypeOK
  <2> QED
    BY <1>6, <2>1, <2>2, <2>3, <2>4 DEF HandleRequest
<1>7. ASSUME NEW d \in Clients, RunTask(d), ~Reserved(c) PROVE OwnerInv(c)'
  BY <1>0, <1>4, <1>7 DEF RunTask, StartRun, RecordStarted, EndWalk, RecordOutcome,
                         Reserved, requests, TypeOK
<1>8. CASE (BecomeReady \/ BeginShutdown \/ Drain \/ Restart) /\ ~Reserved(c)
  BY <1>0, <1>4, <1>8 DEF BecomeReady, BeginShutdown, Drain, DrainEmpty, DrainDeadline,
     DrainAllCancelled, DrainGrace, DrainCancel, CloseStores, Restart, Reserved,
     requests, tasks, TypeOK
<1> QED
  BY <1>1, <1>5, <1>6, <1>7, <1>8 DEF DispatchNext

\* A request reaches the idempotency store only with a key.
LEMMA KeyStep ==
  ASSUME Inv, [DispatchNext]_dvars, NEW c \in Clients PROVE KeyInv(c)'
<1>0. TypeOK /\ KeyInv(c) /\ req' = req
  BY RecordsStay DEF Inv
<1>1. CASE UNCHANGED pc
  BY <1>0, <1>1 DEF KeyInv
<1>2. ASSUME NEW d \in Clients, HandleRequest(d) PROVE KeyInv(c)'
  BY <1>0, <1>2 DEF HandleRequest, Receive, Reserve, Register, RecordCreated,
     CompleteReservation, FailRequest, AnswerAndDispatch, Reply, Goto, KeyInv, TypeOK
<1>3. CASE Restart
  BY <1>3 DEF Restart, KeyInv
<1>4. ASSUME NEW d \in Clients, RunTask(d) PROVE UNCHANGED pc
  BY <1>4 DEF RunTask, StartRun, RecordStarted, EndWalk, RecordOutcome, requests
<1>5. CASE BecomeReady \/ BeginShutdown \/ Drain \/ UNCHANGED dvars
  BY <1>1, <1>5 DEF BecomeReady, BeginShutdown, Drain, DrainEmpty, DrainDeadline,
     DrainAllCancelled, DrainGrace, DrainCancel, CloseStores, requests, dvars
<1> QED
  BY <1>1, <1>2, <1>3, <1>4, <1>5 DEF DispatchNext

\* A record is that of a request with its key and its payload.
LEMMA RecordStep ==
  ASSUME Inv, [DispatchNext]_dvars, NEW k \in Keys PROVE RecordInv(k)'
<1>0. TypeOK /\ RecordInv(k) /\ req' = req
  BY RecordsStay DEF Inv
<1>1. CASE reserved[k] # NoRecord
  BY <1>0, <1>1, RecordsStay DEF RecordInv
<1>2. CASE reserved'[k] = reserved[k]
  BY <1>0, <1>2 DEF RecordInv
<1>3. ASSUME NEW c \in Clients, Reserve(c), reserved[k] = NoRecord PROVE RecordInv(k)'
  <2>1. CASE req[c].key = k /\ reserved' = [reserved EXCEPT ![k] =
               [status |-> "PENDING", run |-> c, payload |-> req[c].payload]]
    BY <1>0, <2>1 DEF RecordInv, TypeOK
  <2> QED
    BY <1>0, <1>2, <1>3, <2>1 DEF Reserve, TypeOK
<1>4. ASSUME NEW c \in Clients, CompleteReservation(c), reserved[k] = NoRecord
      PROVE  RecordInv(k)'
  <2>1. Owns(c) /\ req[c].key # NoKey
    BY <1>4 DEF Inv, OwnerInv, KeyInv, Reserved, CompleteReservation
  <2>2. req[c].key # k
    BY <1>4, <2>1 DEF Owns, Held
  <2> QED
    BY <1>0, <1>2, <1>4, <2>2 DEF CompleteReservation, TypeOK
<1>5. ASSUME NEW c \in Clients, HandleRequest(c) \/ RunTask(c)
      PROVE  Reserve(c) \/ CompleteReservation(c) \/ reserved' = reserved
  BY <1>5 DEF HandleRequest, RunTask, Receive, Register, RecordCreated, FailRequest,
              AnswerAndDispatch, StartRun, RecordStarted, EndWalk, RecordOutcome
<1>6. CASE BecomeReady \/ BeginShutdown \/ Drain \/ Restart \/ UNCHANGED dvars
  BY <1>2, <1>6 DEF BecomeReady, BeginShutdown, Drain, DrainEmpty, DrainDeadline,
     DrainAllCancelled, DrainGrace, DrainCancel, CloseStores, Restart, dvars
<1> QED
  BY <1>1, <1>2, <1>3, <1>4, <1>5, <1>6 DEF DispatchNext

\* An answer that names a run names the owner of the key, for good.
LEMMA ReplyStep ==
  ASSUME Inv, [DispatchNext]_dvars, NEW c \in Clients PROVE ReplyInv(c)'
<1>0. TypeOK /\ ReplyInv(c) /\ OwnerInv(c) /\ KeyInv(c) /\ req' = req
  BY RecordsStay DEF Inv
<1>1. req[c].key # NoKey => req[c].key \in Keys
  BY <1>0, RequestType
<1>2. CASE reply'[c] = reply[c]
  BY <1>0, <1>1, <1>2, OwnsStays, RecordsStay DEF ReplyInv, Held
<1>3. CASE reply'[c].kind \notin {"dispatched", "replayed"}
  BY <1>3 DEF ReplyInv
<1>4. CASE Reserve(c) /\ reply'[c] = [kind |-> "replayed", run |-> Held(c).run]
  <2>1. req[c].key # NoKey /\ req[c].key \in Keys
    BY <1>0, <1>1, <1>4 DEF Reserve, KeyInv
  <2>2. Held(c) # NoRecord /\ Held(c).payload = req[c].payload
    BY <1>0, <1>4 DEF Reserve, Held, Goto, Reply, ReplyInv, TypeOK
  <2> QED
    BY <1>0, <1>4, <2>1, <2>2, RecordsStay DEF ReplyInv, Held
<1>5. CASE AnswerAndDispatch(c) /\ reply'[c] = [kind |-> "dispatched", run |-> c]
  <2>1. Owns(c)
    BY <1>0, <1>5 DEF AnswerAndDispatch, OwnerInv, Reserved
  <2> QED
    BY <1>5, <2>1, OwnsStays DEF ReplyInv
<1>6. ASSUME NEW d \in Clients, HandleRequest(d) PROVE ReplyInv(c)'
  BY <1>0, <1>2, <1>3, <1>4, <1>5, <1>6 DEF HandleRequest, Receive, Reserve, Register,
     RecordCreated, CompleteReservation, FailRequest, AnswerAndDispatch, Reply, Goto,
     Held, TypeOK
<1>7. ASSUME NEW d \in Clients, RunTask(d) PROVE reply' = reply
  BY <1>7 DEF RunTask, StartRun, RecordStarted, EndWalk, RecordOutcome, requests
<1>8. CASE BecomeReady \/ BeginShutdown \/ Drain \/ Restart \/ UNCHANGED dvars
  BY <1>2, <1>8 DEF BecomeReady, BeginShutdown, Drain, DrainEmpty, DrainDeadline,
     DrainAllCancelled, DrainGrace, DrainCancel, CloseStores, Restart, requests, dvars
<1> QED
  BY <1>2, <1>6, <1>7, <1>8 DEF DispatchNext

\* A run is active from its registration to the end of its walk, and the ones a
\* shutdown counted were registered: none of them is left when it reports drained.
LEMMA ActiveStep ==
  ASSUME Inv, [DispatchNext]_dvars, NEW c \in Clients PROVE ActiveInv(c)'
<1>0. TypeOK /\ ActiveInv(c)
  BY DEF Inv
<1>1. ASSUME NEW d \in Clients, HandleRequest(d) PROVE ActiveInv(c)'
  <2>1. CASE Receive(d)
    BY <1>0, <2>1 DEF Receive, Reply, Goto, ActiveInv, Busy, TypeOK, tasks, shutdown
  <2>2. CASE Reserve(d)
    BY <1>0, <2>2 DEF Reserve, Reply, Goto, ActiveInv, Busy, TypeOK, tasks, shutdown
  <2>3. CASE Register(d) \/ RecordCreated(d) \/ CompleteReservation(d)
    BY <1>0, <2>3 DEF Register, RecordCreated, CompleteReservation, Goto, ActiveInv,
                      Busy, TypeOK, tasks, shutdown
  <2>4. CASE FailRequest(d)
    BY <1>0, <2>4 DEF FailRequest, Reply, ActiveInv, Busy, TypeOK, tasks, shutdown
  <2>5. CASE AnswerAndDispatch(d)
    BY <1>0, <2>5 DEF AnswerAndDispatch, Reply, ActiveInv, Busy, TypeOK, shutdown
  <2> QED
    BY <1>1, <2>1, <2>2, <2>3, <2>4, <2>5 DEF HandleRequest
<1>2. ASSUME NEW r \in Clients, RunTask(r) PROVE ActiveInv(c)'
  <2> USE DEF requests, shutdown
  <2>1. CASE StartRun(r) \/ RecordStarted(r)
    BY <1>0, <2>1 DEF StartRun, RecordStarted, ActiveInv, Busy, TypeOK
  <2>2. CASE EndWalk(r)
    BY <1>0, <2>2 DEF EndWalk, ActiveInv, Busy, TypeOK
  <2>3. CASE RecordOutcome(r)
    BY <1>0, <2>3 DEF RecordOutcome, ActiveInv, Busy, TypeOK
  <2> QED
    BY <1>2, <2>1, <2>2, <2>3 DEF RunTask
<1>3. CASE BecomeReady \/ BeginShutdown \/ Restart \/ UNCHANGED dvars
  <2> USE DEF requests, tasks, shutdown
  <2>1. CASE BecomeReady \/ UNCHANGED dvars
    BY <1>0, <2>1 DEF BecomeReady, dvars, ActiveInv, Busy
  <2>2. CASE BeginShutdown
    BY <1>0, <2>2 DEF BeginShutdown, ActiveInv, Busy
  <2>3. CASE Restart
    BY <1>0, <2>3 DEF Restart, ActiveInv, Busy
  <2> QED
    BY <1>3, <2>1, <2>2, <2>3
<1>4. CASE DrainEmpty \/ DrainGrace
  BY <1>0, <1>4 DEF DrainEmpty, DrainGrace, DrainReports, ActiveInv, Busy, TypeOK,
                    requests, tasks
<1>5. ASSUME \/ DrainDeadline \/ DrainAllCancelled \/ CloseStores
             \/ \E r \in Clients : DrainCancel(r)
      PROVE  ActiveInv(c)'
  BY <1>0, <1>5 DEF DrainDeadline, DrainAllCancelled, CloseStores, DrainCancel,
                    ActiveInv, Busy, requests, tasks
<1> QED
  BY <1>1, <1>2, <1>3, <1>4, <1>5 DEF DispatchNext, Drain

\* The invariant of the dispatch is inductive.
LEMMA InvStep == Inv /\ [DispatchNext]_dvars => Inv'
<1> SUFFICES ASSUME Inv, [DispatchNext]_dvars PROVE Inv'
  OBVIOUS
<1> QED
  BY TypeStep, RecordStep, KeyStep, OwnerStep, ReplyStep, ActiveStep DEF Inv

-----------------------------------------------------------------------------
(* What the invariant implies.                                             *)

\* Two runs of one key both own its record, which names one run.
LEMMA OneRun == Inv => OneRunPerKey
<1> SUFFICES ASSUME Inv, NEW c \in launched, NEW d \in launched,
                    req[c].key = req[d].key, req[c].key # NoKey
             PROVE  c = d
  BY DEF OneRunPerKey
<1>1. c \in Clients /\ d \in Clients
  BY DEF Inv, TypeOK
<1>2. Owns(c) /\ Owns(d)
  BY <1>1 DEF Inv, OwnerInv, Reserved
<1> QED
  BY <1>2 DEF Owns, Held

\* An answer names the owner of the key, whose record carries its payload.
LEMMA NamedRuns == Inv => RepliesNameTheRun
<1> SUFFICES ASSUME Inv, NEW c \in Clients, Acknowledged(c)
             PROVE  /\ req[reply[c].run] = req[c] \/ reply[c].run = c
                    /\ \A d \in Clients :
                         Acknowledged(d) /\ req[d].key = req[c].key /\ req[c].key # NoKey
                           => reply[d].run = reply[c].run
  BY DEF RepliesNameTheRun
<1>1. ASSUME NEW d \in Clients, Acknowledged(d), req[d].key # NoKey
      PROVE  Held(d) # NoRecord /\ Held(d).run = reply[d].run
             /\ Held(d).payload = req[d].payload
  BY <1>1 DEF Acknowledged, Inv, ReplyInv, Owns
<1>2. req[reply[c].run] = req[c] \/ reply[c].run = c
  <2> SUFFICES ASSUME reply[c].run # c PROVE req[reply[c].run] = req[c]
    OBVIOUS
  <2> DEFINE r == reply[c].run
  <2>1. req[c].key # NoKey /\ Held(c).run = r /\ Held(c).payload = req[c].payload
        /\ Held(c) # NoRecord
    BY DEF Acknowledged, Inv, ReplyInv
  <2>2. req[c].key \in Keys
    BY <2>1, RequestType DEF Inv
  <2>3. r \in Clients
    BY <2>1, <2>2, ReservedType DEF Inv, Held
  <2>4. req[r].key = req[c].key /\ req[r].payload = req[c].payload
    BY <2>1, <2>2 DEF Inv, RecordInv, Held
  <2>5. req[r] \in [key : Keys \cup {NoKey}, payload : Payloads]
        /\ req[c] \in [key : Keys \cup {NoKey}, payload : Payloads]
    BY <2>3 DEF Inv, TypeOK
  <2> QED
    BY <2>4, <2>5
<1> QED
  BY <1>1, <1>2 DEF Held

\* A run at work is busy, and no counted run is once a drain reports drained.
LEMMA Quiet == Inv => DrainedIsQuiet
BY DEF Inv, TypeOK, ActiveInv, Busy, DrainedIsQuiet

-----------------------------------------------------------------------------
(* The dispatch implements IdempotentRuns.  Beyond the invariant, a run is *)
(* started once, by the task that the answer of its own request left.      *)

TaskInv(c) ==
  /\ pc[c] # "done" => ~Acknowledged(c)
  /\ work[c] = "queued" => reply[c].kind = "dispatched"
  /\ work[c] \in {"none", "queued"} => c \notin launched

OnceInv == Inv /\ \A c \in Clients : TaskInv(c)

\* Nobody was told of a run, or had one started, before the first request.
LEMMA OnceInit == Init => OnceInv
<1>1. ASSUME Init, NEW c \in Clients PROVE TaskInv(c)
  BY <1>1 DEF Init, TaskInv, Acknowledged
<1> QED
  BY <1>1, InvInit DEF OnceInv

\* No record is there, and nothing is claimed, told or started.
LEMMA KeyedInit == Init => Keyed!Init
<1> SUFFICES ASSUME Init PROVE Keyed!Init
  OBVIOUS
<1>1. \A c \in Clients : req[c].key # NoKey => reserved[req[c].key] = NoRecord
  <2>1. \A c \in Clients : req[c].key \in Keys \cup {NoKey}
    BY TypeInit, RequestType
  <2> QED
    BY <2>1 DEF Init
<1>2. Claimed = {}
  BY <1>1 DEF Claimed
<1>3. Told = [c \in Clients |-> {}]
  BY DEF Init, Told, Acknowledged
<1> QED
  BY <1>2, <1>3 DEF Init, Keyed!Init

\* A task is queued by an answer, once: its request is done from then on.
LEMMA OnceStep == OnceInv /\ [DispatchNext]_dvars => OnceInv'
<1> SUFFICES ASSUME OnceInv, [DispatchNext]_dvars, NEW c \in Clients PROVE TaskInv(c)'
  BY InvStep DEF OnceInv
<1>0. TypeOK /\ TaskInv(c) /\ ActiveInv(c)
  BY DEF OnceInv, Inv
<1>1. ASSUME NEW d \in Clients, HandleRequest(d) PROVE TaskInv(c)'
  <2>1. CASE Receive(d)
    BY <1>0, <2>1 DEF Receive, Reply, Goto, TaskInv, Acknowledged, TypeOK, tasks
  <2>2. CASE Reserve(d)
    BY <1>0, <2>2 DEF Reserve, Reply, Goto, TaskInv, Acknowledged, ActiveInv, TypeOK, tasks
  <2>3. CASE Register(d) \/ RecordCreated(d) \/ CompleteReservation(d)
    BY <1>0, <2>3 DEF Register, RecordCreated, CompleteReservation, Goto, TaskInv,
                      Acknowledged, TypeOK, tasks
  <2>4. CASE FailRequest(d)
    BY <1>0, <2>4 DEF FailRequest, Reply, TaskInv, Acknowledged, ActiveInv, TypeOK, tasks
  <2>5. CASE AnswerAndDispatch(d)
    BY <1>0, <2>5 DEF AnswerAndDispatch, Reply, TaskInv, Acknowledged, ActiveInv, TypeOK
  <2> QED
    BY <1>1, <2>1, <2>2, <2>3, <2>4, <2>5 DEF HandleRequest
<1>2. ASSUME NEW r \in Clients, RunTask(r) PROVE TaskInv(c)'
  BY <1>0, <1>2 DEF RunTask, StartRun, RecordStarted, EndWalk, RecordOutcome, TaskInv,
                    Acknowledged, TypeOK, requests
<1>3. CASE BecomeReady \/ BeginShutdown \/ Drain \/ UNCHANGED dvars
  BY <1>0, <1>3 DEF BecomeReady, BeginShutdown, Drain, DrainEmpty, DrainDeadline,
     DrainAllCancelled, DrainGrace, DrainCancel, CloseStores, TaskInv, Acknowledged,
     requests, tasks, dvars
<1>4. CASE Restart
  BY <1>0, <1>4 DEF Restart, TaskInv, Acknowledged
<1> QED
  BY <1>1, <1>2, <1>3, <1>4 DEF DispatchNext

\* The record of a key makes its run a claimant, and sent by the client it names.
LEMMA RecordClaims ==
  ASSUME Inv, NEW c \in Clients, req[c].key # NoKey, Held(c) # NoRecord,
         Held(c).payload = req[c].payload
  PROVE  Held(c).run \in Claimed /\ req[Held(c).run] = req[c]
<1> DEFINE r == Held(c).run
<1>1. req[c].key \in Keys
  BY RequestType DEF Inv
<1>2. r \in Clients
  BY <1>1, ReservedType DEF Inv, Held
<1>3. req[r].key = req[c].key /\ req[r].payload = req[c].payload
  BY <1>1 DEF Inv, RecordInv, Held
<1>4. req[r] \in [key : Keys \cup {NoKey}, payload : Payloads]
      /\ req[c] \in [key : Keys \cup {NoKey}, payload : Payloads]
  BY <1>2 DEF Inv, TypeOK
<1>5. req[r] = req[c]
  BY <1>3, <1>4
<1> QED
  BY <1>2, <1>3, <1>5 DEF Claimed, Held

\* A reservation that finds no record claims the key.
LEMMA ReserveClaims ==
  ASSUME Inv, NEW c \in Clients, Reserve(c), Held(c) = NoRecord
  PROVE  Keyed!Claim(c)
<1>0. TypeOK /\ req[c].key # NoKey /\ req[c].key \in Keys
  BY RequestType DEF Inv, Reserve, KeyInv
<1>1. /\ reserved' = [reserved EXCEPT ![req[c].key] =
             [status |-> "PENDING", run |-> c, payload |-> req[c].payload]]
      /\ UNCHANGED <<req, reply, launched>>
  BY DEF Reserve, Held, Goto, tasks
<1>2. \A d \in Claimed : req[d].key # req[c].key
  BY DEF Claimed, Held
<1>3. [status |-> "PENDING", run |-> c, payload |-> req[c].payload] # NoRecord
  <2>1. [status |-> "PENDING", run |-> c, payload |-> req[c].payload] \in Record
    BY <1>0, RequestType DEF Record
  <2> QED
    BY <2>1, RecordIsNotFree
<1>4. ASSUME NEW d \in Clients PROVE d \in Claimed' <=> d \in Claimed \cup {c}
  <2>1. CASE req[d].key = req[c].key
    <3>1. reserved'[req[d].key]
            = [status |-> "PENDING", run |-> c, payload |-> req[c].payload]
      BY <1>0, <1>1, <2>1 DEF TypeOK
    <3> QED
      BY <1>0, <1>1, <1>2, <1>3, <2>1, <3>1 DEF Claimed
  <2>2. CASE req[d].key # req[c].key
    <3>1. req[d].key # NoKey => req[d].key \in Keys
      BY <1>0, RequestType
    <3>2. req[d].key # NoKey => reserved'[req[d].key] = reserved[req[d].key]
      BY <1>0, <1>1, <2>2, <3>1 DEF TypeOK
    <3> QED
      BY <1>1, <2>2, <3>2 DEF Claimed
  <2> QED
    BY <2>1, <2>2
<1>5. Claimed' = Claimed \cup {c}
  BY <1>4 DEF Claimed
<1>6. Told' = Told
  BY <1>1 DEF Told, Acknowledged
<1> QED
  BY <1>0, <1>1, <1>2, <1>5, <1>6 DEF Keyed!Claim

\* A request that was answered with a run was answered in IdempotentRuns.
LEMMA AnswerNames ==
  ASSUME OnceInv, NEW c \in Clients, NEW r \in Clients, pc[c] # "done",
         NEW k \in {"dispatched", "replayed"}, Reply(c, k, r),
         IF req[c].key = NoKey THEN r = c ELSE r \in Claimed /\ req[r] = req[c],
         UNCHANGED <<req, reserved, launched>>
  PROVE  Keyed!Answer(c, r)
<1>0. TypeOK /\ ~Acknowledged(c)
  BY DEF OnceInv, Inv, TaskInv
<1>1. Told[c] = {}
  BY <1>0 DEF Told
<1>2. Claimed' = Claimed
  BY DEF Claimed
<1>3. Told' = [Told EXCEPT ![c] = {r}]
  <2>1. /\ reply'[c].kind \in {"dispatched", "replayed"} /\ reply'[c].run = r
        /\ \A d \in Clients \ {c} : reply'[d] = reply[d]
    BY <1>0 DEF Reply, TypeOK
  <2>2. Told'[c] = {r} /\ \A d \in Clients \ {c} : Told'[d] = Told[d]
    BY <2>1 DEF Told, Acknowledged
  <2> QED
    BY <2>2 DEF Told
<1> QED
  BY <1>1, <1>2, <1>3 DEF Keyed!Answer

\* A request that goes on, or is answered without a run, shows nothing.
LEMMA TellsNothing ==
  ASSUME OnceInv, UNCHANGED <<req, launched>>, Claimed' = Claimed,
         \/ UNCHANGED reply
         \/ \E c \in Clients, k \in {"unavailable", "conflict", "error"} :
              pc[c] # "done" /\ Reply(c, k, c)
  PROVE  UNCHANGED <<req, Claimed, Told, launched>>
<1>1. CASE UNCHANGED reply
  BY <1>1 DEF Told, Acknowledged
<1>2. ASSUME NEW c \in Clients, NEW k \in {"unavailable", "conflict", "error"},
             pc[c] # "done", Reply(c, k, c)
      PROVE  Told' = Told
  <2>1. ~Acknowledged(c) /\ reply \in [Clients -> Answer]
    BY <1>2 DEF OnceInv, Inv, TypeOK, TaskInv
  <2>2. reply'[c].kind = k /\ \A d \in Clients \ {c} : reply'[d] = reply[d]
    BY <1>2, <2>1 DEF Reply
  <2> QED
    BY <2>1, <2>2 DEF Told, Acknowledged
<1> QED
  BY <1>1, <1>2

\* A completed record has the run it had.
LEMMA CompleteClaims ==
  ASSUME Inv, NEW c \in Clients, CompleteReservation(c) PROVE Claimed' = Claimed
<1>0. TypeOK /\ req' = req
  BY DEF Inv, CompleteReservation
<1>1. ASSUME NEW d \in Clients PROVE d \in Claimed' <=> d \in Claimed
  <2> DEFINE k == req[d].key
  <2>1. k # NoKey => k \in Keys
    BY <1>0, RequestType
  <2>2. CASE k # NoKey /\ reserved[k] # NoRecord
    <3>1. /\ reserved'[k] # NoRecord /\ reserved'[k].run = reserved[k].run
      BY <2>1, <2>2, RecordsStay DEF DispatchNext, HandleRequest
    <3> QED
      BY <1>0, <2>2, <3>1 DEF Claimed
  <2>3. CASE k # NoKey /\ reserved[k] = NoRecord
    <3>1. Owns(c) /\ req[c].key # NoKey
      BY DEF Inv, OwnerInv, KeyInv, Reserved, CompleteReservation
    <3>2. k # req[c].key
      BY <2>3, <3>1 DEF Owns, Held
    <3>3. reserved'[k] = reserved[k]
      BY <1>0, <2>1, <2>3, <3>2 DEF CompleteReservation, TypeOK
    <3> QED
      BY <1>0, <2>3, <3>3 DEF Claimed
  <2>4. CASE k = NoKey
    BY <1>0, <2>4 DEF Claimed
  <2> QED
    BY <2>2, <2>3, <2>4
<1> QED
  BY <1>1 DEF Claimed

\* Every step of the dispatch is a step of IdempotentRuns, or shows nothing.
LEMMA DispatchSimulates ==
  OnceInv /\ [DispatchNext]_dvars =>
    Keyed!Next \/ UNCHANGED <<req, Claimed, Told, launched>>
<1> DEFINE Shown == Keyed!Next \/ UNCHANGED <<req, Claimed, Told, launched>>
<1> SUFFICES ASSUME OnceInv, [DispatchNext]_dvars PROVE Shown
  OBVIOUS
<1>0. Inv /\ TypeOK
  BY DEF OnceInv, Inv
<1>1. ASSUME NEW c \in Clients, Reserve(c) PROVE Shown
  <2>0. pc[c] # "done" /\ UNCHANGED <<req, launched>>
    BY <1>1 DEF Reserve, tasks
  <2>1. CASE Held(c) = NoRecord
    BY <1>0, <1>1, <2>1, ReserveClaims DEF Keyed!Next
  <2>2. CASE Held(c) # NoRecord /\ Held(c).payload = req[c].payload
    <3>1. req[c].key # NoKey
      BY <1>0, <1>1 DEF Inv, KeyInv, Reserve
    <3>2. Held(c).run \in Claimed /\ req[Held(c).run] = req[c]
      BY <1>0, <2>2, <3>1, RecordClaims
    <3>3. Reply(c, "replayed", Held(c).run) /\ UNCHANGED reserved
      BY <1>1, <2>2 DEF Reserve, Held
    <3>4. Held(c).run \in Clients
      BY <3>2 DEF Claimed
    <3>5. Keyed!Answer(c, Held(c).run)
      BY <2>0, <3>1, <3>2, <3>3, <3>4, AnswerNames
    <3> QED
      BY <3>4, <3>5 DEF Keyed!Next
  <2>3. CASE Held(c) # NoRecord /\ Held(c).payload # req[c].payload
    <3>1. Reply(c, "conflict", c) /\ Claimed' = Claimed
      BY <1>1, <2>3 DEF Reserve, Held, Claimed
    <3> QED
      BY <2>0, <3>1, TellsNothing
  <2> QED
    BY <2>1, <2>2, <2>3
<1>2. ASSUME NEW c \in Clients, AnswerAndDispatch(c) PROVE Shown
  <2>1. /\ pc[c] = "answer" /\ Reply(c, "dispatched", c)
        /\ UNCHANGED <<req, reserved, launched>>
    BY <1>2 DEF AnswerAndDispatch
  <2>2. Owns(c)
    BY <1>0, <2>1 DEF Inv, OwnerInv, Reserved
  <2>3. req[c].key # NoKey => c \in Claimed
    BY <2>2 DEF Owns, Held, Claimed
  <2>4. Keyed!Answer(c, c)
    BY <2>1, <2>3, AnswerNames
  <2> QED
    BY <2>4 DEF Keyed!Next
<1>3. ASSUME NEW c \in Clients, StartRun(c) PROVE Shown
  <2>1. reply[c].kind = "dispatched" /\ c \notin launched
    BY <1>3 DEF StartRun, OnceInv, TaskInv
  <2>2. reply[c].run = c
    BY <1>0, <2>1 DEF Inv, ReplyInv
  <2>3. Told[c] = {c}
    BY <2>1, <2>2 DEF Told, Acknowledged
  <2>4. launched' = launched \cup {c} /\ UNCHANGED <<req, Claimed, Told>>
    BY <1>3 DEF StartRun, Claimed, Told, Acknowledged, requests
  <2> QED
    BY <2>1, <2>3, <2>4 DEF Keyed!Next, Keyed!Start
<1>4. ASSUME NEW c \in Clients,
             \/ Receive(c) \/ Register(c) \/ RecordCreated(c)
             \/ CompleteReservation(c) \/ FailRequest(c)
      PROVE  Shown
  <2>1. UNCHANGED <<req, launched>> /\ pc[c] # "done"
    BY <1>4 DEF Receive, Register, RecordCreated, CompleteReservation, FailRequest, tasks
  <2>2. \/ UNCHANGED reply
        \/ \E k \in {"unavailable", "error"} : Reply(c, k, c)
    BY <1>4 DEF Receive, Register, RecordCreated, CompleteReservation, FailRequest, Goto
  <2>3. Claimed' = Claimed
    <3>1. CASE CompleteReservation(c)
      BY <1>0, <3>1, CompleteClaims
    <3>2. CASE ~CompleteReservation(c)
      BY <1>4, <3>2 DEF Receive, Register, RecordCreated, FailRequest, Claimed
    <3> QED
      BY <3>1, <3>2
  <2> QED
    BY <2>1, <2>2, <2>3, TellsNothing
<1>5. ASSUME NEW r \in Clients, RecordStarted(r) \/ EndWalk(r) \/ RecordOutcome(r)
      PROVE  Shown
  BY <1>5 DEF RecordStarted, EndWalk, RecordOutcome, Claimed, Told, Acknowledged, requests
<1>6. CASE BecomeReady \/ BeginShutdown \/ Drain \/ Restart \/ UNCHANGED dvars
  BY <1>6 DEF BecomeReady, BeginShutdown, Drain, DrainEmpty, DrainDeadline,
     DrainAllCancelled, DrainGrace, DrainCancel, CloseStores, Restart, Claimed, Told,
     Acknowledged, requests, tasks, dvars
<1> QED
  BY <1>1, <1>2, <1>3, <1>4, <1>5, <1>6 DEF DispatchNext, HandleRequest, RunTask

-----------------------------------------------------------------------------
(* An acknowledged run is on its way until it is started.                  *)

\* Run r was started, waits to be, or is with the request that will answer; or
\* something failed.
Pending(r) ==
  \/ r \in launched \/ restarts > 0 \/ faults > 0
  \/ work[r] = "queued" \/ pc[r] \in {"register", "record", "complete", "answer"}

PendingInv ==
  /\ \A k \in Keys : reserved[k] # NoRecord => Pending(reserved[k].run)
  /\ \A c \in Clients : Acknowledged(c) => Pending(reply[c].run)

\* No step loses a pending run: only a failure or a restart drops it.
LEMMA PendingStays ==
  ASSUME Inv, NEW r \in Clients, Pending(r), [DispatchNext]_dvars
  PROVE  Pending(r)'
<1>0. TypeOK /\ restarts \in Nat /\ faults \in Nat /\ ActiveInv(r)
  BY BoundsAssumption DEF Inv, TypeOK
<1>1. ASSUME NEW c \in Clients, HandleRequest(c) PROVE Pending(r)'
  <2>1. CASE Receive(c) \/ Reserve(c)
    BY <1>0, <2>1 DEF Receive, Reserve, Goto, Reply, Pending, TypeOK, tasks, bounds
  <2>2. CASE Register(c) \/ RecordCreated(c) \/ CompleteReservation(c)
    BY <1>0, <2>2 DEF Register, RecordCreated, CompleteReservation, Goto, Pending,
                      TypeOK, tasks, bounds
  <2>3. CASE FailRequest(c)
    BY <1>0, <2>3 DEF FailRequest, Pending
  <2>4. CASE AnswerAndDispatch(c)
    BY <1>0, <2>4 DEF AnswerAndDispatch, Reply, Pending, TypeOK, bounds
  <2> QED
    BY <1>1, <2>1, <2>2, <2>3, <2>4 DEF HandleRequest
<1>2. ASSUME NEW c \in Clients, RunTask(c) PROVE Pending(r)'
  BY <1>0, <1>2 DEF RunTask, StartRun, RecordStarted, EndWalk, RecordOutcome, Pending,
                    TypeOK, requests, bounds
<1>3. CASE BecomeReady \/ BeginShutdown \/ Drain \/ UNCHANGED dvars
  BY <1>3 DEF BecomeReady, BeginShutdown, Drain, DrainEmpty, DrainDeadline,
     DrainAllCancelled, DrainGrace, DrainCancel, CloseStores, Pending, requests,
     tasks, bounds, dvars
<1>4. CASE Restart
  BY <1>0, <1>4 DEF Restart, Pending
<1> QED
  BY <1>1, <1>2, <1>3, <1>4 DEF DispatchNext

\* A request that claims a key or answers for a run is pending itself, and a
\* replay names a run whose record is there.
LEMMA PendingStep == Inv /\ PendingInv /\ [DispatchNext]_dvars => PendingInv'
<1> SUFFICES ASSUME Inv, PendingInv, [DispatchNext]_dvars PROVE PendingInv'
  OBVIOUS
<1>0. TypeOK /\ TypeOK'
  BY InvStep DEF Inv
<1>1. ASSUME NEW k \in Keys, reserved'[k] # NoRecord
      PROVE  Pending(reserved[k].run)'
  <2>1. CASE reserved[k] # NoRecord
    <3>1. PICK r \in Clients : r = reserved[k].run /\ r = reserved'[k].run
      BY <2>1, RecordsStay, ReservedType DEF Inv
    <3>2. Pending(r)
      BY <2>1, <3>1 DEF PendingInv
    <3>3. Pending(r)'
      BY <3>2, PendingStays
    <3> QED
      BY <3>1, <3>3 DEF Pending
  <2>2. CASE reserved[k] = NoRecord
    <3>1. PICK c \in Clients : Reserve(c) \/ CompleteReservation(c)
      BY <1>1, <2>2
      DEF DispatchNext, HandleRequest, RunTask, Drain, Receive, Register, RecordCreated,
          FailRequest, AnswerAndDispatch, StartRun, RecordStarted, EndWalk,
          RecordOutcome, BecomeReady, BeginShutdown, DrainEmpty, DrainDeadline,
          DrainCancel, DrainAllCancelled, DrainGrace, CloseStores, Restart, dvars
    <3>2. ~(CompleteReservation(c) /\ req[c].key = k)
      <4>1. pc[c] = "complete" => Owns(c) /\ req[c].key # NoKey
        BY DEF Inv, OwnerInv, KeyInv, Reserved
      <4> QED
        BY <2>2, <4>1 DEF CompleteReservation, Owns, Held
    <3>3. Reserve(c) /\ req[c].key = k
      BY <1>0, <1>1, <2>2, <3>1, <3>2 DEF Reserve, CompleteReservation, TypeOK
    <3>4. reserved'[k].run = c /\ pc'[c] = "register"
      BY <1>0, <1>1, <2>2, <3>3 DEF Reserve, Goto, TypeOK
    <3> QED
      BY <3>4 DEF Pending
  <2> QED
    BY <2>1, <2>2
<1>2. ASSUME NEW c \in Clients, Acknowledged(c)' PROVE Pending(reply[c].run)'
  <2>1. CASE reply'[c] = reply[c]
    <3>1. PICK r \in Clients : r = reply[c].run /\ r = reply'[c].run
      BY <1>0, <1>2, <2>1 DEF TypeOK, Answer
    <3>2. Pending(r)
      BY <1>2, <2>1, <3>1 DEF PendingInv, Acknowledged
    <3>3. Pending(r)'
      BY <3>2, PendingStays
    <3> QED
      BY <3>1, <3>3 DEF Pending
  <2>2. CASE reply'[c] # reply[c]
    <3>1. PICK d \in Clients : HandleRequest(d)
      BY <2>2
      DEF DispatchNext, RunTask, Drain, StartRun, RecordStarted, EndWalk,
          RecordOutcome, BecomeReady, BeginShutdown, DrainEmpty, DrainDeadline,
          DrainCancel, DrainAllCancelled, DrainGrace, CloseStores, Restart, dvars,
          requests
    <3>2. CASE AnswerAndDispatch(d)
      BY <1>0, <2>2, <3>2 DEF AnswerAndDispatch, Reply, Pending, TypeOK
    <3>3. CASE Reserve(d)
      <4>1. /\ c = d /\ req[c].key \in Keys /\ reserved[req[c].key] # NoRecord
            /\ reply'[c].run = reserved[req[c].key].run
        <5>1. KeyInv(d) /\ req[d].key \in Keys \cup {NoKey}
          BY <1>0, RequestType DEF Inv
        <5> QED
          BY <1>0, <1>2, <2>2, <3>3, <5>1 DEF Reserve, Reply, Goto, Acknowledged,
                                              KeyInv, TypeOK
      <4>2. PICK r \in Clients : r = reserved[req[c].key].run
        BY <4>1, ReservedType DEF Inv
      <4>3. Pending(r)
        BY <4>1, <4>2 DEF PendingInv
      <4>4. Pending(r)'
        BY <4>3, PendingStays
      <4> QED
        BY <4>1, <4>2, <4>4 DEF Pending
    <3>4. CASE \/ Receive(d) \/ Register(d) \/ RecordCreated(d) \/ FailRequest(d)
               \/ CompleteReservation(d)
      BY <1>0, <1>2, <2>2, <3>4 DEF Receive, Register, RecordCreated, FailRequest,
         CompleteReservation, Reply, Goto, Acknowledged, TypeOK
    <3> QED
      BY <3>1, <3>2, <3>3, <3>4 DEF HandleRequest
  <2> QED
    BY <2>1, <2>2
<1> QED
  BY <1>1, <1>2 DEF PendingInv

-----------------------------------------------------------------------------
(* Watchdogs beside the dispatch.                                          *)

Reporting(w, r) == wpc[w] = "report" /\ target[w] = r

\* Whoever is about to report a run has flagged it, nobody has reported it, and
\* nobody else is about to.
ReportInv(w) ==
  wpc[w] = "report" =>
    /\ target[w] \in stuck /\ events[target[w]] = 0
    /\ \A v \in Watchdogs : Reporting(v, target[w]) => v = w

\* Only a run that has been idle is listed, looked at or flagged.
IdleInv(w) ==
  /\ seen[w] \subseteq everIdle
  /\ wpc[w] \in {"mark", "report", "cancel"} => target[w] \in everIdle

EventInv(r) == events[r] \in 0..1 /\ (r \notin stuck => events[r] = 0)

WInv ==
  /\ WTypeOK
  /\ \A w \in Watchdogs : ReportInv(w) /\ IdleInv(w)
  /\ \A r \in Clients : EventInv(r)
  /\ stuck \subseteq everIdle

\* The invariants hold initially.
LEMMA WatchInit == WInit => Inv /\ WInv
<1> SUFFICES ASSUME WInit PROVE Inv /\ WInv
  OBVIOUS
<1>1. Inv
  BY InvInit DEF WInit
<1>2. WTypeOK
  BY <1>1, BoundsAssumption DEF Inv, WInit, WTypeOK
<1>3. /\ \A w \in Watchdogs : ReportInv(w) /\ IdleInv(w)
      /\ \A r \in Clients : EventInv(r)
      /\ stuck \subseteq everIdle
  BY DEF WInit, ReportInv, IdleInv, EventInv
<1> QED
  BY <1>1, <1>2, <1>3 DEF WInv

\* A cancellation by a watchdog touches nothing of the dispatch but a row.
LEMMA CancelKeeps ==
  ASSUME Inv, WInv, NEW w \in Watchdogs, CancelStuck(w) PROVE Inv'
<1> USE DEF requests, tasks, shutdown, bounds
<1>1. row' \in [Clients -> Row]
  <2>1. target[w] \in Clients /\ row \in [Clients -> Row]
    BY DEF WInv, WTypeOK, TypeOK
  <2>2. RequestCancellation(row[target[w]]) \in Row
    BY <2>1, RowOperators DEF Statuses
  <2> QED
    BY <2>1, <2>2 DEF CancelStuck
<1>2. TypeOK'
  BY <1>1 DEF CancelStuck, Inv, TypeOK
<1>3. \A k \in Keys : RecordInv(k)'
  BY DEF CancelStuck, Inv, RecordInv
<1>4. ASSUME NEW c \in Clients
      PROVE  KeyInv(c)' /\ OwnerInv(c)' /\ ReplyInv(c)' /\ ActiveInv(c)'
  <2>1. KeyInv(c) /\ OwnerInv(c) /\ ReplyInv(c) /\ ActiveInv(c)
    BY DEF Inv
  <2>2. KeyInv(c)' /\ ActiveInv(c)'
    BY <2>1 DEF CancelStuck, KeyInv, ActiveInv, Busy
  <2>3. OwnerInv(c)' /\ ReplyInv(c)'
    BY <2>1 DEF CancelStuck, OwnerInv, ReplyInv, Reserved, Owns, Held
  <2> QED
    BY <2>2, <2>3
<1> QED
  BY <1>2, <1>3, <1>4 DEF Inv

\* The other steps of the service's surroundings leave the dispatch alone.
LEMMA UnchangedKeeps == ASSUME Inv, UNCHANGED dvars PROVE Inv'
BY InvStep

\* The steps of a watchdog.
LEMMA PassStep ==
  ASSUME Inv, WInv, NEW w \in Watchdogs, ListRuns(w) \/ Pass(w) \/ WatchdogDies(w)
  PROVE  Inv' /\ WInv'
<1>0. /\ WTypeOK /\ stuck \subseteq everIdle
      /\ \A v \in Watchdogs : ReportInv(v) /\ IdleInv(v)
      /\ \A r \in Clients : EventInv(r)
  BY DEF WInv
<1> USE DEF WGoto
<1>1. CASE ListRuns(w)
  <2>1. Inv' /\ TypeOK'
    BY <1>1, UnchangedKeeps DEF ListRuns, Inv
  <2> QED
    BY <1>0, <1>1, <2>1 DEF ListRuns, WInv, WTypeOK, ReportInv, Reporting, IdleInv, EventInv
<1>2. CASE Recheck(w)
  <2>1. Inv' /\ TypeOK'
    BY <1>2, UnchangedKeeps DEF Recheck, Inv
  <2> QED
    BY <1>0, <1>2, <2>1 DEF Recheck, WInv, WTypeOK, ReportInv, Reporting, IdleInv, EventInv
<1>3. CASE MarkStuck(w)
  <2>1. Inv' /\ TypeOK'
    BY <1>3, UnchangedKeeps DEF MarkStuck, Inv
  <2> QED
    BY <1>0, <1>3, <2>1 DEF MarkStuck, WInv, WTypeOK, ReportInv, Reporting, IdleInv, EventInv
<1>4. CASE ReportStuck(w)
  <2>1. Inv' /\ TypeOK'
    BY <1>4, UnchangedKeeps DEF ReportStuck, Inv
  <2> QED
    BY <1>0, <1>4, <2>1 DEF ReportStuck, WInv, WTypeOK, ReportInv, Reporting, IdleInv, EventInv
<1>5. CASE CancelStuck(w)
  <2>1. Inv' /\ TypeOK'
    BY <1>5, CancelKeeps DEF Inv
  <2> QED
    BY <1>0, <1>5, <2>1 DEF CancelStuck, WInv, WTypeOK, ReportInv, Reporting, IdleInv, EventInv
<1>6. CASE EndPass(w) \/ WatchdogDies(w)
  <2>1. Inv' /\ TypeOK'
    BY <1>6, UnchangedKeeps DEF EndPass, WatchdogDies, Inv
  <2>2. wfails' \in 0..MaxFaults
    BY <1>0, <1>6, BoundsAssumption DEF EndPass, WatchdogDies, WTypeOK
  <2> QED
    BY <1>0, <1>6, <2>1, <2>2 DEF EndPass, WatchdogDies, WInv, WTypeOK, ReportInv,
                                  Reporting, IdleInv, EventInv
<1> QED
  BY <1>1, <1>2, <1>3, <1>4, <1>5, <1>6 DEF Pass

\* The invariants are inductive together.
LEMMA WatchStep == Inv /\ WInv /\ [Next]_vars => Inv' /\ WInv'
<1> SUFFICES ASSUME Inv, WInv, [Next]_vars PROVE Inv' /\ WInv'
  OBVIOUS
<1>1. CASE ServiceStep \/ UNCHANGED vars
  <2>1. Inv' /\ TypeOK'
    BY <1>1, InvStep DEF ServiceStep, vars, Inv
  <2>2. idle' \subseteq idle /\ UNCHANGED <<watch, everIdle, wfails>>
    BY <1>1 DEF ServiceStep, vars, wvars
  <2> QED
    BY <2>1, <2>2 DEF watch, WInv, WTypeOK, ReportInv, Reporting, IdleInv, EventInv
<1>2. ASSUME NEW r \in Clients, Heartbeat(r) \/ Elapse(r) PROVE Inv' /\ WInv'
  <2>1. Inv' /\ TypeOK'
    BY <1>2, UnchangedKeeps DEF Heartbeat, Elapse, Inv
  <2> QED
    BY <1>2, <2>1 DEF Heartbeat, Elapse, watch, WInv, WTypeOK, ReportInv, Reporting,
                      IdleInv, EventInv
<1> QED
  BY <1>1, <1>2, PassStep DEF Next

-----------------------------------------------------------------------------
(* A flag is followed up, beside a dispatch that goes on upserting the row *)
(* of the flagged run.                                                     *)

\* A status that ends a run without a cancellation is the last word of its task.
EndedInv(r) ==
  row[r].status \in Terminal => row[r].cancelReq \/ work[r] = "done"

\* Whoever is past the listing of a run looks at a run that has a row.
RowedInv(w) ==
  /\ \A r \in seen[w] : row[r].status # "NONE"
  /\ wpc[w] \in {"mark", "report", "cancel"} => row[target[w]].status # "NONE"

FollowInv ==
  /\ \A r \in Clients : EndedInv(r)
  /\ \A w \in Watchdogs : RowedInv(w)
  /\ FlagIsFollowedUp

\* A row is never withdrawn, nor is its cancellation, nor the end of its run.
RowKept(r) ==
  /\ row[r].cancelReq => row'[r].cancelReq
  /\ row[r].status \in Terminal => row'[r].status \in Terminal \/ row'[r].cancelReq
  /\ row[r].status # "NONE" => row'[r].status # "NONE"

\* A cancellation cancels a row that is there, and spares one that has ended.
LEMMA CancellationCancels ==
  ASSUME NEW x \in Row
  PROVE  /\ x.cancelReq => RequestCancellation(x).cancelReq
         /\ x.status # "NONE" =>
              /\ RequestCancellation(x).status # "NONE"
              /\ \/ RequestCancellation(x).cancelReq
                 \/ RequestCancellation(x).status \in Terminal
         /\ RequestCancellation(x) # x => RequestCancellation(x).cancelReq
  BY DEF RequestCancellation, Row, Terminal

\* The upsert of status s keeps the flag of the row.
LEMMA UpsertKeeps ==
  ASSUME TypeOK, NEW r \in Clients, NEW s, NEW c \in Clients
  PROVE  /\ Upsert(r, s)[c].cancelReq = row[c].cancelReq
         /\ Upsert(r, s)[c] = row[c] \/ (c = r /\ Upsert(r, s)[c].status = s)
  BY DEF Upsert, TypeOK, Row

\* The dispatch keeps rows, and ends a run only by the last hook of its task.
LEMMA DispatchKeepsRows ==
  ASSUME Inv, NEW c \in Clients, EndedInv(c), [DispatchNext]_dvars
  PROVE  RowKept(c) /\ EndedInv(c)'
<1>0. TypeOK /\ ActiveInv(c) /\ row[c] \in Row
  BY DEF Inv, TypeOK
<1>1. ASSUME NEW d \in Clients, RecordCreated(d) \/ StartRun(d) \/ RecordStarted(d)
      PROVE  RowKept(c) /\ EndedInv(c)'
  <2>1. PICK s \in {"QUEUED", "RUNNING"} : row' = Upsert(d, s)
    BY <1>1 DEF RecordCreated, StartRun, RecordStarted
  <2>2. /\ row'[c].cancelReq = row[c].cancelReq
        /\ row'[c] = row[c] \/ (c = d /\ row'[c].status = s)
    BY <1>0, <2>1, UpsertKeeps
  <2>3. work[d] # "done" /\ (c # d => work'[c] = work[c])
    <3>1. ActiveInv(d)
      BY DEF Inv
    <3> QED
      BY <1>0, <1>1, <3>1 DEF RecordCreated, StartRun, RecordStarted, ActiveInv,
                               TypeOK, tasks
  <2>4. CASE row'[c] = row[c] /\ c # d
    BY <2>3, <2>4 DEF RowKept, EndedInv
  <2>5. CASE c = d
    BY <2>2, <2>3, <2>5 DEF RowKept, EndedInv, Terminal
  <2> QED
    BY <2>2, <2>4, <2>5
<1>2. ASSUME NEW d \in Clients, RecordOutcome(d)
      PROVE  RowKept(c) /\ EndedInv(c)'
  <2>1. \/ row' = row
        \/ outcome[d] # "NONE" /\ row' = Upsert(d, outcome[d])
    BY <1>2 DEF RecordOutcome
  <2>2. /\ row'[c].cancelReq = row[c].cancelReq
        /\ row'[c] = row[c] \/ (c = d /\ row'[c].status # "NONE")
    BY <1>0, <2>1, UpsertKeeps
  <2>3. work[d] = "ended" /\ work'[d] = "done" /\ (c # d => work'[c] = work[c])
    BY <1>0, <1>2 DEF RecordOutcome, TypeOK
  <2>4. CASE c # d
    BY <2>2, <2>3, <2>4 DEF RowKept, EndedInv
  <2>5. CASE c = d
    BY <2>2, <2>3, <2>5 DEF RowKept, EndedInv
  <2> QED
    BY <2>4, <2>5
<1>3. ASSUME NEW d \in Clients, DrainCancel(d)
      PROVE  RowKept(c) /\ EndedInv(c)'
  <2>1. row'[c] = row[c] \/ row'[c] = RequestCancellation(row[c])
    BY <1>0, <1>3 DEF DrainCancel, TypeOK
  <2>2. work' = work
    BY <1>3 DEF DrainCancel, tasks
  <2> QED
    BY <1>0, <2>1, <2>2, CancellationCancels DEF RowKept, EndedInv
<1>4. ASSUME row' = row, work[c] = "done" => work'[c] = "done"
      PROVE  RowKept(c) /\ EndedInv(c)'
  BY <1>4 DEF RowKept, EndedInv
<1>5. ASSUME NEW d \in Clients,
             \/ Receive(d) \/ Reserve(d) \/ Register(d) \/ CompleteReservation(d)
             \/ FailRequest(d) \/ AnswerAndDispatch(d) \/ EndWalk(d)
      PROVE  row' = row /\ (work[c] = "done" => work'[c] = "done")
  <2>1. CASE AnswerAndDispatch(d)
    BY <1>0, <2>1 DEF AnswerAndDispatch, ActiveInv, TypeOK
  <2>2. CASE EndWalk(d)
    BY <1>0, <2>2 DEF EndWalk, TypeOK
  <2>3. CASE \/ Receive(d) \/ Reserve(d) \/ Register(d) \/ CompleteReservation(d)
             \/ FailRequest(d)
    BY <2>3 DEF Receive, Reserve, Register, CompleteReservation, FailRequest, tasks
  <2> QED
    BY <1>5, <2>1, <2>2, <2>3
<1>6. ASSUME \/ BecomeReady \/ BeginShutdown \/ Restart \/ UNCHANGED dvars
             \/ DrainEmpty \/ DrainDeadline \/ DrainAllCancelled \/ DrainGrace
             \/ CloseStores
      PROVE  row' = row /\ (work[c] = "done" => work'[c] = "done")
  BY <1>6 DEF BecomeReady, BeginShutdown, Restart, DrainEmpty, DrainDeadline,
     DrainAllCancelled, DrainGrace, CloseStores, tasks, dvars
<1> QED
  BY <1>1, <1>2, <1>3, <1>4, <1>5, <1>6 DEF DispatchNext, HandleRequest, RunTask, Drain

\* What keeps the rows, and moves no watchdog, keeps every flag followed up.
LEMMA RowsKeptFollow ==
  ASSUME WInv, FollowInv, UNCHANGED <<watch, wfails>>,
         \A c \in Clients : RowKept(c) /\ EndedInv(c)'
  PROVE  FollowInv'
<1>1. /\ stuck \subseteq Clients /\ target \in [Watchdogs -> Clients]
      /\ seen \in [Watchdogs -> SUBSET Clients]
  BY DEF WInv, WTypeOK
<1>2. ASSUME NEW w \in Watchdogs PROVE RowedInv(w)'
  <2>1. RowedInv(w) /\ target[w] \in Clients /\ seen[w] \subseteq Clients
    BY <1>1 DEF FollowInv
  <2> QED
    BY <2>1 DEF RowedInv, RowKept, watch
<1>3. FlagIsFollowedUp'
  BY <1>1 DEF FollowInv, FlagIsFollowedUp, RowKept, watch
<1> QED
  BY <1>2, <1>3 DEF FollowInv

\* A pass sets a flag only to report it, and gives up a flagged run only when
\* it has cancelled it.
LEMMA PassFollows ==
  ASSUME Inv, WInv, FollowInv, NEW w \in Watchdogs,
         ListRuns(w) \/ Pass(w) \/ WatchdogDies(w)
  PROVE  FollowInv'
<1>0. /\ stuck \subseteq Clients /\ target \in [Watchdogs -> Clients]
      /\ seen \in [Watchdogs -> SUBSET Clients] /\ wfails \in Nat
      /\ row \in [Clients -> Row] /\ AutoCancel \in BOOLEAN
      /\ wpc \in [Watchdogs -> {"idle", "pass", "mark", "report", "cancel"}]
  BY BoundsAssumption, AutoCancelAssumption DEF WInv, WTypeOK, TypeOK
<1> USE DEF WGoto
<1>1. CASE ListRuns(w)
  <2>1. \A v \in Watchdogs : RowedInv(v)'
    BY <1>0, <1>1 DEF ListRuns, FollowInv, RowedInv, Watched, dvars
  <2>2. FlagIsFollowedUp' /\ \A r \in Clients : EndedInv(r)'
    BY <1>0, <1>1 DEF ListRuns, FollowInv, FlagIsFollowedUp, EndedInv, dvars, tasks
  <2> QED
    BY <2>1, <2>2 DEF FollowInv
<1>2. CASE Recheck(w)
  <2>1. \A v \in Watchdogs : RowedInv(v)'
    BY <1>0, <1>2 DEF Recheck, FollowInv, RowedInv, dvars
  <2>2. FlagIsFollowedUp' /\ \A r \in Clients : EndedInv(r)'
    BY <1>0, <1>2 DEF Recheck, FollowInv, FlagIsFollowedUp, EndedInv, dvars, tasks
  <2> QED
    BY <2>1, <2>2 DEF FollowInv
<1>3. CASE MarkStuck(w)
  <2>1. \A v \in Watchdogs : RowedInv(v)'
    BY <1>0, <1>3 DEF MarkStuck, FollowInv, RowedInv, dvars
  <2>2. FlagIsFollowedUp' /\ \A r \in Clients : EndedInv(r)'
    BY <1>0, <1>3 DEF MarkStuck, FollowInv, FlagIsFollowedUp, EndedInv, dvars, tasks
  <2> QED
    BY <2>1, <2>2 DEF FollowInv
<1>4. CASE ReportStuck(w)
  <2>1. \A v \in Watchdogs : RowedInv(v)'
    BY <1>0, <1>4 DEF ReportStuck, FollowInv, RowedInv, dvars
  <2>2. FlagIsFollowedUp' /\ \A r \in Clients : EndedInv(r)'
    BY <1>0, <1>4 DEF ReportStuck, FollowInv, FlagIsFollowedUp, EndedInv, dvars, tasks
  <2> QED
    BY <2>1, <2>2 DEF FollowInv
<1>5. CASE CancelStuck(w)
  <2>0. target[w] \in Clients /\ row[target[w]].status # "NONE"
    BY <1>0, <1>5 DEF CancelStuck, FollowInv, RowedInv
  <2>1. /\ row'[target[w]] = RequestCancellation(row[target[w]])
        /\ \A c \in Clients \ {target[w]} : row'[c] = row[c]
        /\ UNCHANGED <<work, stuck, seen, target, wfails>>
        /\ wpc' = [wpc EXCEPT ![w] = "pass"]
    BY <1>0, <1>5 DEF CancelStuck, tasks
  <2>2. ASSUME NEW c \in Clients PROVE RowKept(c) /\ EndedInv(c)'
    <3>1. row'[c] = row[c] \/ row'[c] = RequestCancellation(row[c])
      BY <2>1
    <3>2. row[c] \in Row /\ EndedInv(c)
      BY <1>0 DEF FollowInv
    <3> QED
      BY <2>1, <3>1, <3>2, CancellationCancels DEF RowKept, EndedInv
  <2>3. \A v \in Watchdogs : RowedInv(v)'
    BY <1>0, <2>1, <2>2 DEF FollowInv, RowedInv, RowKept
  <2>4. FlagIsFollowedUp'
    <3>1. row'[target[w]].cancelReq \/ row'[target[w]].status \in Terminal
      BY <1>0, <2>0, <2>1, CancellationCancels
    <3> QED
      BY <1>0, <2>1, <2>2, <3>1 DEF FollowInv, FlagIsFollowedUp, RowKept
  <2> QED
    BY <2>2, <2>3, <2>4 DEF FollowInv
<1>6. CASE EndPass(w) \/ WatchdogDies(w)
  <2>1. \A v \in Watchdogs : RowedInv(v)'
    BY <1>0, <1>6 DEF EndPass, WatchdogDies, FollowInv, RowedInv, dvars
  <2>2. FlagIsFollowedUp' /\ \A r \in Clients : EndedInv(r)'
    BY <1>0, <1>6 DEF EndPass, WatchdogDies, FollowInv, FlagIsFollowedUp, EndedInv,
                      dvars, tasks
  <2> QED
    BY <2>1, <2>2 DEF FollowInv
<1> QED
  BY <1>1, <1>2, <1>3, <1>4, <1>5, <1>6 DEF Pass

\* Every step of the service keeps it.
LEMMA FollowStep == Inv /\ WInv /\ FollowInv /\ [Next]_vars => FollowInv'
<1> SUFFICES ASSUME Inv, WInv, FollowInv, [Next]_vars PROVE FollowInv'
  OBVIOUS
<1>1. CASE [DispatchNext]_dvars /\ UNCHANGED <<watch, wfails>>
  <2>1. \A c \in Clients : RowKept(c) /\ EndedInv(c)'
    BY <1>1, DispatchKeepsRows DEF FollowInv
  <2> QED
    BY <1>1, <2>1, RowsKeptFollow
<1>2. ASSUME ServiceStep \/ UNCHANGED vars \/ \E r \in Clients : Heartbeat(r) \/ Elapse(r)
      PROVE  [DispatchNext]_dvars /\ UNCHANGED <<watch, wfails>>
  BY <1>2 DEF ServiceStep, Heartbeat, Elapse, vars, wvars
<1> QED
  BY <1>1, <1>2, PassFollows DEF Next

-----------------------------------------------------------------------------
(* The theorems.                                                           *)

(***************************************************************************)
(* The inductive invariant of the dispatch, and its types.                 *)
(***************************************************************************)
THEOREM DispatchInvariant == DispatchSpec => []Inv
  BY InvInit, InvStep, PTL DEF DispatchSpec

(***************************************************************************)
(* Rows, records, answers and the shutdown are well typed, for any number  *)
(* of requests, keys, payloads, restarts and faults.                       *)
(***************************************************************************)
THEOREM DispatchTyped == DispatchSpec => []TypeOK
<1>1. Inv => TypeOK
  BY DEF Inv
<1> QED
  BY <1>1, DispatchInvariant, PTL

(***************************************************************************)
(* A key starts one run, for any number of requests, restarts and faults.  *)
(***************************************************************************)
THEOREM KeysStartOneRun == DispatchSpec => []OneRunPerKey
  BY OneRun, DispatchInvariant, PTL

(***************************************************************************)
(* Every answer under a key names the one run of that key and payload.     *)
(***************************************************************************)
THEOREM AnswersNameTheRun == DispatchSpec => []RepliesNameTheRun
  BY NamedRuns, DispatchInvariant, PTL

(***************************************************************************)
(* The dispatch implements IdempotentRuns: whatever fails, races, drains   *)
(* or restarts, a key stays with its claimant, and nothing is answered or  *)
(* started under it but the claimant's run, once and for one request.      *)
(***************************************************************************)
THEOREM DispatchImplementsIdempotentRuns == DispatchSpec => ImplementsIdempotentRuns
<1>1. OnceInv /\ [DispatchNext]_dvars => [Keyed!Next]_(Keyed!keyVars)
  BY DispatchSimulates DEF Keyed!keyVars
<1> QED
  BY <1>1, KeyedInit, OnceInit, OnceStep, PTL
  DEF DispatchSpec, ImplementsIdempotentRuns, Keyed!Spec

(***************************************************************************)
(* A run that some client was told of is on its way until it is started:   *)
(* it waits for its task, or for the request that will leave it, unless    *)
(* the process ended or a call of the idempotency store failed.  This is   *)
(* the safety of AcknowledgedStarts, for any number of requests and keys.  *)
(***************************************************************************)
THEOREM AcknowledgedIsPending ==
  DispatchSpec => [](\A c \in Clients : Acknowledged(c) => Pending(reply[c].run))
<1>1. Init => PendingInv
  BY DEF Init, PendingInv, Acknowledged
<1>2. PendingInv => \A c \in Clients : Acknowledged(c) => Pending(reply[c].run)
  BY DEF PendingInv
<1> QED
  BY <1>1, <1>2, PendingStep, DispatchInvariant, PTL DEF DispatchSpec

(***************************************************************************)
(* A drain that reports drained left no run it counted at work, however    *)
(* many requests and runs were under way.                                  *)
(***************************************************************************)
THEOREM DrainsAreTruthful == DispatchSpec => []DrainedIsQuiet
  BY Quiet, DispatchInvariant, PTL

(***************************************************************************)
(* The invariants of the dispatch and of the watchdogs hold together, for  *)
(* any number of watchdogs.                                                *)
(***************************************************************************)
THEOREM ServiceInvariant == Spec => [](Inv /\ WInv)
  BY WatchInit, WatchStep, PTL DEF Spec

(***************************************************************************)
(* What the dispatch promises, it also promises while watchdogs cancel     *)
(* runs beside it.                                                         *)
(***************************************************************************)
THEOREM ServiceKeepsPromises ==
  Spec => [](OneRunPerKey /\ RepliesNameTheRun /\ DrainedIsQuiet)
  BY OneRun, NamedRuns, Quiet, ServiceInvariant, PTL

(***************************************************************************)
(* Beside watchdogs, too, the service implements IdempotentRuns: a         *)
(* watchdog cancels runs, and touches neither records, nor answers, nor    *)
(* what is started.                                                        *)
(***************************************************************************)
THEOREM ServiceImplementsIdempotentRuns == Spec => ImplementsIdempotentRuns
<1>1. WInit => Keyed!Init /\ OnceInv
  BY KeyedInit, OnceInit DEF WInit
<1>2. OnceInv /\ Inv' /\ [Next]_vars => OnceInv' /\ [Keyed!Next]_(Keyed!keyVars)
  <2> SUFFICES ASSUME OnceInv, Inv', [Next]_vars
               PROVE  OnceInv' /\ [Keyed!Next]_(Keyed!keyVars)
    OBVIOUS
  <2>1. CASE DispatchNext \/ UNCHANGED dvars
    BY <2>1, OnceStep, DispatchSimulates DEF Keyed!keyVars
  <2>2. ASSUME NEW w \in Watchdogs, CancelStuck(w)
        PROVE  OnceInv' /\ [Keyed!Next]_(Keyed!keyVars)
    BY <2>2 DEF CancelStuck, OnceInv, TaskInv, Acknowledged, Keyed!keyVars, Claimed,
                Told, requests, tasks
  <2>3. ASSUME NEW w \in Watchdogs, ListRuns(w) \/ Pass(w) \/ WatchdogDies(w)
        PROVE  CancelStuck(w) \/ UNCHANGED dvars
    BY <2>3 DEF ListRuns, Pass, Recheck, MarkStuck, ReportStuck, EndPass, WatchdogDies
  <2> QED
    BY <2>1, <2>2, <2>3 DEF Next, ServiceStep, Heartbeat, Elapse, vars
<1> QED
  BY <1>1, <1>2, ServiceInvariant, PTL DEF Spec, ImplementsIdempotentRuns, Keyed!Spec

(***************************************************************************)
(* No run is reported stuck twice, for any number of watchdogs and deaths. *)
(***************************************************************************)
THEOREM StuckIsReportedOnce == Spec => []ReportedOnce
<1>1. ASSUME WInv, NEW r \in Clients PROVE events[r] <= 1
  BY <1>1, SMT DEF WInv, EventInv
<1>2. WInv => ReportedOnce
  BY <1>1 DEF ReportedOnce
<1> QED
  BY <1>2, ServiceInvariant, PTL

(***************************************************************************)
(* No run is flagged whose heartbeat never fell behind its threshold.      *)
(***************************************************************************)
THEOREM BusyIsSpared == Spec => []BusyRunsAreSpared
<1>1. WInv => BusyRunsAreSpared
  BY DEF WInv, BusyRunsAreSpared
<1> QED
  BY <1>1, ServiceInvariant, PTL

(***************************************************************************)
(* With automatic cancellation no flag is left behind, for any number of   *)
(* watchdogs beside a dispatch that starts, ends, drains and restarts.     *)
(***************************************************************************)
THEOREM FlagsAreFollowedUp == Spec => []FlagIsFollowedUp
<1>1. WInit => FollowInv
  BY DEF WInit, Init, FollowInv, EndedInv, RowedInv, FlagIsFollowedUp, Terminal
<1>2. FollowInv => FlagIsFollowedUp
  BY DEF FollowInv
<1> QED
  BY <1>1, <1>2, FollowStep, ServiceInvariant, PTL DEF Spec
=============================================================================
