------------------------------ MODULE Watchdog ------------------------------
(***************************************************************************)
(* The service: dispatch, shutdown and restarts, together with watchdogs   *)
(* that pass over the run rows (StuckRunWatchdog.check_once).  Whoever     *)
(* calls check_once, a scheduler or an operator, is outside of the code,   *)
(* so watchdogs are processes of their own with their own handle on the    *)
(* durable store: any number of them, at any time, dying in mid-pass.      *)
(*                                                                         *)
(* Time is what staleness needs of it: idle holds the runs whose last      *)
(* heartbeat is older than the threshold of their status.                  *)
(***************************************************************************)
EXTENDS Dispatch

CONSTANTS
  Watchdogs,
  AutoCancel   \* WATCHDOG_AUTO_CANCEL_STUCK

ASSUME AutoCancelAssumption == AutoCancel \in BOOLEAN

VARIABLES
  idle,    \* the runs whose heartbeat is older than their threshold
  stuck,   \* the rows with stuck_at
  seen,    \* the stale records a pass has yet to look at
  wpc,     \* where each pass is
  target,  \* the record it is at
  events,  \* RUN_STUCK events per run
  everIdle, \* the runs that have ever been idle
  wfails   \* restarts plus deaths of watchdogs

watch == <<stuck, seen, wpc, target, events>>
wvars == <<idle, watch, everIdle, wfails>>
vars == <<dvars, wvars>>

\* The statuses that have a threshold.  REVISING and PUBLISHING have one too,
\* but nothing writes them to a row; CANCELLING is listed and has none.
Watched == {"RUNNING", "WAITING_APPROVAL"}

WTypeOK ==
  /\ TypeOK
  /\ idle \subseteq Clients /\ stuck \subseteq Clients /\ everIdle \subseteq Clients
  /\ idle \subseteq everIdle
  /\ seen \in [Watchdogs -> SUBSET Clients]
  /\ wpc \in [Watchdogs -> {"idle", "pass", "mark", "report", "cancel"}]
  /\ target \in [Watchdogs -> Clients]
  /\ events \in [Clients -> Nat]
  /\ wfails \in 0..MaxFaults

WInit ==
  /\ Init
  /\ idle = {} /\ stuck = {} /\ everIdle = {} /\ wfails = 0
  /\ seen = [w \in Watchdogs |-> {}]
  /\ wpc = [w \in Watchdogs |-> "idle"]
  /\ target \in [Watchdogs -> Clients]
  /\ events = [c \in Clients |-> 0]

-----------------------------------------------------------------------------
(* Heartbeats and time.                                                    *)

\* A step of the service; a run that pauses falls under the longer threshold
\* of WAITING_APPROVAL, and one that moves on falls under another one.
ServiceStep ==
  /\ DispatchNext
  /\ idle' = {r \in idle : row'[r].status = row[r].status}
  /\ UNCHANGED <<watch, everIdle, wfails>>

\* mark_activity at the start of a node.
Heartbeat(r) ==
  /\ work[r] = "running" /\ "store" \in open /\ r \in idle
  /\ idle' = idle \ {r}
  /\ UNCHANGED <<dvars, watch, everIdle, wfails>>

\* The threshold of the run's status passes without a heartbeat.
Elapse(r) ==
  /\ row[r].status \in Watched /\ r \notin idle
  /\ idle' = idle \cup {r} /\ everIdle' = everIdle \cup {r}
  /\ UNCHANGED <<dvars, watch, wfails>>

-----------------------------------------------------------------------------
(* check_once.                                                             *)

WGoto(w, p) == wpc' = [wpc EXCEPT ![w] = p]

\* list_active_runs, and the records of it that are stale.
\* Mutant: staleness is not looked at.
ListAnyRuns(w) ==
  /\ wpc[w] = "idle"
  /\ seen' = [seen EXCEPT ![w] = {r \in Clients : row[r].status \in Watched /\
                                                  r \notin stuck}]
  /\ WGoto(w, "pass")
  /\ UNCHANGED <<dvars, idle, stuck, target, events, everIdle, wfails>>
ListRuns(w) ==
  /\ wpc[w] = "idle"
  /\ seen' = [seen EXCEPT ![w] = {r \in idle : row[r].status \in Watched /\
                                               r \notin stuck}]
  /\ WGoto(w, "pass")
  /\ UNCHANGED <<dvars, idle, stuck, target, events, everIdle, wfails>>

\* get_run once more: only a terminal status and a flag are looked at.
Recheck(w) ==
  /\ wpc[w] = "pass"
  /\ \E r \in seen[w] :
       /\ seen' = [seen EXCEPT ![w] = @ \ {r}]
       /\ IF row[r].status \in Terminal \/ r \in stuck
            THEN UNCHANGED <<wpc, target>>
            ELSE WGoto(w, "mark") /\ target' = [target EXCEPT ![w] = r]
  /\ UNCHANGED <<dvars, idle, stuck, events, everIdle, wfails>>

\* mark_stuck: one UPDATE that matches only a row without stuck_at.
\* Mutant: the UPDATE matches whatever the row holds.
MarkStuckAgain(w) ==
  /\ wpc[w] = "mark"
  /\ stuck' = stuck \cup {target[w]}
  /\ WGoto(w, "report")
  /\ UNCHANGED <<dvars, idle, seen, target, events, everIdle, wfails>>
MarkStuck(w) ==
  /\ wpc[w] = "mark"
  /\ IF target[w] \in stuck THEN WGoto(w, "pass") ELSE WGoto(w, "report")
  /\ stuck' = stuck \cup {target[w]}
  /\ UNCHANGED <<dvars, idle, seen, target, events, everIdle, wfails>>

\* Mutant: a run that has meanwhile paused is flagged and not cancelled.
ReportStuckSparing(w) ==
  /\ wpc[w] = "report"
  /\ events' = [events EXCEPT ![target[w]] = @ + 1]
  /\ WGoto(w, IF AutoCancel /\ row[target[w]].status = "RUNNING" THEN "cancel"
                                                               ELSE "pass")
  /\ UNCHANGED <<dvars, idle, stuck, seen, target, everIdle, wfails>>
ReportStuck(w) ==
  /\ wpc[w] = "report"
  /\ events' = [events EXCEPT ![target[w]] = @ + 1]
  /\ WGoto(w, IF AutoCancel THEN "cancel" ELSE "pass")
  /\ UNCHANGED <<dvars, idle, stuck, seen, target, everIdle, wfails>>

CancelStuck(w) ==
  /\ wpc[w] = "cancel"
  /\ row' = [row EXCEPT ![target[w]] = RequestCancellation(@)]
  /\ idle' = {r \in idle : row'[r].status = row[r].status}
  /\ WGoto(w, "pass")
  /\ UNCHANGED <<req, reserved, gate, open, active, requests, tasks, shutdown,
                 bounds, stuck, seen, target, events, everIdle, wfails>>

EndPass(w) ==
  /\ wpc[w] = "pass" /\ seen[w] = {}
  /\ WGoto(w, "idle")
  /\ UNCHANGED <<dvars, idle, stuck, seen, target, events, everIdle, wfails>>

\* The process of a watchdog dies in mid-pass.
WatchdogDies(w) ==
  /\ wpc[w] # "idle" /\ wfails < MaxFaults
  /\ wfails' = wfails + 1
  /\ seen' = [seen EXCEPT ![w] = {}]
  /\ WGoto(w, "idle")
  /\ UNCHANGED <<dvars, idle, stuck, target, events, everIdle>>

Pass(w) == Recheck(w) \/ MarkStuck(w) \/ ReportStuck(w) \/ CancelStuck(w) \/ EndPass(w)

Next ==
  \/ ServiceStep
  \/ \E r \in Clients : Heartbeat(r) \/ Elapse(r)
  \/ \E w \in Watchdogs : ListRuns(w) \/ Pass(w) \/ WatchdogDies(w)

\* Threads that run keep running, the timers of a shutdown expire and a pass
\* goes on.  Nobody has to send a request, end a walk, stop the process or
\* start a pass.
Fairness ==
  /\ WF_vars(BecomeReady /\ ServiceStep)
  /\ WF_vars(Drain /\ ServiceStep)
  /\ \A c \in Clients : WF_vars(Thread(c) /\ ServiceStep)
  /\ \A w \in Watchdogs : WF_vars(Pass(w))

Spec == WInit /\ [][Next]_vars /\ Fairness

-----------------------------------------------------------------------------
(* What the watchdog promises.                                             *)

(***************************************************************************)
(* A run is reported stuck at most once, however many watchdogs pass over  *)
(* it at the same time and wherever they die (mark_stuck: "only one        *)
(* proceeds to emit telemetry / request cancellation").                    *)
(***************************************************************************)
ReportedOnce == \A r \in Clients : events[r] <= 1

(***************************************************************************)
(* A run whose heartbeat never fell behind its threshold is never flagged, *)
(* whatever moves between the listing of the rows and the flag.            *)
(***************************************************************************)
BusyRunsAreSpared == stuck \subseteq everIdle

(***************************************************************************)
(* With automatic cancellation, a flagged run does not stay as it is: it   *)
(* is cancelled or has ended, unless the watchdog dies in between.  This   *)
(* includes a run that has meanwhile paused for its reviewer.              *)
(***************************************************************************)
FlaggedIsCancelled ==
  \A r \in Clients :
    AutoCancel /\ r \in stuck
      ~> row[r].cancelReq \/ row[r].status \in Terminal \/ wfails > 0

(***************************************************************************)
(* The safety of that promise: with automatic cancellation no flag is ever *)
(* left behind.  A flagged run is cancelled, has ended, or is in the hands *)
(* of a watchdog that has yet to report or cancel it; another watchdog     *)
(* that finds the flag may rely on that.                                   *)
(***************************************************************************)
FlagIsFollowedUp ==
  AutoCancel => \A r \in stuck :
    \/ row[r].cancelReq \/ row[r].status \in Terminal \/ wfails > 0
    \/ \E w \in Watchdogs : target[w] = r /\ wpc[w] \in {"report", "cancel"}
=============================================================================
