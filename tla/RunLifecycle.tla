---------------------------- MODULE RunLifecycle ----------------------------
(***************************************************************************)
(* The life of one run: the background thread that start_run executes it   *)
(* on, the API threads that resume_run executes it on, cancellation, and   *)
(* crashes of the process, around three records that each hold a part of   *)
(* the truth:                                                              *)
(*   - row, the run's row of the telemetry store (durable).  The collector *)
(*     reads it, edits its copy and upserts the copy later;                *)
(*   - ckpt, the newest LangGraph checkpoint of the run's thread (durable);*)
(*   - active, the run's entry of AgentRunner._active_runs (volatile).     *)
(* All three are keyed by the run id, so one run is modelled; what other   *)
(* runs do to it is a timeout of the workspace lock.                       *)
(***************************************************************************)
EXTENDS AgentGraph

CONSTANTS
  Starter,     \* the background thread of start_run
  Reviewers,   \* the API threads of the resume requests, one request each
  Decisions,   \* the decisions reviewers submit
  MaxCrashes   \* bound on crashes of the process

ASSUME DecisionsAssumption == Decisions \subseteq Decision
ASSUME ThreadsAssumption == Starter \notin Reviewers
ASSUME MaxCrashesAssumption == MaxCrashes \in Nat

Threads == {Starter} \cup Reviewers

VARIABLES
  row, ckpt, active,
  dirty,      \* the working tree holds uncommitted changes
  committed,  \* the run's feature branch holds a commit
  pc,         \* where each thread is
  intent,     \* the row update a thread is in the middle of
  copy,       \* the row as the thread read it
  decision,   \* the decision the thread's request submitted
  loop,       \* the thread's graph.invoke: its node, state, pending resume
  latest,     \* the threads whose loop stands on the newest checkpoint
  crashes

vars == <<row, ckpt, active, dirty, committed, pc, intent, copy, decision,
          loop, latest, crashes>>
worktree == <<dirty, committed>>
local == <<intent, copy, decision, loop>>

-----------------------------------------------------------------------------
(* The row of the telemetry store.                                         *)

Terminal == {"COMPLETED", "FAILED", "CANCELLED"}
RowStatuses ==
  Terminal \cup {"NONE", "QUEUED", "RUNNING", "WAITING_APPROVAL", "CANCELLING"}

Row == [status : RowStatuses, cancelReq : BOOLEAN,
        decision : {"None", "APPROVED", "REJECTED"}, commit : ApprovalStatuses]
NewRow(s) ==
  [status |-> s, cancelReq |-> FALSE, decision |-> "None", commit |-> "None"]

\* Mutant: the cancellation flag of a stale copy wins over the row's.
MergeOverwriting(new, old) ==
  [status |-> new.status, cancelReq |-> new.cancelReq,
   decision |-> IF new.decision = "None" THEN old.decision ELSE new.decision,
   commit |-> IF new.commit = "None" THEN old.commit ELSE new.commit]
\* The upsert of create_or_update_run: the new status wins, the cancellation
\* flag is the maximum, and a column left empty keeps its old value.
Merge(new, old) ==
  [status |-> new.status,
   cancelReq |-> new.cancelReq \/ old.cancelReq,
   decision |-> IF new.decision = "None" THEN old.decision ELSE new.decision,
   commit |-> IF new.commit = "None" THEN old.commit ELSE new.commit]

\* The edit each collector hook makes to the copy it read.
Edited(i, r, v, d) ==
  CASE i = "started"   -> [r EXCEPT !.status = "RUNNING"]
    [] i = "requested" -> [r EXCEPT !.status = "WAITING_APPROVAL"]
    [] i = "decide"    ->
         [r EXCEPT !.decision = IF d.approved THEN "APPROVED" ELSE "REJECTED"]
    [] i = "completed" -> [r EXCEPT !.status = "COMPLETED", !.commit = v.status]
    [] i = "failed"    -> [r EXCEPT !.status = "FAILED"]
    [] i = "commit_failed" -> [r EXCEPT !.commit = "COMMIT_FAILED"]
    [] OTHER           -> r

RequestCancellation(r) ==
  IF r.status \in Terminal \cup {"NONE"} \/ r.cancelReq THEN r
  ELSE [r EXCEPT !.cancelReq = TRUE,
                 !.status = IF r.status = "WAITING_APPROVAL" THEN "CANCELLED"
                                                             ELSE "CANCELLING"]
MarkCancelled(r) ==
  IF r.status \in Terminal THEN r ELSE [r EXCEPT !.status = "CANCELLED"]

CancelRequested == row.cancelReq \/ row.status = "CANCELLED"

-----------------------------------------------------------------------------
(* The checkpoint, and what the runner derives from it.                    *)

Checkpoint == [next : Nodes \cup {END, NoNode}, vals : AgentState,
               err : BOOLEAN,    \* a node raised on it
               intr : BOOLEAN]   \* interrupt() paused on it
NewCheckpoint(n, v) == [next |-> n, vals |-> v, err |-> FALSE, intr |-> FALSE]

\* Mutant: a node's exception is not looked at.
DeriveStatusErrorBlind(c) ==
  IF c.next # END THEN "WAITING_APPROVAL" ELSE EndStatus(c.vals)
DeriveStatus(c) ==
  IF c.next # END
    THEN IF c.err /\ ~c.intr THEN "FAILED" ELSE "WAITING_APPROVAL"
    ELSE EndStatus(c.vals)

GetStatus ==
  IF row.status \in {"CANCELLED", "CANCELLING"} THEN row.status
  ELSE IF active THEN "RUNNING"
  ELSE IF ckpt.next = NoNode THEN row.status
  ELSE DeriveStatus(ckpt)

Loop == [node : Nodes \cup {END, NoNode}, vals : AgentState, resume : BOOLEAN]
NoLoop == [node |-> NoNode, vals |-> NewAgentState, resume |-> FALSE]

-----------------------------------------------------------------------------
Intents == {"none", "started", "requested", "decide", "completed", "failed",
            "fail_commit", "commit_failed"}
Pcs == {"new", "queued", "guard", "read", "write", "activate", "lock",
        "provision", "node", "final", "commit", "save", "derive", "cancelled",
        "failed", "done"}

TypeOK ==
  /\ row \in Row /\ ckpt \in Checkpoint
  /\ active \in BOOLEAN /\ dirty \in BOOLEAN /\ committed \in BOOLEAN
  /\ pc \in [Threads -> Pcs] /\ intent \in [Threads -> Intents]
  /\ copy \in [Threads -> Row] /\ decision \in [Threads -> Decision]
  /\ loop \in [Threads -> Loop] /\ latest \subseteq Threads
  /\ crashes \in 0..MaxCrashes

Resting == {"new", "done"}
AtRest == \A t \in Threads : pc[t] \in Resting

Init ==
  /\ row = NewRow("NONE") /\ ckpt = NewCheckpoint(NoNode, NewAgentState)
  /\ active = FALSE /\ dirty = FALSE /\ committed = FALSE
  /\ pc = [t \in Threads |-> "new"]
  /\ intent = [t \in Threads |-> "none"]
  /\ copy = [t \in Threads |-> NewRow("NONE")]
  /\ decision = [t \in Threads |-> NoDecision]
  /\ loop = [t \in Threads |-> NoLoop]
  /\ latest = {} /\ crashes = 0

Goto(t, p) == pc' = [pc EXCEPT ![t] = p]

\* Thread t enters the collector hook i: read the row, then upsert it.
Record(t, i) ==
  /\ Goto(t, "read")
  /\ intent' = [intent EXCEPT ![t] = i]

\* Thread t returns to its caller.
Return(t) ==
  /\ Goto(t, "done")
  /\ intent' = [intent EXCEPT ![t] = "none"]
  /\ copy' = [copy EXCEPT ![t] = NewRow("NONE")]
  /\ decision' = [decision EXCEPT ![t] = NoDecision]
  /\ loop' = [loop EXCEPT ![t] = NoLoop]
  /\ latest' = latest \ {t}

-----------------------------------------------------------------------------
(* Starting a run.                                                         *)

\* create_run: register_run, then the background task is queued.
CreateRun ==
  /\ pc[Starter] = "new"
  /\ active' = TRUE
  /\ row' = Merge(NewRow("QUEUED"), row)
  /\ Goto(Starter, "queued")
  /\ UNCHANGED <<ckpt, worktree, local, latest, crashes>>

\* start_run up to on_run_started: on_run_created upserts QUEUED once more.
StartRun ==
  /\ pc[Starter] = "queued"
  /\ active' = TRUE
  /\ row' = Merge(NewRow("QUEUED"), row)
  /\ Record(Starter, "started")
  /\ UNCHANGED <<ckpt, worktree, copy, decision, loop, latest, crashes>>

\* _ensure_workspace_provisioned, then graph.invoke writes the first checkpoint.
Provision ==
  /\ pc[Starter] = "provision"
  /\ \/ /\ ckpt' = NewCheckpoint("router", NewAgentState)
        /\ loop' = [loop EXCEPT ![Starter] =
                      [node |-> "router", vals |-> NewAgentState,
                       resume |-> FALSE]]
        /\ latest' = {Starter}
        /\ Goto(Starter, "node")
     \/ /\ Goto(Starter, "failed")
        /\ UNCHANGED <<ckpt, loop, latest>>
  /\ UNCHANGED <<row, active, worktree, intent, copy, decision, crashes>>

-----------------------------------------------------------------------------
(* The collector hooks: get_run, edit the copy, create_or_update_run.      *)

CollectorRead(t) ==
  /\ pc[t] = "read"
  /\ copy' = [copy EXCEPT ![t] = row]
  /\ Goto(t, "write")
  /\ UNCHANGED <<row, ckpt, active, worktree, intent, decision, loop, latest,
                 crashes>>

CollectorUpsert(t) ==
  row' = Merge(Edited(IF intent[t] = "fail_commit" THEN "failed" ELSE intent[t],
                      copy[t], loop[t].vals, decision[t]), row)

\* What follows the upsert: execution, the second upsert that resume_run makes
\* for a failed commit, or the return.
CollectorContinue(t) ==
  /\ pc[t] = "write" /\ intent[t] \in {"started", "decide", "fail_commit"}
  /\ CollectorUpsert(t)
  /\ copy' = [copy EXCEPT ![t] = NewRow("NONE")]
  /\ intent' = [intent EXCEPT ![t] =
                  IF @ = "fail_commit" THEN "commit_failed" ELSE "none"]
  /\ Goto(t, CASE intent[t] = "started" -> "lock"
               [] intent[t] = "decide" -> "activate"
               [] OTHER -> "read")
  /\ UNCHANGED <<ckpt, active, worktree, decision, loop, latest, crashes>>

CollectorReturn(t) ==
  /\ pc[t] = "write" /\ intent[t] \notin {"started", "decide", "fail_commit"}
  /\ CollectorUpsert(t)
  /\ Return(t)
  /\ UNCHANGED <<ckpt, active, worktree, crashes>>

-----------------------------------------------------------------------------
(* Resuming a run.                                                         *)

\* The endpoint: its view of the run's status, then the reviewer's role.
ApiResume(t, d) ==
  /\ pc[t] = "new" /\ row.status # "NONE"
  /\ GetStatus \notin {"COMPLETED", "RUNNING"}
  /\ ckpt.vals.diff # "None" => d.role
  /\ decision' = [decision EXCEPT ![t] = d]
  /\ Goto(t, "guard")
  /\ UNCHANGED <<row, ckpt, active, worktree, intent, copy, loop, latest,
                 crashes>>

\* resume_run's own guards, on the row and on the checkpoint.
MayResume ==
  /\ ckpt.next \notin {NoNode, END}
  /\ row.status \notin Terminal

ResumeGuard(t) ==
  /\ pc[t] = "guard"
  /\ IF MayResume
       THEN Record(t, "decide") /\ UNCHANGED <<copy, decision, loop, latest>>
       ELSE Return(t)
  /\ UNCHANGED <<row, ckpt, active, worktree, crashes>>

Activate(t) ==
  /\ pc[t] = "activate"
  /\ active' = TRUE
  /\ Goto(t, "lock")
  /\ UNCHANGED <<row, ckpt, worktree, local, latest, crashes>>

-----------------------------------------------------------------------------
(* The workspace lock.  It is keyed by run id, so a thread of the same run *)
(* always gets in; another run's hold may time it out.                     *)

AcquireLock(t) ==
  /\ pc[t] = "lock"
  /\ IF t = Starter
       THEN Goto(t, "provision") /\ UNCHANGED <<loop, latest>>
       ELSE /\ loop' = [loop EXCEPT ![t] =
                          [node |-> ckpt.next, vals |-> ckpt.vals,
                           resume |-> TRUE]]
            /\ latest' = latest \cup {t}
            /\ Goto(t, IF ckpt.next = END THEN "derive" ELSE "node")
  /\ UNCHANGED <<row, ckpt, active, worktree, intent, copy, decision, crashes>>

LockTimeout(t) ==
  /\ pc[t] = "lock"
  /\ Goto(t, "failed")
  /\ UNCHANGED <<row, ckpt, active, worktree, local, latest, crashes>>

-----------------------------------------------------------------------------
(* graph.invoke: one node per step, a checkpoint after each.               *)

\* Thread t stores v with n as the next node.
Save(t, n, v) ==
  /\ ckpt' = NewCheckpoint(n, v)
  /\ latest' = {t}
  /\ loop' = [loop EXCEPT ![t] = [node |-> n, vals |-> v, resume |-> FALSE]]
  /\ Goto(t, IF n = END THEN "derive" ELSE "node")

\* interrupt() pauses unless a resume value is pending for this first node.
Pauses(t) == loop[t].node = "approval" /\ ~loop[t].resume

\* Every node but cleanup starts with check_cancelled.
StopsHere(t) == CancelRequested /\ loop[t].node # "cleanup"

RunNode(t) ==
  /\ pc[t] = "node" /\ ~StopsHere(t) /\ ~Pauses(t)
  /\ \E v \in NodeResults(loop[t].node, loop[t].vals, decision[t]) :
       /\ Save(t, Successor(loop[t].node, v), v)
       /\ dirty' \in DirtyAfter(loop[t].node, v, dirty)
  /\ committed' \in CommittedAfter(loop[t].node, committed)
  /\ UNCHANGED <<row, active, intent, copy, decision, crashes>>

Pause(t) ==
  /\ pc[t] = "node" /\ ~StopsHere(t) /\ Pauses(t)
  /\ ckpt' = IF t \in latest THEN [ckpt EXCEPT !.intr = TRUE] ELSE ckpt
  /\ Goto(t, "derive")
  /\ UNCHANGED <<row, active, worktree, local, latest, crashes>>

\* An exception out of the node is kept with the checkpoint it ran from.
Raise(t, p) ==
  /\ ckpt' = IF t \in latest THEN [ckpt EXCEPT !.err = TRUE] ELSE ckpt
  /\ Goto(t, p)
  /\ UNCHANGED <<row, active, worktree, local, latest, crashes>>

NodeRaises(t) == pc[t] = "node" /\ Raise(t, "failed")
NodeCancelled(t) == pc[t] = "node" /\ StopsHere(t) /\ Raise(t, "cancelled")

\* git_commit_node: the no-op and drift checks, the final check_cancelled, the
\* commit, and the checkpoint that records it are four steps.
RefuseCommit(t) ==
  /\ pc[t] = "node" /\ loop[t].node = "git_commit" /\ ~StopsHere(t)
  /\ \E v \in CommitRefusals(loop[t].vals) : Save(t, END, v)
  /\ UNCHANGED <<row, active, worktree, intent, copy, decision, crashes>>

PassDriftCheck(t) ==
  /\ pc[t] = "node" /\ loop[t].node = "git_commit" /\ ~StopsHere(t)
  /\ loop[t].vals.diff = "Real"
  /\ Goto(t, "final")
  /\ UNCHANGED <<row, ckpt, active, worktree, local, latest, crashes>>

FinalCheck(t) ==
  /\ pc[t] = "final"
  /\ IF CancelRequested
       THEN Raise(t, "cancelled")
       ELSE /\ Goto(t, "commit")
            /\ UNCHANGED <<row, ckpt, active, worktree, local, latest, crashes>>

Commit(t) ==
  /\ pc[t] = "commit"
  /\ \E success \in {dirty, FALSE} :
       /\ loop' = [loop EXCEPT ![t].vals = CommitResult(@, success)]
       /\ dirty' = (dirty /\ ~success)
       /\ committed' = (committed \/ success)
  /\ Goto(t, "save")
  /\ UNCHANGED <<row, ckpt, active, intent, copy, decision, latest, crashes>>

SaveCommit(t) ==
  /\ pc[t] = "save"
  /\ Save(t, END, loop[t].vals)
  /\ UNCHANGED <<row, active, worktree, intent, copy, decision, crashes>>

-----------------------------------------------------------------------------
(* How start_run and resume_run end.                                       *)

\* The hook the derived status calls for.  start_run has none for a run that
\* reached END as FAILED, resume_run has none for a run that paused again.
Outcome(t, s) ==
  CASE s = "COMPLETED" -> "completed"
    [] s = "WAITING_APPROVAL" /\ t = Starter -> "requested"
    [] s = "FAILED" /\ t # Starter ->
         IF ckpt.vals.status = "COMMIT_FAILED" THEN "fail_commit" ELSE "failed"
    [] OTHER -> "none"

Derive(t) ==
  /\ pc[t] = "derive"
  /\ active' = FALSE
  /\ LET hook == Outcome(t, DeriveStatus(ckpt))
     IN IF hook = "none"
          THEN Return(t)
          ELSE /\ Record(t, hook)
               /\ loop' = [loop EXCEPT ![t] = [NoLoop EXCEPT !.vals = ckpt.vals]]
               /\ latest' = latest \ {t}
               /\ UNCHANGED <<copy, decision>>
  /\ UNCHANGED <<row, ckpt, worktree, crashes>>

UnwindCancelled(t) ==
  /\ pc[t] = "cancelled"
  /\ active' = FALSE
  /\ row' = MarkCancelled(row)
  /\ Return(t)
  /\ UNCHANGED <<ckpt, worktree, crashes>>

UnwindFailed(t) ==
  /\ pc[t] = "failed"
  /\ active' = FALSE
  /\ Record(t, "failed")
  /\ loop' = [loop EXCEPT ![t] = NoLoop]
  /\ latest' = latest \ {t}
  /\ UNCHANGED <<row, ckpt, worktree, copy, decision, crashes>>

-----------------------------------------------------------------------------
\* cancel_run, or the watchdog's automatic cancellation.
Cancel ==
  /\ row' = RequestCancellation(row)
  /\ UNCHANGED <<ckpt, active, worktree, pc, local, latest, crashes>>

\* The process dies and comes back: threads and _active_runs are gone, and
\* nothing restarts the background task.
Crash ==
  /\ crashes < MaxCrashes
  /\ crashes' = crashes + 1
  /\ active' = FALSE
  /\ pc' = [t \in Threads |-> IF pc[t] = "new" THEN "new" ELSE "done"]
  /\ intent' = [t \in Threads |-> "none"]
  /\ copy' = [t \in Threads |-> NewRow("NONE")]
  /\ decision' = [t \in Threads |-> NoDecision]
  /\ loop' = [t \in Threads |-> NoLoop]
  /\ latest' = {}
  /\ UNCHANGED <<row, ckpt, worktree>>

Execute(t) ==
  \/ CollectorRead(t) \/ CollectorContinue(t) \/ CollectorReturn(t)
  \/ ResumeGuard(t) \/ Activate(t) \/ AcquireLock(t) \/ LockTimeout(t)
  \/ RunNode(t) \/ Pause(t) \/ NodeRaises(t) \/ NodeCancelled(t)
  \/ RefuseCommit(t) \/ PassDriftCheck(t) \/ FinalCheck(t) \/ Commit(t)
  \/ SaveCommit(t) \/ Derive(t) \/ UnwindCancelled(t) \/ UnwindFailed(t)

Next ==
  \/ CreateRun \/ StartRun \/ Provision \/ Cancel \/ Crash
  \/ \E t \in Threads : Execute(t)
  \/ \E t \in Reviewers, d \in Decisions : ApiResume(t, d)

\* A thread that is executing keeps executing; nobody has to create a run,
\* answer an approval, or cancel.
Fairness ==
  /\ WF_vars(StartRun \/ Provision)
  /\ \A t \in Threads : WF_vars(Execute(t))

Spec == Init /\ [][Next]_vars /\ Fairness

-----------------------------------------------------------------------------
(* What the life of a run promises.                                        *)

(***************************************************************************)
(* No executor, and no checkpoint an executor may be resumed from, stands  *)
(* at git_commit unless QA passed, the policy permitted and an authorised  *)
(* reviewer approved the exact staged diff: across crashes, concurrent     *)
(* resumes, and decisions that arrive at a node that did not ask for one.  *)
(***************************************************************************)
CommitIsGated ==
  /\ \A t \in Threads : pc[t] \in {"final", "commit"} => Vetted(loop[t].vals)
  /\ ckpt.next = "git_commit" => Vetted(ckpt.vals)

(***************************************************************************)
(* What publish_pr and the run's row take as proof of a commit is one: a   *)
(* run recorded as COMMITTED has its commit on the feature branch.         *)
(***************************************************************************)
CommittedStatusIsTrue ==
  (row.commit = "COMMITTED" \/ ckpt.vals.status = "COMMITTED") => committed

(***************************************************************************)
(* A run that get_status reports as WAITING_APPROVAL is a real pause: the  *)
(* checkpoint stands at approval, in interrupt(), with a diff to review    *)
(* ("never as a phantom approval request", _derive_status).                *)
(***************************************************************************)
WaitingIsReal ==
  (AtRest /\ GetStatus = "WAITING_APPROVAL") =>
    ckpt.next = "approval" /\ ckpt.intr /\ ckpt.vals.diff = "Real"

(***************************************************************************)
(* As long as the process never crashed, WaitingIsReal holds: a node that  *)
(* raised, a lock that timed out and a cancellation are never reported as  *)
(* a pause (_derive_status, get_status).                                   *)
(***************************************************************************)
PauseIsReal == crashes = 0 => WaitingIsReal

(***************************************************************************)
(* Cancellation is irrevocable and stops every commit not yet past the     *)
(* final check_cancelled, whatever stale copies of the row are upserted:   *)
(* the life of a run implements CommitGate.                                *)
(***************************************************************************)
Gate == INSTANCE CommitGate WITH
  Executors <- Threads,
  cancelled <- CancelRequested,
  armed <- {t \in Threads : pc[t] = "commit"}
CancelStopsCommit == Gate!Spec

(***************************************************************************)
(* Every start_run and resume_run returns: no walk, unwinding or collector *)
(* hook keeps its thread for ever.                                         *)
(***************************************************************************)
ThreadsReturn == \A t \in Threads : pc[t] \notin Resting ~> pc[t] \in Resting

(***************************************************************************)
(* A bound on the steps thread t has yet to take before it returns: the    *)
(* hook it is in, the unwinding, the commit, the nodes, and what precedes  *)
(* the execution.                                                          *)
(***************************************************************************)
HookLeft(i) ==
  CASE i = "started"     -> MaxNodes + 11
    [] i = "decide"      -> MaxNodes + 12
    [] i = "fail_commit" -> 3
    [] OTHER             -> 1
ThreadLeft(t) ==
  CASE pc[t] \in {"new", "guard"} ->
         MaxNodes + 14 + (IF pc[t] = "new" THEN 1 ELSE 0)
    [] pc[t] = "queued"    -> MaxNodes + 13
    [] pc[t] = "activate"  -> MaxNodes + 11
    [] pc[t] = "lock"      -> MaxNodes + 10
    [] pc[t] = "provision" -> MaxNodes + 9
    [] pc[t] = "node"      -> NodesLeft(loop[t].node, loop[t].vals) + 8
    [] pc[t] = "final"     -> 8
    [] pc[t] = "commit"    -> 7
    [] pc[t] = "save"      -> 6
    [] pc[t] = "derive"    -> 5
    [] pc[t] = "failed"    -> 3
    [] pc[t] = "cancelled" -> 1
    [] pc[t] = "read"      -> HookLeft(intent[t]) + 1
    [] pc[t] = "write"     -> HookLeft(intent[t])
    [] OTHER               -> 0

(***************************************************************************)
(* Every step of a thread brings it nearer to its return, whatever the     *)
(* nodes return and whatever the other threads, a cancellation or a crash  *)
(* do in between: no interleaving sets it back.                            *)
(***************************************************************************)
ThreadsDescend ==
  [][\A t \in Threads :
       <<pc[t], loop[t]>>' # <<pc[t], loop[t]>> =>
         ThreadLeft(t)' \in 0..(ThreadLeft(t) - 1)]_vars
=============================================================================
