# A verification project for the autonomous AI software engineer

The repository is a control plane that turns a task into an approved commit: a LangGraph
workflow plans, generates a patch, tests it, asks a policy and a human reviewer, and commits
the approved diff; a pull request may follow. The text that the language models produce cannot
be modelled. What can be, and what these modules are about, is everything around it: which
states the workflow may reach, what concurrent requests, cancellations, crashes and stale
copies do to the record of a run, and who may touch a workspace when.

Paths below are relative to `src/backend/`.

## 1. Inventory

| Component | State it keeps | Operations | Interacts with |
|---|---|---|---|
| Workflow graph (`graph/nodes.py`, `graph/state.py`, `_build_graph`) | `AgentState`, one dictionary per run | eleven nodes, seven conditional edges, `interrupt()` at approval | LLM service, sandbox, policy engine, git workspace, telemetry store |
| Run lifecycle (`graph/runner.py`) | `_active_runs`, `_run_errors`, `_run_tenants` (memory); LangGraph checkpoints (SQLite) | `register_run`, `start_run`, `get_status`, `resume_run`, `cancel_run`, `drain`, `close` | workspace lock, telemetry store and collector, git |
| Telemetry store and collector (`observability/store.py`, `collector.py`) | one row per run (SQLite), events | upsert of a row, `request_cancellation`, `mark_cancelled`, `mark_stuck`, heartbeats; hooks that read, edit and upsert a row | written by every thread that executes a run, by the API and by the watchdog |
| Workspace lock (`vcs/workspace_lock.py`) | `_thread_locks`, `_lock_owners`, `_open_fds` (memory); lock file, kernel lock | `acquire_lock`, `release_lock`, stale-lock recovery | telemetry store (is the owner's run terminal?), several processes |
| Git workspace (`vcs/git_manager.py`) | working tree, branches | prepare a diff, drift check, commit, push, cleanup | shared by all runs of a project |
| Patch generation and revision (`developer/`, `revision/`, `agents/`) | patches in `AgentState`, files on disk | generate, validate, apply, revise | LLM, git workspace |
| QA pipeline and judge (`qa/`, `sandbox/`) | none | run the checks, aggregate a verdict | sandbox subprocesses |
| Policy engine (`policy/`) | none | evaluate a diff: ALLOW, REVIEW, BLOCK and a risk score | git diff, QA result |
| Roles (`security/rbac.py`) | none | `can_approve_changes` | resume endpoint, approval node |
| API (`api/app.py`) | none of its own | create, resume, cancel, publish | idempotency store, runner, GitHub, audit log |
| Idempotency (`security/idempotency.py`) | one record per key (SQLite) | reserve or replay, complete | create endpoint |
| Process lifecycle (`api/lifecycle.py`) | STARTING, READY, DRAINING, STOPPED | gate, drain, shutdown | runner, stores |
| Watchdog (`observability/watchdog.py`) | none | find stale runs, mark stuck, cancel | telemetry store |
| Pull requests (`integrations/`, `publish_pr`) | `pr_*` columns of the row, GitHub | push, create, reconcile | GitHub, git workspace |
| LLM service (`services/`) | none | call a provider, fall back to another | providers |
| Audit log (`security/audit.py`) | hash chain (SQLite) | append, verify | API |
| Retrieval (`indexer/`, `rag/`) | indexes | index, retrieve, evaluate | planner, knowledge, developer |

What makes the system hard:

* **Three records of one run.** The row of the telemetry store, the newest checkpoint and the
  entry of `_active_runs` are each written on their own. `get_status` combines them, hooks read
  the row and upsert a copy of it later, and the process may die between any two writes.
* **Two executors of one run.** `resume_run` checks, and only later marks the run active; the
  workspace lock re-enters by run id. Two requests may execute one checkpoint at once.
* **Cooperative cancellation.** A flag that nodes look at; the commit looks once more.
* **A lock of two tiers**, re-entered by run and not by thread, with recovery that replaces an
  in-process lock while other threads use it.
* **A workspace that outlives a run** and is shared between runs, while the lock is held only
  during execution and not while a diff waits for its reviewer.
* **A process that goes down with work in its hands**: accepted requests whose background task has
  not started, a drain that counts what it sees, stores that close under their users, reservations
  of a request that never answered.
* **Two systems of record for a pull request**, the row and GitHub, with calls whose answer may be
  lost, a person at the other end, and a hook that upserts a stale copy of the row.
* **A watchdog that decides on rows read earlier**, beside a run that moves on.
* **A chain of verdicts** (review, checks, judge, risk, policy, role), each of which may abstain or
  skip, and which must not let anything through together.

`PROJECT.json` lists each hazard at its line with the properties that would catch it.

## 2. Modules

| Module | What it is |
|---|---|
| `AgentGraph` | no variables: what each node may return, each edge, the status of a finished walk |
| `GraphWalk` | one walk of the graph by one executor: one action per node, the pause, a raising node |
| `CommitGate` | abstract: a cancellation is irrevocable and stops every commit not past its final check |
| `RunLifecycle` | the life of a run: starter thread, resume threads, hooks, checkpoint, cancellation, crashes |
| `RunLock` | abstract: the workspace belongs to one run of one process at a time, and changes hands only when nobody is inside |
| `WorkspaceLock` | the lock of one resource, used by threads of several processes |
| `SharedWorkspace` | the git workspace of one project under several runs: branches, index, working tree, diffs |
| `IdempotentRuns` | abstract: a key belongs to its first claimant for ever; only that run is answered, and it is started once at most |
| `Dispatch` | how requests become runs and how the process goes down: idempotency, background tasks, gate, drain, restart |
| `Watchdog` | the service: `Dispatch` with watchdogs that pass over its rows |
| `PublishPR` | `publish_pr` of one run against its outcome hook, GitHub, people, lost answers and crashes |
| `ProviderFallback` | one structured call of a language model: attempts, requests in an attempt, choice of the next provider |
| `Verdict` | from a candidate patch to an approval: review (by `ProviderFallback`), checks, judge, risk, policy, role |
| `AgentGraphProofs`, `GraphWalkProofs`, `RunLifecycleProofs`, `WorkspaceLockProofs`, `SharedWorkspaceProofs`, `ServiceProofs`, `PublishPRProofs`, `VerdictProofs` | theorems and their proofs |
| `MCGraphWalk`, `MCRunLifecycle`, `MCWorkspaceLock`, `MCSharedWorkspace`, `MCDispatch`, `MCService`, `MCPublishPR`, `MCDecisions` | constants for the runs |

`AgentGraph` is shared: `GraphWalk` and `RunLifecycle` both extend it, so that the walk which is
proved correct alone is the walk that threads, crashes and cancellations then disturb.
`RunLifecycle` is shown to implement `CommitGate`, `WorkspaceLock` `RunLock`, and `Dispatch`, alone
or under `Watchdog`, `IdempotentRuns`. `WorkspaceLock` details what `RunLifecycle`
takes for granted: `AcquireLock` always admits a thread of the same run (re-entrancy), and
`LockTimeout` is what another run's hold comes to. `SharedWorkspace` takes the other half of the
lock for granted, that one run executes at a time, and details what `AgentGraph` keeps as the
bits `dirty` and `committed`. `Dispatch` has many runs, whose walk is one step each, where
`RunLifecycle` has the steps of one; `Watchdog` extends it, so that the watchdogs pass over rows
that requests, tasks, a shutdown and a restart write meanwhile. `Verdict` details the choices that
`AgentGraph` leaves open at `qa`, `policy` and `approval`, and `ProviderFallback` what a node's
call of a model may do. `PublishPR` starts where `RunLifecycle` ends.

### How state and actions correspond to the code

**AgentGraph.** `AgentState` keeps the fields that an edge or a guard reads: the routing
decision, the outcome of the patch and of QA, the policy decision, the diff (none, no-op, real),
the approval and `approval_status`, the revision count. `NodeResults` gives the set of states a
node may return; whatever the node asks a language model, the sandbox or the policy engine
becomes a choice among the results that the code tells apart. `Successor` is the edge function,
one operator per `route_after_*`. Abstractions: ALLOW and REVIEW are one value (PERMIT), since no
edge tells them apart; the four refusals of `approval_node` for an inconsistent hash are one; a
role is whether `can_approve_changes` accepts it. The cleanup may leave the tree and the commit
as they are (`DirtyAfter`, `CommittedAfter`): git may refuse to check out `main`, find neither `main`
nor `master`, or time out, and `cleanup_node` does not look at the result.

**GraphWalk.** One action per node (`Route`, `Plan`, `Retrieve`, `Develop`, `Review`, `Revise`,
`Prepare`, `CheckPolicy`, `Refuse` and `Commit` for `git_commit`, `Cleanup`), each a superstep of
the graph with its checkpoint (`Step`); `Pause` is `interrupt()` at approval, `Decide` the
resumption with a reviewer's answer, `Raise` a node that raises.

**RunLifecycle.** `row` is the run's row of the telemetry store, `ckpt` its newest checkpoint,
`active` its entry in `_active_runs`; each thread has a `pc`, a `loop` (the values it computes
with), a copy of the row that a hook holds between its read and its upsert, and what it will do
next. `register_run`, `start_run` and `resume_run` are split where another thread may come in
between: the guards of `resume_run`, the activation, the lock, each node, the drift check, the
final `check_cancelled`, the commit, its checkpoint, and each hook's read and upsert. The rest
of a node, with the cancellation check at its top and its checkpoint, is one step. `Crash` loses
the threads and the memory and keeps the row, the checkpoint and the commit.

The graph library is external and modelled as it is used: a resume value goes to the first node
that runs and to no other; an error or an interrupt belongs to the checkpoint it was raised at;
two threads that stand on the newest checkpoint both may save the next (`latest`). Its `async`
durability, which may lose the newest checkpoint in a crash, is not modelled. Not modelled
either: `_run_errors` (it repeats what the row says), other runs (they appear as `LockTimeout`).

**WorkspaceLock.** One resource key. `thread_lock` is the RLock object the key has now and `made`
how many were created, because recovery replaces it; `owner` and `fd` are the manager's
dictionaries, per process; `flock` is the kernel's view and `meta` the content of the lock file. Each read and each write under a different guard is a
step of its own; the metadata that is written into the lock file is merged with the registration
of the owner. Not modelled: the reuse of a pid or of a descriptor's number. A failing `os.open`
takes the path to recovery, as in the code.

**SharedWorkspace.** `tip`, `head`, `index` and `tree` are git's branches, HEAD, index and working
tree; `st` is the part of each run's `AgentState` that says what is on disk: the patches, the diff,
and (history) the tree on which QA passed. A file's content is the set of its lines, `{}` is an
absent file. A patch replaces a line by some lines, or the whole file, which is the code's
convention for an empty `original_code_snippet`. A patch that inserts is one that keeps its anchor.
`git checkout` refuses and carries changes along as git does (`MaySwitch`, `TreeOn`, `IndexOn`;
compared with a real git on each combination of HEAD, index, tree and target). `GitPrepareFails` is a write
that fails: that no patch is refused there once QA has passed it is `PassedPatchesApply`. `Fail`
stands for an exception, a cancellation or a lock that timed out. Ignored: files listed in `.gitignore`,
deletions (no patch deletes a file), a batch with two patches for one file, a repository without
`main` (in `AgentGraph` the cleanup may fail for whatever reason), and the death of the process.

**Dispatch.** A run is named by the request that made it. Durable are `reserved` (the idempotency
records) and `row`; `gate`, `open` (the stores that shutdown has not closed), `active`
(`_active_runs`), the request threads (`pc`) and the background tasks (`work`) are lost in
`Restart`. A request goes through `Receive` (the gate), `Reserve` (one SQLite transaction: a new
record, a replay or a conflict), `Register`, `RecordCreated`, `CompleteReservation` and the answer,
after which Starlette starts the task: `StartRun`, `RecordStarted`, `EndWalk`, `RecordOutcome`, in
the order of `start_run`, which takes a run out of `_active_runs` before its outcome is recorded.
`FailRequest` is a failure of SQLite, bounded by `MaxFaults`. The shutdown is `BeginShutdown`, the
poll (`DrainEmpty`, `DrainDeadline`), one `DrainCancel` per member of the snapshot, the grace period
and `CloseStores`. Not modelled: the size of the thread pool that requests and tasks share.

**Watchdog.** Time is what staleness needs of it: `idle` is the set of runs whose last heartbeat is
older than the threshold of their status; `Elapse` puts a run there, a heartbeat and a change of
status take it out. A pass lists, rechecks, marks, reports and cancels, one row after the other;
`WatchdogDies` in mid-pass. Nothing calls `check_once` but the tests, so watchdogs are
processes of their own that start a pass whenever they like. REVISING and PUBLISHING have thresholds and are
never written; CANCELLING is listed and has no threshold.

**PublishPR.** A request's steps are those of the endpoint between its effects: the row, the lookup
on GitHub, the push, the creation, the reconciliation after an error, the row again, its upsert.
GitHub is external and modelled as it is used: pull requests are numbered in opening order, `Find`
is the newest one with the head branch, whatever its state, `Create` refuses a second open one for
the same head and base, and any call may fail before or after its effect. The hook of the run's
outcome is a read (`ReadOutcomeRow`) and an upsert (`WriteOutcomeRow`) that keeps the number a
newer row has (`Merge`). `HumanOpens` and `HumanCloses` are people, `Crash` loses all requests.

**Verdict, ProviderFallback.** A candidate is a set of file patches, a file patch what the checks
can tell of it. Two checks apply the same patch to two different contents: `check_ast` to the file on
disk (`Applies`), `check_patch_scope` to the snapshot taken before the patch was written, for lack of
one to the disk, and for lack of both to nothing (`Compared`): what it has nothing to apply to, or what
does not fit, it passes over, and with an empty request everything. The first candidate is what
`developer_node` wrote, with its snapshots and without a wrapper (`Written`; a developer whose patches
are refused goes to the revision without a review, which is the state after a failed one); a revision
may propose files that nobody has written. The checks run in the code's order, each as an action with the
statuses it can return; then `Judge`, `Prepare`, `Policy` (any set of broken rules, any thresholds)
and `Resume` with any role. What the model answers, which class an error has and what the tests
return is free. A call is one attempt after the other (`at`), each a sequence of requests
(`stage`), with `Fallback` as the code's selection of the next provider from the environment.

## 3. Runs

| Run | Asks | Bounds |
|---|---|---|
| `graph_walk` | Can an unvetted diff reach `git_commit`? Is the correction loop bounded? Does every refused walk, and no other, end in the cleanup; is the final status true? Is each step nearer to the end, and does every walk settle? | all 12 routings and 12 decisions, 3 revisions as in the code |
| `run_lifecycle` | The same gate with a resume request, cancellation at any step and a crash at any step; is a recorded commit a commit; is a reported pause one; does a cancellation stop the commit (refinement of `CommitGate`); does any step set a thread back, and does every thread return? | 1 resume thread beside the starter, 1 crash, 1 revision |
| `workspace_lock` | Does the lock exclude, is its count right, is the kernel lock ever orphaned; is it a lock of runs (refinement of `RunLock`)? | 2 threads of one process and 1 of another, 2 runs, 1 crash of a process, 2 RLock objects per process (`MaxLocks`), one acquisition at a time per thread (`MaxDepth`): re-entrancy is that of two threads of a run |
| `lock_progress` | Does every acquisition end? | 2 threads, 2 runs, 1 crash, telemetry may raise |
| `shared_workspace` | Do QA, the reviewer and the commit agree about the files? | 2 runs, 2 files (one in HEAD, one new), 5 patches, 1 revision |
| `dispatch` | Does a key start one run and do all its answers name it (refinement of `IdempotentRuns`)? Is a drain that says drained quiet? Does an acknowledged run start, a shutdown end? | 2 clients, 1 key, 2 payloads, 1 restart, 1 failure of SQLite |
| `watchdog` | Is a run reported once, and never while busy? Is no flag left behind, and a flagged run cancelled? | 1 client with a key or without, 2 watchdogs, no restart, 1 death of a watchdog, automatic cancellation on |
| `publish_pr` | Does a request without a fault succeed once it passes the guards, do retries open nothing, are answers recorded, does asking again succeed? | 2 clients, 4 combinations of what they ask for, 3 repositories, 2 bases, 1 fault; people open one only while there is none (`MaxPRs`) |
| `decisions` | Is the fallback bounded and does it give up for a reason only? Was what is approved vetted by every gate and by a sufficient role? | all environments and errors, 3 kinds of request, no file, each single file with one flaw, a wrapper or a deletion without a snapshot, without a file on disk or with a snapshot it does not fit, a good Python file with another file; 3 revisions as in the code |
| `commit_discarded` | see findings | 2 resume threads, no crash |
| `approved_diff_only` | see findings | as `shared_workspace` |
| `pause_survives_drain` | see findings | as `dispatch`, no restart, no failure |

Why the bounds suffice. One revision distinguishes "budget left" from "budget exhausted", which
is all that guards read; `graph_walk` uses the real 3. A second crash finds the same kind of
state as the first: rest, a checkpoint and a row. With one resume thread beside the starter every
pair of executors of one checkpoint exists; two resume threads are what `commit_discarded` adds.
In `shared_workspace` two runs give every relation that the actions mention (the workspace as a
run finds it, a run that waits while another writes, discards, commits); the five patches are a
rewrite, an insertion and a replacement of a committed file, the creation of a file and a change
of an uncommitted one. Three runs were explored once with two patches without a new result. Only
with four does a commit land on `main`: a run commits, a second waits on a branch stacked on the
first one's with a new file, a third cleans up to `main`, a fourth fails and leaves a file that
makes git refuse the second one's checkout; `create_feature_branch`'s failure is ignored and, the
diff having new files only, no drift is checked. `ApprovedFilesLand` says "on whatever branch" for
that reason. In `dispatch` two clients are the two users of a key, as a retry, a rival with another
payload or an unrelated request; a third adds one more replay. In `watchdog` one run meets two
passes at any step; restarts are in `dispatch`, and `ServiceProofs` composes the two. In
`publish_pr` one fault leaves the row and GitHub apart in each way they can be apart (lost before
the effect, lost after it, a crash between them), and the next request meets that. In `decisions`
a second file matters only where a check looks at whether any file is Python. For the properties
that are proved (section 5) no bound matters: that is every invariant, action property and refinement
of the passing runs; only liveness is bounded. The type invariant of each module is a theorem too
and is no property of a run.

`CHECK_DEADLOCK FALSE` stands where a run may end: a finished walk, a finished run, the locks all
returned or timed out, every run of a workspace ended.

### Fairness

`GraphWalk`: weak fairness of `Executor`, the steps of the thread that executes the graph. A node
returns or raises because model calls, sandbox and git subprocesses have timeouts; a reviewer need
not answer, so a pause is one of the places where a walk may rest. `RunLifecycle`: weak fairness of
the background task and of each thread's own steps (the operating system schedules threads);
nothing is assumed of reviewers, cancellations and crashes. `WorkspaceLock`: weak fairness of each
thread's steps in `acquire_lock` and in `release_lock` (the context manager's `finally` always runs),
and strong fairness of `TimeOut`, since a poll that goes round for ever meets its fixed deadline
while it is at the top of the loop again and again; nobody has to acquire. `SharedWorkspace` has no fairness: its properties are about what a step may do.

`Dispatch`: weak fairness of `BecomeReady`, of `Drain` (the shutdown coroutine), and of each request
and task thread; not of a client's sending, nor of the end of a walk, which depends on the graph.
`Watchdog`: the same, and weak fairness of a pass once begun; nobody has to begin one. `PublishPR`:
weak fairness of each client's next request and of its steps: a client without success asks again,
as the retry safety of the endpoint is made for; nothing of people, cancellations and faults, which
are bounded. `Verdict` has no fairness.

## 4. Findings

Each has a run whose counterexample shows it, and an entry in `PROJECT.json` with the lines.

* `commit_discarded`: two concurrent decisions; the rejection's cleanup deletes the approved
  commit, and the run stays recorded as COMMITTED.
* `approved_diff_only`: `git add .` commits files that no diff showed.
* `pause_survives_drain`: a run that pauses just after the deadline of the drain has passed is
  finalized as CANCELLED, though pauses are to survive a shutdown.

Two more contradict the repository's words. Each is a property of its module that TLC refutes in
seconds when it is named in the configuration:

* `RefusedIsCleaned` (`SharedWorkspace`; `MCExactDiff.cfg`): the repository's `README.md:104` says that a rejected
  or policy-blocked run is cleaned up instead of left half-applied. A run branches from what the run
  before it left checked out, changes a file that `main` has otherwise, and is refused. Git does not
  check out `main` over the change (`git_manager.py:605`), `cleanup_branch` returns False before it
  discards anything, `cleanup_node` ignores it (`nodes.py:1657`) and reports REJECTED_AND_CLEANED:
  change and branch stay, and the next run starts on them. `AloneIsRestored` is what does hold.
* `WrappersAreRefused` (`Verdict`; `MCDecisions.cfg`): the comment at `qa/pipeline.py:227` calls the test
  for a patch editor's wrapper "Unconditional" and says it catches those of a context-aware revision.
  It is not reached for a file that such a revision creates: the file has no snapshot, which
  `revision_node` drops (`nodes.py:1158-1178`), and is not on disk, since nothing was written, so
  `check_patch_scope` skips it (`pipeline.py:212`). `check_ast` accepts the empty anchor,
  `apply_patches` writes the file, and the wrapper goes to the reviewer with QA passed.

Others that the models reach and no run is spent on:

* *Graph and lifecycle.* After a crash inside a node `get_status` reports WAITING_APPROVAL without
  a pause (`runner.py:288`), so `PauseIsReal` is about processes that never crashed. A cancelled
  run may stay in CANCELLING, or be taken back to WAITING_APPROVAL, for ever (`collector.py:356`,
  `runner.py:1092`). A run that exhausts its revisions inside `start_run` keeps the row status
  RUNNING (`runner.py:728`). A hook's stale upsert takes back a terminal status (`store.py:250`).
* *Lock.* The last thread of a run to leave cannot release the RLock that another thread of the run
  took (`workspace_lock.py:341`); `MutualExclusion` and `AcquireReturns` hold nevertheless. Telemetry
  that raises in `on_workspace_lock_acquired` leaves an owner entry without a kernel lock
  (`workspace_lock.py:248`; set `TelemetryMayFail = TRUE` in `MCWorkspaceLock.cfg`).
* *Workspace.* A repository with neither `main` nor `master` is never cleaned up
  (`git_manager.py:600`). A revision that was validated but not written is shown with QA PASS though it
  was never executed (`agents/revision.py:212`). A diff preparation that fails leaks its branch; a
  snippet patch of a file that is not committed yet is shown in part and then refused as drift;
  `check_ast` applies a replacing snippet to the file it has already replaced, so that QA fails
  every such patch; `cleanup_branch` restores the index, not HEAD; its comment that
  `git_commit_node` is the only creator of branches is out of date.
* *Dispatch and drain.* `start_run` leaves `_active_runs` before it records its outcome
  (`runner.py:716-735`): a drain in between finds nothing to wait for, the stores close, and the
  row stays RUNNING. A run accepted just before DRAINING registers after the drain has returned.
  A replay answers RUNNING for a key whose request failed or crashed before its dispatch
  (`app.py:462`), and a failed request leaves its run in `_active_runs`. Nothing restarts a QUEUED run.
* *Watchdog.* The check before the flag looks at terminal statuses and at the flag only, so a run
  that has just paused is flagged and cancelled. A crash between `mark_stuck` and the cancellation
  leaves a flagged run that no later pass looks at.
* *Publication.* A replay answers with the base that was asked for even if the recorded pull
  request is on another base or repository; another base after a lost answer opens a second one;
  reconciliation skips the mismatch check and may return a closed one; a transport error
  is not reconciled in the same call. `on_pr_published` upserts a stale status over
  COMPLETED. A CANCELLED row of a resumed run is overwritten with COMPLETED and published, contrary
  to the comment at `app.py:971`.
* *Decisions.* A required quality check fails a diff only on FAIL, so SKIPPED passes, where
  `schemas/policy.py` says "must succeed"; `is_security_sensitive` is never true; rejecting a
  HIGH-risk run needs the security permission too; a review status other than FAIL passes. With an
  empty request the scope check passes everything (`qa/pipeline.py:191`), wrappers included, and a
  patch that fits the disk but not its snapshot is passed over (`pipeline.py:221`).
* *Audit log.* `AuditLogger.log` (`security/audit.py:109-126`) reads the last hash of the
  organization and appends in two steps without a lock: two requests of one organization at the
  same time append two entries with one predecessor, and `verify_integrity` then reports a log that
  nobody touched as broken.

## 5. Proofs

All are checked by TLAPS for every value of the constants under the named assumptions of the
modules (budgets are positive, model values differ, patches are patches).

* **GraphWalk** (`WalkTyped`, `WalkIsGated`, `WalkRespectsBudget`, `RefusalsReachCleanup`,
  `WalkReportsTruth`, `WalkIsFinite`). The gate is not inductive: what `git_commit` needs was established nodes
  earlier. The invariant `WalkInv` of `AgentGraphProofs` says for each node what the walk that
  stands at it has already proved (QA passed behind `qa`, the policy permitted behind `policy`,
  and so on); each node's lemma moves it one edge on. `RevisionBudget` needs the same lemma for
  the edge from a refused patch to `revision`, which bypasses `qa_router`. `RefusalsReachCleanup`
  needs that only `cleanup_node` says REJECTED_AND_CLEANED and that whoever routes to it leaves it
  either a refusal or a no-op diff (`Rejections`); that the workspace is then clean is not claimed, and
  is false (`RefusedIsCleaned`, section 4). `WalkIsFinite`: every edge lowers `NodesLeft`, because the only
  cycle, `revision` to `qa`, spends the budget. That `NodesLeft` is a natural number rests on `WalkInv`.
* **RunLifecycle** (`LifecycleInvariant`, `LifecycleTyped`, `LifecycleIsGated`,
  `LifecycleStopsCommits`, `LifecyclePausesAreReal`, `LifecycleCommitsAreTrue`, `ThreadsAreFinite`). `WalkInv` holds of
  the checkpoint and of every thread's loop,
  whichever of them saved last: threads may overwrite one another's checkpoints but each one is
  the state of a walk. That the decision of a resume request may arrive at any node is harmless
  because only `approval` reads it, and it checks the hash of the diff it finds. `RowInv` and the
  clauses on copies say that CANCELLED is never there without the cancellation flag. The refinement
  of `CommitGate` rests on them and on `Merge`, the upsert that never clears `cancel_requested`.
  A reported pause is real (`PauseInv`) because, without a crash, a checkpoint that is neither final
  nor marked has an executor standing on it, and `interrupt()` marks `approval` with a real diff only.
  A recorded commit is one (`SealInv`) for at most one decision: the starter never passes
  `interrupt()`, the reviewer enters only when the starter is past its walk or the run is cancelled,
  and once a commit is recorded anywhere every thread is past its walk, so that no cleanup can delete
  it. `commit_discarded` shows that the assumption is needed. `ThreadsAreFinite` carries the bound of
  the walk over to threads: `ThreadLeft` adds what comes before the first node, the unwinding and the
  hooks, and no step of a thread, of its rivals or of a crash raises it. It needs `WalkInv` of the loop,
  and that a thread at rest holds no loop (`RestInv`).
* **WorkspaceLock** (`LockExcludes`, `LockCounts`, `LockIsUsed` and the refinement
  `LockImplementsRunLock`, assuming that telemetry does not raise; `LockTyped`, whether it does or not). The RLocks are of no use in the argument, since
  recovery may replace them. The invariant
  names at every moment who is responsible for the kernel lock: the process with an owner entry, or
  the one thread, its *custodian*, that has locked the file and not yet recorded it, or has removed
  the record and not yet unlocked the file. The count is kept with the cardinality of `Holders`. In
  `RunLock` a thread enters with the step that registers or counts it: the count of its process is
  then zero, and whoever else were inside would own the kernel lock, or it is positive for the same
  run. It leaves with the step that uncounts it, a process's death takes all its threads out, and every
  other step is a stutter there. The delicate part of the types is the depth of an RLock, positive
  while it is held.
* **SharedWorkspace** (`Typing`, `QaAndReviewerAgree`, `PassedPatchesAreTaken`, `CheckedFilesLand`,
  `UndisturbedCommitsItsDiff`, `RejectedLeavesNoTrace`).
  The invariant: no file
  of HEAD is missing from the index and none of the index from the tree; the tree QA passed is
  the tree `git_prepare` finds, and the patches apply to it; a run with a diff has its branch; a run about to commit has just
  been checked for drift. The second and the last rest on the lock: `OtherRuns` says that a run
  which does not execute depends on nothing but its own state. A checked file cannot be lost by
  the checkout before the commit, since a file that differs from HEAD is carried along. For a run in
  `alone` more is kept: while nobody else takes the lock nothing is staged and the tree is HEAD with
  the run's own patches, so that its diff is all that separates the tree from its branch, the tree is
  the one QA tested, and the drift check passes. If it is rejected, nothing is staged and its branch is
  where `main` is, so that git does not refuse the checkout which `cleanup_node` would ignore.
* **Dispatch and Watchdog** (`ServiceProofs`: `DispatchTyped`, `KeysStartOneRun`, `AnswersNameTheRun`,
  `DrainsAreTruthful`, `DispatchImplementsIdempotentRuns`, `AcknowledgedIsPending`;
  `ServiceKeepsPromises`, `ServiceImplementsIdempotentRuns`, `StuckIsReportedOnce`, `BusyIsSpared`,
  `FlagsAreFollowedUp`). A request that
  is past its reservation owns the record of its key for good, since run and payload of a record
  never change once made; an answer under a key names that owner. A run is in `_active_runs` from
  its registration to the end of its walk, and a drain says drained only on the way to STOPPED.
  Whoever is about to report a run has just flagged it, so nobody else reports it; listed and flagged
  runs have been idle. `ServiceKeepsPromises` carries the promises of `Dispatch` over to the
  composition, for any number of clients, keys, watchdogs, restarts and failures. In `IdempotentRuns`
  a reservation is the claim, and the first answer and the first start are what they are; a restart
  or a failure changes nothing there. `AcknowledgedIsPending`: without a restart or a failure an
  acknowledged run is started, queued, or with the request that will answer. `FlagsAreFollowedUp`
  needs that a row is never withdrawn while a pass holds its name (`RowedInv`), and that a status
  which ends a run without a cancellation is written after its walk (`EndedInv`), so that
  `request_cancellation` refuses a flagged run only when there is nothing left to cancel.
* **PublishPR** (`FaultlessNeverFails`, `AnswersAreRecorded`, `RetriesDoNotOpen`). The numbers that a
  request, a reply, the row and the hook's copy carry are of pull requests that exist and match what
  was asked for; a request without a fault that is about to push or create found nothing when it
  looked, so that whatever matches now is younger than its beginning; one that GitHub refused has
  something to find.
* **Verdict and ProviderFallback** (`CommitsAreVetted`, `SensitiveIsReserved`, `FallbacksAreBounded`,
  `GivingUpIsJustified`). The invariant says what each finished check has told of the candidate, that
  a candidate of revision 0 is as the developer wrote it (`FirstInv`), that
  only a vetted candidate is prepared, and that only a diff which is neither empty nor blocked waits
  for a reviewer. The attempts of a call are distinct providers with keys, and each has its reason.

Checked by TLC only: liveness (`WalkSettles`, `ThreadsReturn`, `AcquireReturns`, `AcknowledgedStarts`,
`ShutdownCompletes`, `FlaggedIsCancelled`, `RetrySucceeds`), since fairness and ENABLED are out of the
prover's reach. For four of them the safety core is proved. `WalkIsFinite` and `ThreadsAreFinite` give
the bound that, with the weak fairness assumed and no deadlock before the end, yields `WalkSettles` and
`ThreadsReturn`; `AcknowledgedIsPending` and `FlagsAreFollowedUp` say that what `AcknowledgedStarts` and
`FlaggedIsCancelled` wait for is always in somebody's hands.

## 6. Not modelled, and why

* Language models, prompts, retrieval and ranking (`indexer/`, `rag/`): text and numbers, no control
  structure beyond what `ProviderFallback` has.
* Telemetry reports, pricing, the sanitizer: read-only over the recorded events; nothing decides on
  them. Events are append-only.
* Authentication, tenant isolation, administration of tenants and repositories: comparisons of
  request fields and single upserts. `Authorized` in `PublishPR` is what they answer.
* The matching of paths and branch names by policy rules: a free choice in `Verdict`.
* The sandbox subprocess beyond its outcome.
* The audit log: section 4 says what concurrent appends do to its chain; a property that says the
  chain verifies is false after two steps of two requests, and no other code reads the chain.
* The frontend: it holds no state that the backend relies on.

## 7. What is left

1. A crash between two git commands in `SharedWorkspace` (it has failures of a command, not the death
   of the process), and the composition of the workspace with the row of the run.
2. That `SharedWorkspace` implements the bits `dirty` and `committed` of `AgentGraph`, as a refinement.
3. The safety core of the remaining liveness properties: that a drain and an acquisition come nearer to
   their end, as walks and threads are shown to.
4. The audit chain with a lock, should the code get one.
5. `Dispatch` with the thread pool that requests and background tasks share, whose limit could keep a
   cancellation waiting behind the walks it is to cancel.
