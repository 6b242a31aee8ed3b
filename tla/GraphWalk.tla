----------------------------- MODULE GraphWalk -----------------------------
(***************************************************************************)
(* One walk of the workflow of AgentGraph by one executor: the compiled    *)
(* graph of AgentRunner._build_graph, from the router to END, with the     *)
(* pause at the approval node.  Each node is one action; a node may also   *)
(* raise, which ends the walk where it stands.                             *)
(*                                                                         *)
(* dirty and committed describe the run's working tree: whether it holds   *)
(* uncommitted changes, and whether its feature branch holds a commit.     *)
(***************************************************************************)
EXTENDS AgentGraph

CONSTANT Decisions    \* the decisions reviewers may submit

ASSUME DecisionsAssumption == Decisions \subseteq Decision

VARIABLES
  node,     \* state.next: the node to run, END when there is none
  phase,    \* "walking", "paused" in interrupt(), or "raised"
  vals,     \* the state dictionary
  dirty,    \* the working tree holds uncommitted changes
  committed \* the feature branch holds the run's commit

vars == <<node, phase, vals, dirty, committed>>

TypeOK ==
  /\ node \in Nodes \cup {END}
  /\ phase \in {"walking", "paused", "raised"}
  /\ vals \in AgentState
  /\ dirty \in BOOLEAN /\ committed \in BOOLEAN

Init ==
  /\ node = "router"
  /\ phase = "walking"
  /\ vals = NewAgentState
  /\ dirty = FALSE /\ committed = FALSE

\* Node n returned v: store it, take n's edge, and leave n's mark on the
\* working tree and the feature branch.
Step(n, v) ==
  /\ vals' = v
  /\ node' = Successor(n, v)
  /\ phase' = "walking"
  /\ dirty' \in DirtyAfter(n, v, dirty)
  /\ committed' \in CommittedAfter(n, committed)

\* A node that neither commits nor waits for a reviewer.
Run(n) ==
  /\ phase = "walking" /\ node = n
  /\ \E v \in NodeResults(n, vals, NoDecision) : Step(n, v)

Route == Run("router")
Plan == Run("planner")
Retrieve == Run("knowledge")
Develop == Run("developer")
Review == Run("qa")
Revise == Run("revision")
Prepare == Run("git_prepare")
CheckPolicy == Run("policy")
Cleanup == Run("cleanup")

\* interrupt() hands the diff to a reviewer; Decide resumes with the answer.
Pause ==
  /\ phase = "walking" /\ node = "approval"
  /\ phase' = "paused"
  /\ UNCHANGED <<node, vals, dirty, committed>>

Decide(d) ==
  /\ phase = "paused"
  /\ \E v \in NodeResults("approval", vals, d) : Step("approval", v)

Refuse ==
  /\ phase = "walking" /\ node = "git_commit"
  /\ \E v \in CommitRefusals(vals) : Step("git_commit", v)

Commit ==
  /\ phase = "walking" /\ node = "git_commit" /\ vals.diff = "Real"
  /\ \E success \in {dirty, FALSE} :
       /\ vals' = CommitResult(vals, success)
       /\ node' = Successor("git_commit", vals')
       /\ dirty' = (dirty /\ ~success)
       /\ committed' = (committed \/ success)
  /\ UNCHANGED phase

Raise ==
  /\ phase = "walking" /\ node # END
  /\ phase' = "raised"
  /\ UNCHANGED <<node, vals, dirty, committed>>

Executor ==
  \/ Route \/ Plan \/ Retrieve \/ Develop \/ Review \/ Revise
  \/ Prepare \/ CheckPolicy \/ Pause \/ Refuse \/ Commit \/ Cleanup \/ Raise

Next == Executor \/ \E d \in Decisions : Decide(d)

\* The executor keeps running; nothing makes a reviewer answer.
Spec == Init /\ [][Next]_vars /\ WF_vars(Executor)

-----------------------------------------------------------------------------
\* What _derive_status reports of the walk.
DerivedStatus ==
  IF node # END THEN IF phase = "raised" THEN "FAILED" ELSE "WAITING_APPROVAL"
                ELSE EndStatus(vals)

(***************************************************************************)
(* The git_commit node is reached only with a QA PASS, a policy that did   *)
(* not block, and an authorised approval of the exact staged diff; and a   *)
(* tree that holds a commit went through that gate.                        *)
(***************************************************************************)
CommitIsGated ==
  (node = "git_commit" \/ committed) => Vetted(vals)

(***************************************************************************)
(* MAX_REVISIONS bounds the self-correction loop, and only a QA FAIL at    *)
(* the bound sends a code change to END without a verdict of git_prepare.  *)
(***************************************************************************)
RevisionBudget ==
  /\ vals.revisions <= MaxRevisions
  /\ (node = END /\ vals.qa = "FAIL") => vals.revisions = MaxRevisions

(***************************************************************************)
(* Every way to refuse a diff (a blocking policy, a reviewer, a hash that  *)
(* is not the staged one, a role that does not suffice) ends in            *)
(* cleanup_node with REJECTED_AND_CLEANED, and nothing else does: a walk   *)
(* with nothing to commit is not reported as rejected.  Whether the        *)
(* workspace is then clean is not said: cleanup_branch may fail unnoticed. *)
(***************************************************************************)
IsRefused(v) == v.policy = "BLOCK" \/ (v.decided /\ ~v.approval.approved)
RefusedEndsInCleanup ==
  node = END => (IsRefused(vals) <=> vals.status = "REJECTED_AND_CLEANED")

(***************************************************************************)
(* A walk reported COMPLETED never ends on a failing QA verdict, and one   *)
(* reported FAILED at END has committed nothing.                           *)
(***************************************************************************)
ReportedStatusIsTrue ==
  /\ (node = END /\ DerivedStatus = "COMPLETED" /\ vals.qa # "None")
       => vals.qa = "PASS"
  /\ (node = END /\ DerivedStatus = "FAILED") => ~committed

(***************************************************************************)
(* Every walk ends, raises, or pauses for the reviewer: the developer, qa  *)
(* and revision nodes cannot run for ever.                                 *)
(***************************************************************************)
WalkSettles ==
  (phase = "walking") ~> (node = END \/ phase # "walking")

(***************************************************************************)
(* Nor can they run for long: every step of a walk, whatever the nodes     *)
(* return and whatever the reviewer decides, brings it nearer to its end,  *)
(* so that at most MaxNodes nodes are run.                                 *)
(***************************************************************************)
StepsLeft == 2 * NodesLeft(node, vals) + (IF phase = "walking" THEN 1 ELSE 0)
WalkDescends == [][StepsLeft' \in 0..(StepsLeft - 1)]_vars
=============================================================================
