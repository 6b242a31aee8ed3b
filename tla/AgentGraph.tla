----------------------------- MODULE AgentGraph -----------------------------
(***************************************************************************)
(* The LangGraph workflow of backend/graph: what each node may return, and *)
(* the edge taken afterwards.  This module has no variables: GraphWalk     *)
(* runs one walk of the graph, RunLifecycle runs it under threads, crashes *)
(* and cancellation.                                                       *)
(*                                                                         *)
(* The state dictionary is kept down to the fields that some edge, some    *)
(* guard or the status derivation reads.  What a language model, a test    *)
(* run or a policy decides is a nondeterministic choice of the node.       *)
(***************************************************************************)
EXTENDS Integers

CONSTANTS
  MaxRevisions,   \* MAX_REVISIONS, the self-correction budget (3 in the code)
  Routings        \* the routing decisions the router node may return

\* The decisions route_after_router and its successors can tell apart:
\* the task type, requires_planning, requires_knowledge (with a project_id).
Routing == [type : {"GENERAL", "KNOWLEDGE_SEARCH", "CODE"},
            planning : BOOLEAN, knowledge : BOOLEAN]
\* A state dictionary without a routing decision.
NotRouted == [type |-> "NONE", planning |-> FALSE, knowledge |-> FALSE]

\* The budget must be positive: a developer whose patch did not apply routes to
\* the revision node without asking qa_router, so it always gets one revision.
ASSUME MaxRevisionsAssumption == MaxRevisions \in Nat \ {0}
ASSUME RoutingsAssumption == Routings \subseteq Routing

END == "END"          \* LangGraph's END: state.next is the empty tuple
NoNode == "NoNode"    \* the thread has no checkpoint yet

Nodes == {"router", "planner", "knowledge", "developer", "qa", "revision",
          "git_prepare", "policy", "approval", "git_commit", "cleanup"}

(***************************************************************************)
(* A reviewer's ApprovalDecision: the verdict, whether the submitted       *)
(* patch_hash is the staged one, another one or absent, and whether        *)
(* can_approve_changes accepts the reviewer's role for the staged diff.    *)
(***************************************************************************)
Decision == [approved : BOOLEAN, hash : {"same", "other", "missing"},
             role : BOOLEAN]
NoDecision == [approved |-> FALSE, hash |-> "missing", role |-> FALSE]
Refused(d) == [d EXCEPT !.approved = FALSE]

ApprovalStatuses ==
  {"None", "POLICY_BLOCKED", "APPROVED", "REJECTED", "HASH_INTEGRITY",
   "APPROVAL_UNAUTHORIZED", "PATCH_HASH_MISMATCH", "COMMITTED",
   "COMMIT_FAILED", "NO_CHANGES_NEEDED", "REJECTED_AND_CLEANED"}

AgentState ==
  [routing : Routing \cup {NotRouted},
   qa : {"None", "PASS", "FAIL", "PATCH_FAIL"},
   revisions : Nat,                     \* revision_count
   diff : {"None", "NoOp", "Real"},     \* git_diff, with its is_no_op
   policy : {"None", "PERMIT", "BLOCK"},\* PERMIT stands for ALLOW and REVIEW
   decided : BOOLEAN,                   \* "approval" has been set
   approval : Decision,
   status : ApprovalStatuses]           \* approval_status

NewAgentState ==
  [routing |-> NotRouted, qa |-> "None", revisions |-> 0, diff |-> "None",
   policy |-> "None", decided |-> FALSE, approval |-> NoDecision,
   status |-> "None"]

-----------------------------------------------------------------------------
(* What each node may return, as the set of possible next state values.    *)

RouterNode(v) == {[v EXCEPT !.routing = r] : r \in Routings}

PlannerNode(v) == {v}
KnowledgeNode(v) == {v}

\* Either a patch was generated, or its anchor did not match a non-Python
\* file (PATCH_APPLICATION_FAILURE), which also sets qa_result to a FAIL.
DeveloperNode(v) == {v, [v EXCEPT !.qa = "PATCH_FAIL"]}

QaNode(v) == {[v EXCEPT !.qa = q] : q \in {"PASS", "FAIL"}}

\* Mutant: the revision counter is not advanced.
RevisionNodeUncounted(v) == {v}
RevisionNode(v) == {[v EXCEPT !.revisions = @ + 1]}

\* A failed preparation leaves files_changed set and the diff text empty,
\* which is_no_op reads as a no-op.
GitPrepareNode(v) == {[v EXCEPT !.diff = d] : d \in {"NoOp", "Real"}}

PolicyNode(v) ==
  {[v EXCEPT !.policy = "PERMIT"],
   [v EXCEPT !.policy = "BLOCK", !.status = "POLICY_BLOCKED"]}

\* Mutant: an approval is taken whatever hash it names.
ApprovalNodeAnyHash(v, d) ==
  {IF d.approved /\ ~d.role
     THEN [v EXCEPT !.decided = TRUE, !.approval = Refused(d),
                    !.status = "APPROVAL_UNAUTHORIZED"]
   ELSE [v EXCEPT !.decided = TRUE, !.approval = d,
                  !.status = IF d.approved THEN "APPROVED" ELSE "REJECTED"]}
\* The node after interrupt() has returned decision d.
ApprovalNode(v, d) ==
  {IF d.approved /\ (v.diff # "Real" \/ d.hash # "same")
     THEN [v EXCEPT !.decided = TRUE, !.approval = Refused(d),
                    !.status = "HASH_INTEGRITY"]
   ELSE IF d.approved /\ ~d.role
     THEN [v EXCEPT !.decided = TRUE, !.approval = Refused(d),
                    !.status = "APPROVAL_UNAUTHORIZED"]
   ELSE [v EXCEPT !.decided = TRUE, !.approval = d,
                  !.status = IF d.approved THEN "APPROVED" ELSE "REJECTED"]}

\* git_commit up to its final check: a no-op diff or a drifted workspace ends
\* the node here; otherwise the commit is attempted (CommitResult).
CommitRefusals(v) ==
  IF v.diff # "Real" THEN {[v EXCEPT !.status = "NO_CHANGES_NEEDED"]}
                     ELSE {[v EXCEPT !.status = "PATCH_HASH_MISMATCH"]}
\* Mutant: success is claimed without a commit.
CommitResultOptimistic(v, success) == [v EXCEPT !.status = "COMMITTED"]
CommitResult(v, success) ==
  [v EXCEPT !.status = IF success THEN "COMMITTED" ELSE "COMMIT_FAILED"]

CleanupNode(v) ==
  {[v EXCEPT !.status = IF ~v.decided /\ v.policy # "BLOCK" /\ v.diff = "NoOp"
                          THEN "NO_CHANGES_NEEDED"
                          ELSE "REJECTED_AND_CLEANED"]}

\* Every node but git_commit, whose commit is a step of its own.
NodeResults(n, v, d) ==
  CASE n = "router"      -> RouterNode(v)
    [] n = "planner"     -> PlannerNode(v)
    [] n = "knowledge"   -> KnowledgeNode(v)
    [] n = "developer"   -> DeveloperNode(v)
    [] n = "qa"          -> QaNode(v)
    [] n = "revision"    -> RevisionNode(v)
    [] n = "git_prepare" -> GitPrepareNode(v)
    [] n = "policy"      -> PolicyNode(v)
    [] n = "approval"    -> ApprovalNode(v, d)
    [] n = "cleanup"     -> CleanupNode(v)
    [] OTHER             -> {}

\* What running node n may do to the uncommitted changes in the working tree:
\* the developer writes its files, git_prepare applies patches (a diff is real
\* only when something is uncommitted), cleanup_branch discards everything.  Or
\* nothing: git may refuse to check out main over the changes, find neither main
\* nor master, or time out, and cleanup_node does not look at the result.
DirtyAfter(n, v, dirty) ==
  CASE n = "developer"   -> {dirty, TRUE}
    [] n = "git_prepare" -> {dirty \/ v.diff = "Real"}
    [] n = "cleanup"     -> {dirty, FALSE}
    [] OTHER             -> {dirty}

\* cleanup_branch deletes the feature branch, and a commit with it, if it gets
\* that far.
CommittedAfter(n, committed) ==
  IF n = "cleanup" THEN {committed, FALSE} ELSE {committed}

-----------------------------------------------------------------------------
(* The conditional edges.                                                  *)

RouteAfterRouter(v) ==
  IF v.routing.type = "GENERAL" THEN END
  ELSE IF v.routing.planning THEN "planner"
  ELSE IF v.routing.type = "KNOWLEDGE_SEARCH" \/ v.routing.knowledge
       THEN "knowledge"
  ELSE "developer"

RouteAfterPlanner(v) ==
  IF v.routing.knowledge THEN "knowledge" ELSE "developer"

RouteAfterKnowledge(v) ==
  IF v.routing.type = "KNOWLEDGE_SEARCH" /\ ~v.routing.planning
    THEN END ELSE "developer"

RouteAfterDeveloper(v) == IF v.qa = "PATCH_FAIL" THEN "revision" ELSE "qa"

\* Mutant: the budget is compared with > instead of >=.
QaRouterOffByOne(v) ==
  IF v.qa = "PASS" THEN "git_prepare"
  ELSE IF v.revisions > MaxRevisions THEN END
  ELSE "revision"
QaRouter(v) ==
  IF v.qa = "PASS" THEN "git_prepare"
  ELSE IF v.revisions >= MaxRevisions THEN END
  ELSE "revision"

\* Mutant: a blocked diff ends the walk without the cleanup.
RouteAfterPolicyUncleaned(v) ==
  IF v.diff = "NoOp" \/ v.policy = "BLOCK" THEN END ELSE "approval"
RouteAfterPolicy(v) ==
  IF v.diff = "NoOp" \/ v.policy = "BLOCK" THEN "cleanup" ELSE "approval"

\* Mutant: a refused diff is revised once more.
RouteAfterApprovalRevising(v) ==
  IF v.policy # "BLOCK" /\ v.decided /\ v.approval.approved
    THEN "git_commit" ELSE "revision"
RouteAfterApproval(v) ==
  IF v.policy # "BLOCK" /\ v.decided /\ v.approval.approved
    THEN "git_commit" ELSE "cleanup"

Successor(n, v) ==
  CASE n = "router"      -> RouteAfterRouter(v)
    [] n = "planner"     -> RouteAfterPlanner(v)
    [] n = "knowledge"   -> RouteAfterKnowledge(v)
    [] n = "developer"   -> RouteAfterDeveloper(v)
    [] n = "qa"          -> QaRouter(v)
    [] n = "revision"    -> "qa"
    [] n = "git_prepare" -> "policy"
    [] n = "policy"      -> RouteAfterPolicy(v)
    [] n = "approval"    -> RouteAfterApproval(v)
    [] OTHER             -> END

-----------------------------------------------------------------------------
\* Mutant: only a failed commit is a failure.
EndStatusCommitOnly(v) ==
  IF v.status = "COMMIT_FAILED" THEN "FAILED" ELSE "COMPLETED"
\* The status of a walk that reached END: an exhausted revision budget and a
\* failed commit are failures, everything else is COMPLETED.
EndStatus(v) ==
  IF v.status = "COMMIT_FAILED" THEN "FAILED"
  ELSE IF v.qa \in {"FAIL", "PATCH_FAIL"} /\ v.status # "COMMITTED"
       THEN "FAILED"
  ELSE "COMPLETED"

(***************************************************************************)
(* What a state must show before its diff may be committed: QA passed, the *)
(* policy did not block, and an authorised reviewer approved a real diff   *)
(* by its own hash.                                                        *)
(***************************************************************************)
Vetted(v) ==
  /\ v.qa = "PASS" /\ v.diff = "Real" /\ v.policy = "PERMIT"
  /\ v.decided /\ v.approval.approved
  /\ v.approval.hash = "same" /\ v.approval.role

(***************************************************************************)
(* An upper bound on the nodes a walk at node n, with state v, has yet to  *)
(* run: a revision and the qa after it cost two, as long as the budget     *)
(* lasts, and everything else is run at most once more.                    *)
(***************************************************************************)
NodesLeft(n, v) ==
  LET budget == 2 * (MaxRevisions - v.revisions)
  IN CASE n = "router"      -> 9 + budget
       [] n = "planner"     -> 8 + budget
       [] n = "knowledge"   -> 7 + budget
       [] n = "developer"   -> 6 + budget
       [] n = "qa"          -> 5 + budget
       [] n = "revision"    -> 4 + budget
       [] n = "git_prepare" -> 4
       [] n = "policy"      -> 3
       [] n = "approval"    -> 2
       [] n \in {"git_commit", "cleanup"} -> 1
       [] OTHER             -> 0
MaxNodes == 9 + 2 * MaxRevisions
=============================================================================
