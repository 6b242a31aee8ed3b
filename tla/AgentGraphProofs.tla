-------------------------- MODULE AgentGraphProofs --------------------------
(***************************************************************************)
(* What holds of the state dictionary when a walk stands at a node, and    *)
(* the proof that every node of AgentGraph, followed by its edge, keeps    *)
(* it.  GraphWalkProofs uses it for a walk by one executor, and            *)
(* RunLifecycleProofs for every executor and for the checkpoint.           *)
(***************************************************************************)
EXTENDS AgentGraph, TLAPS

USE DEF END, NoNode, Nodes

Revisions(n, v) ==
  /\ v.revisions <= MaxRevisions
  /\ n \in {"router", "planner", "knowledge", "developer"}
       => v.revisions = 0 /\ v.qa = "None"
  /\ n = "revision" => v.revisions < MaxRevisions
  /\ (n = END /\ v.qa = "FAIL") => v.revisions = MaxRevisions

Verdicts(n, v) ==
  /\ n \in {"git_prepare", "policy", "approval", "git_commit", "cleanup"}
       => v.qa = "PASS"
  /\ n \in {"router", "planner", "knowledge", "developer", "qa", "revision",
            "git_prepare", "policy"} => v.policy = "None"
  /\ n \notin {"git_commit", "cleanup", END} => ~v.decided
  /\ n = "policy" => v.diff # "None"
  /\ n = "approval" => v.diff = "Real" /\ v.policy = "PERMIT"
  /\ n = "git_commit" => Vetted(v)

Ending(n, v) ==
  /\ v.status = "COMMITTED" => n = END /\ Vetted(v)
  /\ v.status = "COMMIT_FAILED" => n = END

\* Standing at node n with state v is consistent with a walk from the router.
WalkInv(n, v) ==
  /\ n \in Nodes \cup {END} /\ v \in AgentState
  /\ Revisions(n, v) /\ Verdicts(n, v) /\ Ending(n, v)

(***************************************************************************)
(* A walk starts consistently: the state dictionary start_run passes to    *)
(* graph.invoke, at the router.                                            *)
(***************************************************************************)
LEMMA WalkStart == WalkInv("router", NewAgentState)
  BY MaxRevisionsAssumption
  DEF WalkInv, Revisions, Verdicts, Ending, Vetted, NewAgentState, AgentState,
      Decision, NoDecision, ApprovalStatuses

(***************************************************************************)
(* Every node but git_commit, followed by the edge it takes, keeps the     *)
(* walk consistent.                                                        *)
(***************************************************************************)
LEMMA NodeStep ==
  ASSUME NEW n, NEW v, WalkInv(n, v), NEW d \in Decision,
         NEW r \in NodeResults(n, v, d)
  PROVE  WalkInv(Successor(n, r), r)
<1> USE MaxRevisionsAssumption, RoutingsAssumption
    DEF WalkInv, Revisions, Verdicts, Ending, Vetted, AgentState, Decision,
        ApprovalStatuses, Routing, NotRouted
<1>1. CASE n = "router"
  BY <1>1 DEF NodeResults, RouterNode, Successor, RouteAfterRouter
<1>2. CASE n = "planner"
  BY <1>2 DEF NodeResults, PlannerNode, Successor, RouteAfterPlanner
<1>3. CASE n = "knowledge"
  BY <1>3 DEF NodeResults, KnowledgeNode, Successor, RouteAfterKnowledge
<1>4. CASE n = "developer"
  BY <1>4 DEF NodeResults, DeveloperNode, Successor, RouteAfterDeveloper
<1>5. CASE n = "qa"
  BY <1>5 DEF NodeResults, QaNode, Successor, QaRouter
<1>6. CASE n = "revision"
  BY <1>6 DEF NodeResults, RevisionNode, Successor
<1>7. CASE n = "git_prepare"
  BY <1>7 DEF NodeResults, GitPrepareNode, Successor
<1>8. CASE n = "policy"
  <2>1. CASE r = [v EXCEPT !.policy = "PERMIT"]
    BY <1>8, <2>1 DEF Successor, RouteAfterPolicy
  <2>2. CASE r = [v EXCEPT !.policy = "BLOCK", !.status = "POLICY_BLOCKED"]
    BY <1>8, <2>2 DEF Successor, RouteAfterPolicy
  <2> QED
    BY <1>8, <2>1, <2>2 DEF NodeResults, PolicyNode
<1>9. CASE n = "approval"
  <2>1. Successor(n, r) = RouteAfterApproval(r)
    BY <1>9 DEF Successor
  <2>2. CASE r = [v EXCEPT !.decided = TRUE, !.approval = Refused(d),
                           !.status = "HASH_INTEGRITY"]
    BY <1>9, <2>1, <2>2 DEF Refused, RouteAfterApproval
  <2>3. CASE r = [v EXCEPT !.decided = TRUE, !.approval = Refused(d),
                           !.status = "APPROVAL_UNAUTHORIZED"]
    BY <1>9, <2>1, <2>3 DEF Refused, RouteAfterApproval
  <2>4. CASE /\ r = [v EXCEPT !.decided = TRUE, !.approval = d,
                       !.status = IF d.approved THEN "APPROVED" ELSE "REJECTED"]
             /\ d.approved => d.hash = "same" /\ d.role
    BY <1>9, <2>1, <2>4 DEF RouteAfterApproval
  <2> QED
    BY <1>9, <2>2, <2>3, <2>4 DEF NodeResults, ApprovalNode
<1>10. CASE n = "cleanup"
  BY <1>10 DEF NodeResults, CleanupNode, Successor
<1>11. CASE n \in {"git_commit", END}
  BY <1>11 DEF NodeResults
<1> QED
  BY <1>1, <1>2, <1>3, <1>4, <1>5, <1>6, <1>7, <1>8, <1>9, <1>10, <1>11

(***************************************************************************)
(* git_commit ends the walk consistently, whether it refuses, commits or   *)
(* fails to commit.                                                        *)
(***************************************************************************)
LEMMA CommitStep ==
  ASSUME NEW v, WalkInv("git_commit", v)
  PROVE  /\ \A r \in CommitRefusals(v) : WalkInv(END, r)
         /\ \A success \in BOOLEAN : WalkInv(END, CommitResult(v, success))
  BY MaxRevisionsAssumption
  DEF WalkInv, Revisions, Verdicts, Ending, Vetted, AgentState, Decision,
      ApprovalStatuses, CommitRefusals, CommitResult

(***************************************************************************)
(* A walk that stands at a node has at least that node, and no more than   *)
(* MaxNodes, left to run.                                                  *)
(***************************************************************************)
LEMMA NodesLeftBounds ==
  ASSUME NEW n, NEW v, WalkInv(n, v)
  PROVE  /\ NodesLeft(n, v) \in 0..MaxNodes
         /\ n # END => NodesLeft(n, v) > 0
<1>1. /\ v.revisions \in 0..MaxRevisions /\ MaxRevisions \in Nat
      /\ n \in Nodes \cup {END}
  BY MaxRevisionsAssumption DEF WalkInv, Revisions, AgentState
<1> QED
  BY <1>1 DEF NodesLeft, MaxNodes

(***************************************************************************)
(* Every node, with the edge it takes, leaves less to run: the only cycle  *)
(* of the graph spends the revision budget.                                *)
(***************************************************************************)
LEMMA NodesDescend ==
  ASSUME NEW n, NEW v, WalkInv(n, v), NEW d \in Decision,
         NEW r \in NodeResults(n, v, d)
  PROVE  NodesLeft(Successor(n, r), r) \in 0..(NodesLeft(n, v) - 1)
<1> DEFINE s == Successor(n, r)
<1>1. /\ v \in AgentState /\ v.revisions \in 0..MaxRevisions /\ MaxRevisions \in Nat
      /\ n \in Nodes
  BY MaxRevisionsAssumption DEF WalkInv, Revisions, AgentState, NodeResults
<1>2. NodesLeft(s, r) \in Nat
  BY NodeStep, NodesLeftBounds DEF MaxNodes
<1>3. CASE n = "revision"
  <2>1. r.revisions = v.revisions + 1 /\ s = "qa"
    BY <1>1, <1>3 DEF NodeResults, RevisionNode, Successor, AgentState
  <2> QED
    BY <1>1, <1>2, <1>3, <2>1 DEF NodesLeft
<1>4. CASE n # "revision"
  <2>1. r.revisions = v.revisions
    BY <1>1, <1>4 DEF NodeResults, RouterNode, PlannerNode, KnowledgeNode,
       DeveloperNode, QaNode, GitPrepareNode, PolicyNode, ApprovalNode, CleanupNode,
       AgentState
  <2>2. CASE n = "router"
    BY <1>1, <1>2, <2>1, <2>2 DEF Successor, RouteAfterRouter, NodesLeft
  <2>3. CASE n = "planner"
    BY <1>1, <1>2, <2>1, <2>3 DEF Successor, RouteAfterPlanner, NodesLeft
  <2>4. CASE n = "knowledge"
    BY <1>1, <1>2, <2>1, <2>4 DEF Successor, RouteAfterKnowledge, NodesLeft
  <2>5. CASE n = "developer"
    BY <1>1, <1>2, <2>1, <2>5 DEF Successor, RouteAfterDeveloper, NodesLeft
  <2>6. CASE n = "qa"
    BY <1>1, <1>2, <2>1, <2>6 DEF Successor, QaRouter, NodesLeft
  <2>7. CASE n = "git_prepare"
    BY <1>1, <1>2, <2>1, <2>7 DEF Successor, NodesLeft
  <2>8. CASE n = "policy"
    BY <1>1, <1>2, <2>1, <2>8 DEF Successor, RouteAfterPolicy, NodesLeft
  <2>9. CASE n = "approval"
    BY <1>1, <1>2, <2>1, <2>9 DEF Successor, RouteAfterApproval, NodesLeft
  <2>10. CASE n \in {"cleanup", "git_commit"}
    BY <1>1, <1>2, <2>1, <2>10 DEF Successor, NodesLeft
  <2> QED
    BY <1>1, <1>4, <2>2, <2>3, <2>4, <2>5, <2>6, <2>7, <2>8, <2>9, <2>10
<1> QED
  BY <1>3, <1>4
=============================================================================
