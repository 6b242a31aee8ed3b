-------------------------- MODULE GraphWalkProofs ---------------------------
(***************************************************************************)
(* The safety properties of GraphWalk, and that every walk is finite, for  *)
(* every revision budget, every set of routings and every set of           *)
(* decisions.  The inductive invariant is WalkInv of AgentGraphProofs for  *)
(* the node the walk stands at, with what that says of the working tree;   *)
(* with it the number of nodes a walk has yet to visit descends.           *)
(***************************************************************************)
EXTENDS GraphWalk, AgentGraphProofs

USE DEF END, NoNode, Nodes

\* What the state dictionary says of a refusal, at node n.
Rejections(n, v) ==
  /\ n # END => v.status # "REJECTED_AND_CLEANED"
  /\ n = "cleanup" => /\ IsRefused(v) \/ v.diff = "NoOp"
                      /\ v.decided => IsRefused(v)
  /\ n = END => (IsRefused(v) <=> v.status = "REJECTED_AND_CLEANED")

Inv ==
  /\ TypeOK
  /\ WalkInv(node, vals)
  /\ phase = "paused" => node = "approval"
  /\ committed => node = END /\ vals.status = "COMMITTED"
  /\ Rejections(node, vals)

(***************************************************************************)
(* The invariant holds before the router runs.                            *)
(***************************************************************************)
LEMMA InvInit == Init => Inv
<1> SUFFICES ASSUME Init PROVE Inv
  OBVIOUS
<1>1. WalkInv(node, vals)
  BY WalkStart DEF Init
<1> QED
  BY <1>1 DEF Init, Inv, TypeOK, WalkInv, Rejections, NewAgentState

(***************************************************************************)
(* Only cleanup_node says REJECTED_AND_CLEANED, and the nodes that route   *)
(* to it leave it what it decides by.                                      *)
(***************************************************************************)
LEMMA NodeKeepsRejections ==
  ASSUME NEW n, NEW v, WalkInv(n, v), Rejections(n, v), NEW d \in Decision,
         NEW r \in NodeResults(n, v, d)
  PROVE  Rejections(Successor(n, r), r)
<1> USE DEF WalkInv, Rejections, IsRefused, Verdicts, AgentState, ApprovalStatuses
<1>1. CASE n = "router"
  BY <1>1 DEF NodeResults, RouterNode, Successor, RouteAfterRouter
<1>2. CASE n \in {"planner", "knowledge"}
  BY <1>2 DEF NodeResults, PlannerNode, KnowledgeNode, Successor,
              RouteAfterPlanner, RouteAfterKnowledge
<1>3. CASE n = "developer"
  BY <1>3 DEF NodeResults, DeveloperNode, Successor, RouteAfterDeveloper
<1>4. CASE n = "qa"
  BY <1>4 DEF NodeResults, QaNode, Successor, QaRouter
<1>5. CASE n \in {"revision", "git_prepare"}
  BY <1>5 DEF NodeResults, RevisionNode, GitPrepareNode, Successor
<1>6. CASE n = "policy"
  BY <1>6 DEF NodeResults, PolicyNode, Successor, RouteAfterPolicy
<1>7. CASE n = "approval"
  BY <1>7 DEF NodeResults, ApprovalNode, Refused, Decision, Successor,
              RouteAfterApproval
<1>8. CASE n = "cleanup"
  BY <1>8 DEF NodeResults, CleanupNode, Successor
<1>9. CASE n \in {"git_commit", END}
  BY <1>9 DEF NodeResults
<1> QED
  BY <1>1, <1>2, <1>3, <1>4, <1>5, <1>6, <1>7, <1>8, <1>9

(***************************************************************************)
(* A node other than git_commit, followed by its edge, keeps the invariant *)
(* of the walk.                                                            *)
(***************************************************************************)
LEMMA StepKeepsInv ==
  ASSUME Inv, NEW d \in Decision, NEW v \in NodeResults(node, vals, d),
         Step(node, v)
  PROVE  Inv'
<1>0. node \in Nodes /\ committed' = FALSE
  <2>1. node # END
    BY DEF NodeResults
  <2>2. node \in Nodes \cup {END} /\ committed = FALSE
    BY <2>1 DEF Inv, TypeOK, WalkInv
  <2> QED
    BY <2>1, <2>2 DEF Step, CommittedAfter
<1>1. WalkInv(node', vals')
  <2>1. WalkInv(Successor(node, v), v)
    BY NodeStep DEF Inv
  <2> QED
    BY <2>1 DEF Step
<1>2. TypeOK'
  <2>1. dirty' \in BOOLEAN
    BY DEF Step, DirtyAfter, Inv, TypeOK
  <2> QED
    BY <1>0, <1>1, <2>1 DEF Step, TypeOK, WalkInv
<1>3. Rejections(node', vals')
  <2>1. Rejections(Successor(node, v), v)
    BY NodeKeepsRejections DEF Inv
  <2> QED
    BY <2>1 DEF Step
<1> QED
  BY <1>0, <1>1, <1>2, <1>3 DEF Inv, Step

(***************************************************************************)
(* Every step of a walk keeps the invariant.                               *)
(***************************************************************************)
LEMMA InvStep == Inv /\ [Next]_vars => Inv'
<1> SUFFICES ASSUME Inv, [Next]_vars PROVE Inv'
  OBVIOUS
<1> USE DEF Inv
<1>1. NoDecision \in Decision
  BY DEF NoDecision, Decision
<1>2. ASSUME NEW n \in Nodes, Run(n) PROVE Inv'
  <2>1. PICK v \in NodeResults(node, vals, NoDecision) : Step(node, v)
    BY <1>2 DEF Run
  <2> QED
    BY <1>1, <2>1, StepKeepsInv
<1>3. CASE Pause
  BY <1>3 DEF Pause, TypeOK
<1>4. ASSUME NEW d \in Decisions, Decide(d) PROVE Inv'
  <2>1. node = "approval" /\ d \in Decision
    BY <1>4, DecisionsAssumption DEF Decide
  <2>2. PICK v \in NodeResults(node, vals, d) : Step(node, v)
    BY <1>4, <2>1 DEF Decide
  <2> QED
    BY <2>1, <2>2, StepKeepsInv
<1>5. ASSUME Refuse \/ Commit PROVE Inv'
  <2>1. node = "git_commit" /\ WalkInv("git_commit", vals) /\ node' = END
    BY <1>5 DEF Refuse, Commit, Step, Successor
  <2>2. WalkInv(END, vals')
    BY <1>5, <2>1, CommitStep DEF Refuse, Commit, Step, TypeOK
  <2>3. /\ vals.policy = "PERMIT" /\ vals.decided /\ vals.approval.approved
        /\ ~committed
    BY <2>1 DEF WalkInv, Verdicts, Vetted
  <2>4. \E s \in ApprovalStatuses :
          /\ vals' = [vals EXCEPT !.status = s]
          /\ committed' => s = "COMMITTED"
          /\ s # "REJECTED_AND_CLEANED"
    <3>1. CASE Refuse
      BY <2>3, <3>1 DEF Refuse, Step, CommittedAfter, CommitRefusals, ApprovalStatuses
    <3>2. CASE Commit
      <4>1. PICK success \in {dirty, FALSE} :
              /\ vals' = CommitResult(vals, success)
              /\ committed' = (committed \/ success)
        BY <3>2 DEF Commit
      <4> QED
        BY <2>3, <4>1 DEF CommitResult, ApprovalStatuses
    <3> QED
      BY <1>5, <3>1, <3>2
  <2>6. /\ vals'.policy = vals.policy /\ vals'.decided = vals.decided
        /\ vals'.approval = vals.approval
        /\ committed' => vals'.status = "COMMITTED"
        /\ vals'.status # "REJECTED_AND_CLEANED"
    BY <2>1, <2>4 DEF WalkInv, AgentState
  <2>5. dirty' \in BOOLEAN /\ committed' \in BOOLEAN /\ phase' = "walking"
    BY <1>5, <2>1 DEF Refuse, Commit, Step, DirtyAfter, CommittedAfter, TypeOK
  <2> QED
    BY <2>1, <2>2, <2>3, <2>5, <2>6 DEF TypeOK, WalkInv, Rejections, IsRefused
<1>6. CASE Raise
  BY <1>6 DEF Raise, TypeOK
<1>7. CASE UNCHANGED vars
  BY <1>7 DEF vars, TypeOK
<1> QED
  BY <1>2, <1>3, <1>4, <1>5, <1>6, <1>7
  DEF Next, Executor, Route, Plan, Retrieve, Develop, Review, Revise, Prepare,
      CheckPolicy, Cleanup

(***************************************************************************)
(* Every walk keeps the invariant.                                         *)
(***************************************************************************)
THEOREM WalkInvariant == Spec => []Inv
  BY InvInit, InvStep, PTL DEF Spec

(***************************************************************************)
(* The state of a walk is well typed.                                      *)
(***************************************************************************)
THEOREM WalkTyped == Spec => []TypeOK
<1>1. Inv => TypeOK
  BY DEF Inv
<1> QED
  BY <1>1, WalkInvariant, PTL

(***************************************************************************)
(* git_commit runs only on a vetted diff (RouteAfterApproval, QaRouter and *)
(* RouteAfterPolicy are its only gates), whatever the nodes return.        *)
(***************************************************************************)
THEOREM WalkIsGated == Spec => []CommitIsGated
<1>1. Inv => CommitIsGated
  BY DEF Inv, WalkInv, Verdicts, Ending, CommitIsGated
<1> QED
  BY <1>1, WalkInvariant, PTL

(***************************************************************************)
(* The self-correction loop respects MAX_REVISIONS.                        *)
(***************************************************************************)
THEOREM WalkRespectsBudget == Spec => []RevisionBudget
<1>1. Inv => RevisionBudget
  BY DEF Inv, WalkInv, Revisions, RevisionBudget
<1> QED
  BY <1>1, WalkInvariant, PTL

(***************************************************************************)
(* A walk that reaches END was refused exactly when it went through        *)
(* cleanup_node as a refused one: no blocked or rejected diff ends without *)
(* the cleanup, whatever the nodes and the reviewers decide.               *)
(***************************************************************************)
THEOREM RefusalsReachCleanup == Spec => []RefusedEndsInCleanup
<1>1. Inv => RefusedEndsInCleanup
  BY DEF Inv, Rejections, RefusedEndsInCleanup
<1> QED
  BY <1>1, WalkInvariant, PTL

(***************************************************************************)
(* The status _derive_status reports at END agrees with the QA verdict and *)
(* with what was committed.                                                *)
(***************************************************************************)
THEOREM WalkReportsTruth == Spec => []ReportedStatusIsTrue
<1>1. Inv => ReportedStatusIsTrue
  <2> SUFFICES ASSUME Inv PROVE ReportedStatusIsTrue
    OBVIOUS
  <2>1. vals.qa \in {"None", "PASS", "FAIL", "PATCH_FAIL"}
    BY DEF Inv, WalkInv, AgentState
  <2>2. vals.status = "COMMITTED" => vals.qa = "PASS"
    BY DEF Inv, WalkInv, Ending, Vetted
  <2>3. committed => vals.status = "COMMITTED"
    BY DEF Inv
  <2> QED
    BY <2>1, <2>2, <2>3 DEF ReportedStatusIsTrue, DerivedStatus, EndStatus
<1> QED
  BY <1>1, WalkInvariant, PTL

(***************************************************************************)
(* A node other than git_commit brings the walk nearer to its end, even if *)
(* the walk was paused before it.                                          *)
(***************************************************************************)
LEMMA StepDescends ==
  ASSUME Inv, NEW d \in Decision, NEW v \in NodeResults(node, vals, d),
         Step(node, v)
  PROVE  StepsLeft' \in 0..(StepsLeft - 1)
<1>1. NodesLeft(node', vals') \in 0..(NodesLeft(node, vals) - 1)
  <2>1. NodesLeft(Successor(node, v), v) \in 0..(NodesLeft(node, vals) - 1)
    BY NodesDescend DEF Inv
  <2> QED
    BY <2>1 DEF Step
<1>2. NodesLeft(node, vals) \in Nat
  BY NodesLeftBounds, MaxRevisionsAssumption DEF Inv, MaxNodes
<1>3. phase' = "walking"
  BY DEF Step
<1> QED
  BY <1>1, <1>2, <1>3 DEF StepsLeft

(***************************************************************************)
(* Every step of a walk brings it nearer to its end, for every revision    *)
(* budget: the developer, qa and revision nodes cannot run for ever, which *)
(* is what WalkSettles rests on.                                           *)
(***************************************************************************)
THEOREM WalkIsFinite == Spec => WalkDescends
<1>1. Inv /\ [Next]_vars => [StepsLeft' \in 0..(StepsLeft - 1)]_vars
  <2> SUFFICES ASSUME Inv, Next PROVE StepsLeft' \in 0..(StepsLeft - 1)
    OBVIOUS
  <2>0. /\ NodesLeft(node, vals) \in Nat
        /\ node # END => NodesLeft(node, vals) > 0
    BY NodesLeftBounds, MaxRevisionsAssumption DEF Inv, MaxNodes
  <2>1. ASSUME NEW n \in Nodes, Run(n) PROVE StepsLeft' \in 0..(StepsLeft - 1)
    <3>1. NoDecision \in Decision
      BY DEF NoDecision, Decision
    <3>2. PICK v \in NodeResults(node, vals, NoDecision) : Step(node, v)
      BY <2>1 DEF Run
    <3> QED
      BY <3>1, <3>2, StepDescends
  <2>2. ASSUME NEW d \in Decisions, Decide(d) PROVE StepsLeft' \in 0..(StepsLeft - 1)
    <3>1. node = "approval" /\ d \in Decision
      BY <2>2, DecisionsAssumption DEF Decide, Inv
    <3>2. PICK v \in NodeResults(node, vals, d) : Step(node, v)
      BY <2>2, <3>1 DEF Decide
    <3> QED
      BY <3>1, <3>2, StepDescends
  <2>3. CASE Pause \/ Raise
    BY <2>0, <2>3 DEF Pause, Raise, StepsLeft
  <2>4. CASE Refuse \/ Commit
    <3>1. node = "git_commit" /\ phase = "walking" /\ node' = END /\ phase' = "walking"
      BY <2>4 DEF Refuse, Commit, Step, Successor
    <3> QED
      BY <3>1 DEF StepsLeft, NodesLeft
  <2> QED
    BY <2>1, <2>2, <2>3, <2>4
    DEF Next, Executor, Route, Plan, Retrieve, Develop, Review, Revise, Prepare,
        CheckPolicy, Cleanup
<1> QED
  BY <1>1, WalkInvariant, PTL DEF Spec, WalkDescends
=============================================================================
