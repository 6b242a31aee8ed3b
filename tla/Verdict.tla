------------------------------ MODULE Verdict ------------------------------
(***************************************************************************)
(* From a candidate patch to an authorised commit: the language model's    *)
(* review, the quality checks in their order, the judge, the risk of the   *)
(* diff, the organization policy, and the reviewer's role.                 *)
(*                                                                         *)
(* AgentGraph leaves each of these verdicts open; this module says how     *)
(* they come about and what they let through together.                     *)
(***************************************************************************)
EXTENDS ProviderFallback, FiniteSets

CONSTANTS
  Candidates,  \* the patches the models may propose: sets of file patches
  MaxRevisions \* MAX_REVISIONS

(***************************************************************************)
(* What the checks can tell of one file's patch: it is Python, its path is *)
(* safe, it applies to the file on disk (and parses, if Python), it        *)
(* carries a patch editor's wrapper, it deletes most of the original, its  *)
(* code is dangerous.                                                      *)
(*                                                                         *)
(* The scope check does not look at the disk first, but at the snapshot    *)
(* taken before the patch was written, to which the patch fits or not.  A  *)
(* patch that no node has written has none: the file on disk takes its     *)
(* place, and for a file that is to be created there is neither.           *)
(***************************************************************************)
FilePatch == [py : BOOLEAN, safe : BOOLEAN, applies : BOOLEAN, wrapper : BOOLEAN,
              shrinks : BOOLEAN, dangerous : BOOLEAN,
              before : {"snapshot", "disk", "none"}, fits : BOOLEAN]
ASSUME CandidatesAssumption == Candidates \subseteq SUBSET FilePatch
ASSUME RevisionsAssumption == MaxRevisions \in Nat

VARIABLES
  step,      \* the step the run is at, or how it ended
  request,   \* what the scope check reads in the user's request
  revisions,
  candidate, \* the file patches under review
  review,    \* the language model's QAResult: its status, a HIGH issue
  checks,    \* the status of each quality check
  diff,      \* what the staged diff shows
  decision,  \* the policy decision
  reviewer   \* the role that decided

judged == <<candidate, review, checks>>
gated == <<diff, decision, reviewer>>
vars == <<call, step, request, revisions, judged, gated>>

\* No text at all, an addition that asks for no rewrite, anything else.
Requests == {"empty", "additive", "other"}
CheckNames == {"ast", "scope", "security", "pytest", "lint", "typecheck"}
Unchecked == [n \in CheckNames |-> "none"]
Review == [status : {"PASS", "FAIL", "OTHER"}, high : BOOLEAN]
NoReview == [status |-> "OTHER", high |-> FALSE]
Diff == [noOp : BOOLEAN, sensitive : BOOLEAN, deletions : BOOLEAN, many : BOOLEAN]
NoDiff == [noOp |-> TRUE, sensitive |-> FALSE, deletions |-> FALSE, many |-> FALSE]
Roles == {"OWNER", "ADMIN", "SECURITY_REVIEWER", "REVIEWER", "ENGINEER", "VIEWER"}

TypeOK ==
  /\ CallTypeOK
  /\ step \in {"review", "ast", "scope", "security", "pytest", "lint", "typecheck",
               "judge", "prepare", "policy", "gate",
               "approved", "rejected", "cleanup", "failed"}
  /\ request \in Requests /\ revisions \in 0..MaxRevisions
  /\ candidate \in SUBSET FilePatch /\ review \in Review
  /\ checks \in [CheckNames -> {"none", "PASS", "FAIL", "SKIPPED"}]
  /\ diff \in Diff /\ decision \in {"none", "ALLOW", "REVIEW", "BLOCK"}
  /\ reviewer \in Roles \cup {"none"}

Init ==
  /\ Idle
  /\ step = "review" /\ request \in Requests /\ revisions = 0
  /\ candidate = {} /\ review = NoReview /\ checks = Unchecked
  /\ diff = NoDiff /\ decision = "none" /\ reviewer = "none"

-----------------------------------------------------------------------------
(* qa_node: the review, then QualityPipeline.run_all.                      *)

\* review_code_changes asks the language model before anything is checked.
Ask ==
  /\ step = "review" /\ CallStep
  /\ UNCHANGED <<step, request, revisions, judged, gated>>

\* developer_node, and the node it falls back to, write every file they propose,
\* take the snapshot, and refuse unsafe paths and wrappers before.
Written(f) == f.before = "snapshot" /\ f.safe /\ ~f.wrapper

\* The review has come, of a candidate that is looked at from now on; or the call
\* has failed, and the run with it.  The first candidate is the developer's; a
\* revision may propose files that nothing has been written to.
TakeReview ==
  /\ step = "review" /\ EndCall
  /\ \/ /\ at = "returned" /\ step' = "ast"
        /\ review' \in Review /\ candidate' \in Candidates
        /\ revisions = 0 => \A f \in candidate' : Written(f)
     \/ /\ at = "raised" /\ step' = "failed" /\ UNCHANGED <<review, candidate>>
  /\ UNCHANGED <<request, revisions, checks, gated>>

Check(name, status, next) ==
  /\ step = name /\ step' = next
  /\ checks' = [checks EXCEPT ![name] = status]
  /\ UNCHANGED <<call, request, revisions, candidate, review, gated>>
Verdict(failed) == IF failed THEN "FAIL" ELSE "PASS"

Applies(f) == f.safe /\ f.applies
CheckAst == Check("ast", Verdict(\E f \in candidate : ~Applies(f)), "scope")

\* The scope check passes over a patch that does not fit its snapshot, and over
\* one that has nothing to be applied to.
Compared(f) == \/ f.before = "snapshot" /\ f.fits
               \/ f.before = "disk" /\ Applies(f)

\* A wrapper is refused in any file but Python, a deletion of most of it only when
\* the request was to add.
OutOfScope(f) ==
  ~f.py /\ Compared(f) /\ (f.wrapper \/ (request = "additive" /\ f.shrinks))
\* Without a request to compare with, nothing is out of scope.
CheckScope ==
  Check("scope", Verdict(request # "empty" /\ \E f \in candidate : OutOfScope(f)),
        "security")

\* What the security check refuses is not executed: the other checks are skipped.
CheckSecurity ==
  /\ step = "security"
  /\ IF \E f \in candidate : f.dangerous
       THEN /\ step' = "judge"
            /\ checks' = [n \in CheckNames |->
                 IF n = "security" THEN "FAIL"
                 ELSE IF n \in {"pytest", "lint", "typecheck"} THEN "SKIPPED"
                 ELSE checks[n]]
       ELSE /\ step' = "pytest"
            /\ checks' = [checks EXCEPT !["security"] = "PASS"]
  /\ UNCHANGED <<call, request, revisions, candidate, review, gated>>

\* Tests pass, fail (a timeout, a cancellation and a sandbox that does not start
\* count as failures), or there are none.
CheckPytest ==
  \E s \in {"PASS", "FAIL", "SKIPPED"} : Check("pytest", s, "lint")

\* The tools look at Python files only, and need not be installed.
Toolable == candidate = {} \/ \E f \in candidate : f.py
Tool(name, next) ==
  \/ Check(name, "SKIPPED", next)
  \/ Toolable /\ \E s \in {"PASS", "FAIL"} : Check(name, s, next)
CheckLint == Tool("lint", "typecheck")
CheckTypecheck == Tool("typecheck", "judge")

-----------------------------------------------------------------------------
(* StructuredQAJudge.evaluate and the edge it decides.                     *)

\* Any failed check decides before the review does; skipped checks do not count.
\* Mutant: the scope check is not a rule of the judge.
PassesUnscoped ==
  /\ \A n \in CheckNames \ {"scope"} : checks[n] # "FAIL"
  /\ review.status # "FAIL" /\ ~review.high
Passes ==
  /\ \A n \in CheckNames : checks[n] # "FAIL"
  /\ review.status # "FAIL" /\ ~review.high

\* The revision proposes another candidate and qa starts anew.
Judge ==
  /\ step = "judge"
  /\ IF Passes
       THEN step' = "prepare" /\ UNCHANGED <<revisions, judged>>
       ELSE /\ candidate' = {} /\ review' = NoReview /\ checks' = Unchecked
            /\ IF revisions < MaxRevisions
                 THEN step' = "review" /\ revisions' = revisions + 1
                 ELSE step' = "failed" /\ UNCHANGED revisions
  /\ UNCHANGED <<call, request, gated>>

-----------------------------------------------------------------------------
(* The staged diff, its risk, and PolicyEvaluator.evaluate.                *)

Prepare ==
  /\ step = "prepare" /\ step' = "policy"
  /\ diff' \in Diff
  /\ candidate = {} => diff'.noOp
  /\ UNCHANGED <<call, request, revisions, judged, decision, reviewer>>

\* GitWorkspaceManager.evaluate_risk.
Risk == IF diff.sensitive \/ diff.deletions THEN "HIGH"
        ELSE IF diff.many THEN "MEDIUM" ELSE "LOW"

\* The rules a diff can break: repository, branch, paths and permissions, limits.
\* Required checks that failed never get here.
Rules == {"repository", "branch", "paths", "limits"}
\* What a PolicyConfig may make of each risk: any configuration, though the runs of
\* this build are all evaluated under the default one.
Thresholds == [{"LOW", "MEDIUM", "HIGH"} -> {"ALLOW", "REVIEW", "BLOCK"}]
Decide(broken, threshold) ==
  IF broken # {} \/ threshold[Risk] = "BLOCK" THEN "BLOCK"
  ELSE IF threshold[Risk] = "REVIEW" \/ Risk # "LOW" THEN "REVIEW" ELSE "ALLOW"

\* policy_node, and route_after_policy.
Policy ==
  /\ step = "policy"
  /\ \E broken \in SUBSET Rules, threshold \in Thresholds :
       decision' = Decide(broken, threshold)
  /\ step' = IF diff.noOp \/ decision' = "BLOCK" THEN "cleanup" ELSE "gate"
  /\ UNCHANGED <<call, request, revisions, judged, diff, reviewer>>

-----------------------------------------------------------------------------
(* The resume endpoint and approval_node.                                  *)

Permissions ==
  [r \in Roles |->
     CASE r \in {"OWNER", "ADMIN", "SECURITY_REVIEWER"} ->
            {"RUN_APPROVE", "SECURITY_APPROVE"}
       [] r = "REVIEWER" -> {"RUN_APPROVE"}
       [] OTHER -> {}]

\* The number the diff's risk stands for.
\* Mutant: HIGH stands for less than the threshold.
RiskScoreLow == CASE Risk = "HIGH" -> 60 [] Risk = "MEDIUM" -> 50 [] OTHER -> 20
RiskScore == CASE Risk = "HIGH" -> 80 [] Risk = "MEDIUM" -> 50 [] OTHER -> 20
CanApproveChanges(role) ==
  /\ "RUN_APPROVE" \in Permissions[role]
  /\ RiskScore >= 70 => "SECURITY_APPROVE" \in Permissions[role]

\* A decision is heard only from a role that could approve the diff, even when it
\* is to reject; the node then compares the hashes.
Resume(role, approved, sameHash) ==
  /\ step = "gate" /\ CanApproveChanges(role)
  /\ step' = IF approved /\ sameHash THEN "approved" ELSE "rejected"
  /\ reviewer' = role
  /\ UNCHANGED <<call, request, revisions, judged, diff, decision>>

Next ==
  \/ Ask \/ TakeReview
  \/ CheckAst \/ CheckScope \/ CheckSecurity \/ CheckPytest
  \/ CheckLint \/ CheckTypecheck \/ Judge
  \/ Prepare \/ Policy
  \/ \E role \in Roles, approved, sameHash \in BOOLEAN :
       Resume(role, approved, sameHash)

Spec == Init /\ [][Next]_vars

-----------------------------------------------------------------------------
(* Properties.                                                             *)

\* What a reviewer's approval lets through to the commit: every file of the
\* candidate applies and none is dangerous; a patch editor's wrapper gets there
\* only by a revision, and then only in Python, for an empty request, or in a file
\* the scope check had nothing to apply it to; an addition deletes most of a file
\* only where that check passed over it as well; no check failed, the model's
\* review found nothing of weight, the diff is not empty and the policy did not
\* block it.
ApprovedIsVetted ==
  step = "approved" =>
    /\ \A f \in candidate :
         /\ Applies(f) /\ ~f.dangerous
         /\ f.wrapper => /\ revisions > 0
                         /\ f.py \/ request = "empty" \/ ~Compared(f)
         /\ request = "additive" /\ f.shrinks => f.py \/ ~Compared(f)
    /\ \A n \in CheckNames : checks[n] \notin {"none", "FAIL"}
    /\ review.status # "FAIL" /\ ~review.high
    /\ ~diff.noOp /\ decision \in {"ALLOW", "REVIEW"}

\* A diff that touches sensitive files or mostly deletes is approved, and even
\* rejected, only by a role that may approve security changes: the heuristic's
\* word, the endpoint's number and the threshold of the roles agree on that.
SensitiveNeedsSecurity ==
  reviewer # "none" /\ (diff.sensitive \/ diff.deletions) =>
    "SECURITY_APPROVE" \in Permissions[reviewer]

-----------------------------------------------------------------------------
(* What the repository says and the code does not keep.                    *)

\* "Unconditional": a wrapper "is never legitimate file content for ANY request",
\* not in what a revision proposes and never writes either (qa/pipeline.py:227):
\* whatever the user asked for, no file outside of Python is approved with one.
WrappersAreRefused ==
  step = "approved" /\ request # "empty" => \A f \in candidate : f.wrapper => f.py
=============================================================================
