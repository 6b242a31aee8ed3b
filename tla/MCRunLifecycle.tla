--------------------------- MODULE MCRunLifecycle ---------------------------
EXTENDS RunLifecycle, TLC

\* A code change without planning or retrieval, the shortest walk that meets
\* every node that decides something.
CodeRouting == {[type |-> "CODE", planning |-> FALSE, knowledge |-> FALSE]}

Approve == [approved |-> TRUE, hash |-> "same", role |-> TRUE]
Reject == [approved |-> FALSE, hash |-> "same", role |-> TRUE]
WrongHash == [approved |-> TRUE, hash |-> "other", role |-> TRUE]

OnlyApprove == {Approve}
ApproveOrReject == {Approve, Reject}
AllKinds == {Approve, Reject, WrongHash}

\* Reviewers are interchangeable; used only without liveness properties.
ReviewerSymmetry == Permutations(Reviewers)
=============================================================================
