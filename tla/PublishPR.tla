----------------------------- MODULE PublishPR -----------------------------
(***************************************************************************)
(* The publish-pr endpoint: clients that ask for a pull request of one run *)
(* and ask again when they are refused or get no answer, while the run is  *)
(* still finishing, answers of GitHub get lost, people open and close pull *)
(* requests by hand, and the process crashes.                              *)
(*                                                                         *)
(* A run commits to a branch of its own (generate_branch_name), so all     *)
(* pull requests here have that branch as their head; they are numbered in *)
(* the order GitHub opens them.                                            *)
(***************************************************************************)
EXTENDS Integers, Sequences, FiniteSetsExt

CONSTANTS
  Clients,      \* the clients that publish
  Repos, Bases, \* repositories, and the branches a pull request may go to
  Requests,     \* what the clients may ask for: repository and base of each
  Origin,       \* the repository the workspace pushes to
  Authorized,   \* the repositories registered and authorized for the tenant
  Declared,     \* what the run was declared against: a repository or NoRepo
  NoRepo,
  MaxPRs,       \* bound: people open none once there are so many
  MaxFaults     \* bound on lost answers, errors of GitHub, git and SQLite,
                \* and crashes

ASSUME RepoAssumption ==
  /\ Origin \in Repos /\ Authorized \subseteq Repos
  /\ Requests \subseteq [Clients -> [repo : Repos, base : Bases]]
  /\ NoRepo \notin Repos /\ Declared \in Repos \cup {NoRepo}
ASSUME BoundsAssumption == MaxPRs \in Nat /\ MaxFaults \in Nat

VARIABLES
  phase,   \* where the resumed run is: executing, ended, reading its row, done
  result,  \* its final approval_status
  row,     \* its row: status and the number of its pull request, 0 for none
  hook,    \* the row as on_run_completed read it
  pushed,  \* the branch is on Origin
  prs,     \* the pull requests on GitHub
  pc, ask, found, copy, reply,  \* each client's request
  faulted, \* the clients whose current request met a fault of its own
  began,   \* how many pull requests there were when it began
  faults

run == <<phase, result, hook>>
requests == <<pc, ask, found, copy, reply>>
history == <<faulted, began>>
vars == <<run, row, pushed, prs, requests, history, faults>>

-----------------------------------------------------------------------------
Asks == [repo : Repos, base : Bases]
PR == [repo : Repos, base : Bases, open : BOOLEAN]
Row == [status : {"WAITING_APPROVAL", "CANCELLED", "COMPLETED", "FAILED"},
        pr : Nat]
NewRow == [status |-> "WAITING_APPROVAL", pr |-> 0]
Success == {"already_published", "published"}
NoReply == [kind |-> "none", pr |-> 0]
Reply == [kind : {"none", "refused", "failed"} \cup Success, pr : Nat]

TypeOK ==
  /\ phase \in {"executing", "ended", "recording", "done"}
  /\ result \in {"PENDING", "COMMITTED", "REJECTED", "COMMIT_FAILED"}
  /\ row \in Row /\ hook \in Row /\ pushed \in BOOLEAN
  /\ prs \in Seq(PR)
  /\ pc \in [Clients -> {"idle", "row", "find", "push", "create",
                         "recover", "read", "record"}]
  /\ ask \in [Clients -> Asks] /\ copy \in [Clients -> Row]
  /\ found \in [Clients -> Nat] /\ reply \in [Clients -> Reply]
  /\ faulted \subseteq Clients /\ began \in [Clients -> Nat]
  /\ faults \in 0..MaxFaults

Init ==
  /\ phase = "executing" /\ result = "PENDING"
  /\ row = NewRow /\ hook = NewRow
  /\ pushed = FALSE /\ prs = <<>>
  /\ pc = [c \in Clients |-> "idle"] /\ ask \in Requests
  /\ copy = [c \in Clients |-> NewRow] /\ found = [c \in Clients |-> 0]
  /\ reply = [c \in Clients |-> NoReply]
  /\ faulted = {} /\ began = [c \in Clients |-> 0] /\ faults = 0

\* The pull requests that match a query by head and base.
Matching(a) == {n \in DOMAIN prs : prs[n].repo = a.repo /\ prs[n].base = a.base}

\* find_pull_request, state "all": the newest match, or 0.
Find(a) == Max(Matching(a) \cup {0})

\* The upsert keeps the number the row has when the copy has none.
\* Mutant: the copy's columns win.
MergeOverwriting(new, old) == new
Merge(new, old) ==
  [status |-> new.status, pr |-> IF new.pr = 0 THEN old.pr ELSE new.pr]

\* A request goes on, with what it found and its copy of the row; or it ends.
Step(c, p, n, r) ==
  /\ pc' = [pc EXCEPT ![c] = p]
  /\ found' = [found EXCEPT ![c] = n] /\ copy' = [copy EXCEPT ![c] = r]
  /\ UNCHANGED <<reply, began>>
Goto(c, p) == Step(c, p, found[c], copy[c])
Answer(c, k, n) ==
  /\ pc' = [pc EXCEPT ![c] = "idle"]
  /\ found' = [found EXCEPT ![c] = 0] /\ copy' = [copy EXCEPT ![c] = NewRow]
  /\ began' = [began EXCEPT ![c] = 0]
  /\ reply' = [reply EXCEPT ![c] = [kind |-> k, pr |-> n]]
Fault(c) == faults < MaxFaults /\ faults' = faults + 1 /\ faulted' = faulted \cup {c}
NoFault == UNCHANGED <<faults, faulted>>

-----------------------------------------------------------------------------
(* The run: its thread reaches END and leaves _active_runs, and its outcome *)
(* hook reads the row and upserts it later.                                *)

EndRun ==
  /\ phase = "executing"
  /\ phase' = "ended"
  /\ result' \in {"COMMITTED", "REJECTED", "COMMIT_FAILED"}
  /\ UNCHANGED <<row, hook, pushed, prs, requests, history, faults>>

ReadOutcomeRow ==
  /\ phase = "ended"
  /\ phase' = "recording"
  /\ hook' = [row EXCEPT !.status =
                IF result = "COMMIT_FAILED" THEN "FAILED" ELSE "COMPLETED"]
  /\ UNCHANGED <<result, row, pushed, prs, requests, history, faults>>

WriteOutcomeRow ==
  /\ phase = "recording"
  /\ phase' = "done"
  /\ row' = Merge(hook, row) /\ hook' = NewRow
  /\ UNCHANGED <<result, pushed, prs, requests, history, faults>>

\* request_cancellation, while the row still says WAITING_APPROVAL.
Cancel ==
  /\ row.status = "WAITING_APPROVAL"
  /\ row' = [row EXCEPT !.status = "CANCELLED"]
  /\ UNCHANGED <<run, pushed, prs, requests, history, faults>>

-----------------------------------------------------------------------------
(* A request.                                                              *)

\* get_status and get_state_values, and the guards on them.  A client that has
\* no success yet asks, and asks again.
\* Mutant: the status is the row's, not the checkpoint's.
BeginFromRow(c) ==
  /\ pc[c] = "idle" /\ reply[c].kind \notin Success
  /\ faulted' = faulted \ {c}
  /\ IF row.status = "COMPLETED" /\ phase # "executing" /\ result = "COMMITTED"
       THEN /\ pc' = [pc EXCEPT ![c] = "row"]
            /\ began' = [began EXCEPT ![c] = Len(prs)]
            /\ reply' = [reply EXCEPT ![c] = NoReply]
            /\ UNCHANGED <<found, copy>>
       ELSE Answer(c, "refused", 0)
  /\ UNCHANGED <<run, row, pushed, prs, ask, faults>>
Begin(c) ==
  /\ pc[c] = "idle" /\ reply[c].kind \notin Success
  /\ faulted' = faulted \ {c}
  /\ IF row.status # "CANCELLED" /\ phase # "executing" /\ result = "COMMITTED"
       THEN /\ pc' = [pc EXCEPT ![c] = "row"]
            /\ began' = [began EXCEPT ![c] = Len(prs)]
            /\ reply' = [reply EXCEPT ![c] = NoReply]
            /\ UNCHANGED <<found, copy>>
       ELSE Answer(c, "refused", 0)
  /\ UNCHANGED <<run, row, pushed, prs, ask, faults>>

\* is_cancelled, then the replay from the row, then authorization.
CheckRow(c) ==
  /\ pc[c] = "row"
  /\ \/ /\ row.status = "CANCELLED"
        /\ Answer(c, "refused", 0)
     \/ /\ row.status # "CANCELLED" /\ row.pr # 0
        /\ Answer(c, "already_published", row.pr)
     \/ /\ row.status # "CANCELLED" /\ row.pr = 0
        /\ IF ask[c].repo \in Authorized THEN Goto(c, "find")
                                         ELSE Answer(c, "refused", 0)
  /\ UNCHANGED <<run, row, pushed, prs, ask>> /\ NoFault

\* PR_PUBLISH_REPOSITORY_MISMATCH, for a run that was declared with a repository,
\* is decided only once no pull request was found.
NothingFound(c) ==
  IF Declared \in {NoRepo, ask[c].repo} THEN Goto(c, "push")
                                         ELSE Answer(c, "refused", 0)

\* The lookup before the creation.  One that fails counts as "none".
\* Mutant: there is no lookup before the creation.
LookUpNever(c) ==
  /\ pc[c] = "find" /\ NoFault /\ NothingFound(c)
  /\ UNCHANGED <<run, row, pushed, prs, ask>>
LookUp(c) ==
  /\ pc[c] = "find"
  /\ \/ /\ Find(ask[c]) # 0 /\ NoFault
        /\ Step(c, "read", Find(ask[c]), copy[c])
     \/ /\ Find(ask[c]) = 0 /\ NoFault
        /\ NothingFound(c)
     \/ Fault(c) /\ NothingFound(c)
  /\ UNCHANGED <<run, row, pushed, prs, ask>>

\* push_branch goes to the workspace's origin, whatever repository was asked for.
Push(c) ==
  /\ pc[c] = "push"
  /\ \/ pushed' = TRUE /\ Goto(c, "create") /\ NoFault
     \/ Fault(c) /\ Answer(c, "failed", 0) /\ pushed' \in {pushed, TRUE}
  /\ UNCHANGED <<run, row, prs, ask>>

\* GitHub opens a pull request unless the head is unknown there or an open one
\* with the same head and base exists.
Acceptable(a) ==
  a.repo = Origin /\ pushed /\ \A n \in Matching(a) : ~prs[n].open

\* create_pull_request.  Whether GitHub opens it or not, the answer may be lost:
\* an error of GitHub or a malformed answer is looked into, a transport error
\* or a refusal of the credentials ends the request.
\* Mutant: a 422 ends the request, too.
CreateGivingUp(c) ==
  LET opened == Append(prs, [repo |-> ask[c].repo, base |-> ask[c].base,
                             open |-> TRUE])
  IN /\ pc[c] = "create"
     /\ \/ /\ Acceptable(ask[c])
           /\ prs' = opened
           /\ Step(c, "read", Len(opened), copy[c]) /\ NoFault
        \/ /\ ~Acceptable(ask[c])
           /\ Answer(c, "failed", 0) /\ NoFault /\ UNCHANGED prs
        \/ /\ Fault(c)
           /\ \/ UNCHANGED prs
              \/ Acceptable(ask[c]) /\ prs' = opened
           /\ \/ Goto(c, "recover")
              \/ Answer(c, "failed", 0)
     /\ UNCHANGED <<run, row, pushed, ask>>
Create(c) ==
  LET opened == Append(prs, [repo |-> ask[c].repo, base |-> ask[c].base,
                             open |-> TRUE])
  IN /\ pc[c] = "create"
     /\ \/ /\ Acceptable(ask[c])
           /\ prs' = opened
           /\ Step(c, "read", Len(opened), copy[c]) /\ NoFault
        \/ /\ ~Acceptable(ask[c])
           /\ Goto(c, "recover") /\ NoFault /\ UNCHANGED prs
        \/ /\ Fault(c)
           /\ \/ UNCHANGED prs
              \/ Acceptable(ask[c]) /\ prs' = opened
           /\ \/ Goto(c, "recover")
              \/ Answer(c, "failed", 0)
     /\ UNCHANGED <<run, row, pushed, ask>>

\* The lookup after a creation that failed.
Recover(c) ==
  /\ pc[c] = "recover"
  /\ \/ /\ NoFault
        /\ IF Find(ask[c]) = 0 THEN Answer(c, "failed", 0)
                               ELSE Step(c, "read", Find(ask[c]), copy[c])
     \/ Fault(c) /\ Answer(c, "failed", 0)
  /\ UNCHANGED <<run, row, pushed, prs, ask>>

\* on_pr_published reads the row and upserts its copy later; what fails in it is
\* swallowed.
ReadRow(c) ==
  /\ pc[c] = "read"
  /\ Step(c, "record", found[c], [status |-> row.status, pr |-> found[c]])
  /\ UNCHANGED <<run, row, pushed, prs, ask>> /\ NoFault

\* "published" stands for the answers PUBLISHED and reconciled.
Record(c) ==
  /\ pc[c] = "record"
  /\ \/ row' = Merge(copy[c], row) /\ NoFault
     \/ Fault(c) /\ UNCHANGED row
  /\ Answer(c, "published", found[c])
  /\ UNCHANGED <<run, pushed, prs, ask>>

-----------------------------------------------------------------------------
(* The world.                                                              *)

HumanOpens ==
  \E b \in Bases :
    /\ Acceptable([repo |-> Origin, base |-> b]) /\ Len(prs) < MaxPRs
    /\ prs' = Append(prs, [repo |-> Origin, base |-> b, open |-> TRUE])
    /\ UNCHANGED <<run, row, pushed, requests, history, faults>>

HumanCloses ==
  \E n \in DOMAIN prs :
    /\ prs[n].open
    /\ prs' = [prs EXCEPT ![n].open = FALSE]
    /\ UNCHANGED <<run, row, pushed, requests, history, faults>>

\* A crash ends every request without an answer, and the outcome hook.
Crash ==
  /\ faults < MaxFaults /\ faults' = faults + 1
  /\ phase' = IF phase \in {"ended", "recording"} THEN "done" ELSE phase
  /\ hook' = NewRow
  /\ pc' = [c \in Clients |-> "idle"]
  /\ reply' = [c \in Clients |->
       IF pc[c] = "idle" THEN reply[c] ELSE [kind |-> "failed", pr |-> 0]]
  /\ faulted' = faulted \cup {c \in Clients : pc[c] # "idle"}
  /\ found' = [c \in Clients |-> 0] /\ copy' = [c \in Clients |-> NewRow]
  /\ began' = [c \in Clients |-> 0]
  /\ UNCHANGED <<result, row, pushed, prs, ask>>

Request(c) ==
  \/ CheckRow(c) \/ LookUp(c) \/ Push(c) \/ Create(c)
  \/ Recover(c) \/ ReadRow(c) \/ Record(c)

Next ==
  \/ EndRun \/ ReadOutcomeRow \/ WriteOutcomeRow \/ Cancel
  \/ \E c \in Clients : Begin(c) \/ Request(c)
  \/ HumanOpens \/ HumanCloses \/ Crash

\* Requests go on once they are sent, and clients without a success ask again.
Fairness == \A c \in Clients : WF_vars(Begin(c)) /\ WF_vars(Request(c))

Spec == Init /\ [][Next]_vars /\ Fairness

-----------------------------------------------------------------------------
(* Properties.                                                             *)

\* A request none of whose own calls failed does not fail, however it was
\* overtaken: one that loses the race to open the pull request, to another
\* request or to a person, answers with the winner's.
FaultlessSucceeds ==
  \A c \in Clients :
    reply[c].kind = "failed" => c \in faulted \/ ask[c].repo # Origin

\* Every success names a pull request that exists; one that says published names
\* one in the repository and on the base it was asked for, and unless recording
\* it failed the row keeps a number from then on, whatever the run's own outcome
\* hook and the other requests write over it.
RecordedAnswers ==
  \A c \in Clients : reply[c].kind \in Success =>
    /\ reply[c].pr \in DOMAIN prs
    /\ reply[c].kind = "published" => reply[c].pr \in Matching(ask[c])
    /\ c \in faulted \/ row.pr # 0

\* A request opens a pull request only if it found no earlier one to answer with:
\* when none of its calls before failed, no pull request from the branch to that
\* base existed as it began, not even one that people had closed since.
RetriesOpenNothing ==
  [][\A c \in Clients : pc[c] = "create" /\ Len(prs') > Len(prs) /\ pc'[c] # pc[c] =>
       c \in faulted \/ \A n \in Matching(ask[c]) : n > began[c]]_vars

\* A client that asks again until it succeeds does succeed once the run has
\* committed, whatever answers and hooks were lost before, unless it is cancelled.
RetrySucceeds ==
  \A c \in Clients :
    result = "COMMITTED" /\ ask[c].repo = Origin
      ~> reply[c].kind \in Success \/ row.status = "CANCELLED"
=============================================================================
