--------------------------- MODULE SharedWorkspace ---------------------------
(***************************************************************************)
(* The git workspace of one project, used by its runs one after another:   *)
(* the developer, qa, revision, git_prepare, policy, approval, git_commit  *)
(* and cleanup nodes, with what each does to the branches, to HEAD and to  *)
(* the working tree.  AgentGraph keeps one bit of this (dirty); here the   *)
(* contents are kept, so that one can ask what a commit contains.          *)
(*                                                                         *)
(* The workspace lock is taken for granted (WorkspaceLock): one run        *)
(* executes at a time, and none holds it while its diff waits for review.  *)
(* A file's content is the set of its lines; {} is an absent file, and no  *)
(* patch deletes one.                                                      *)
(***************************************************************************)
EXTENDS Integers

CONSTANTS
  Runs, Files, Lines,
  Base,          \* what main holds: the content of each file
  Patches,       \* the patches a language model may propose
  NoAnchor,      \* the empty original_code_snippet: replace the whole file
  MaxRevisions   \* MAX_REVISIONS (3 in the code)

Content == SUBSET Lines
Tree == [Files -> Content]
Patch == [file : Files, old : Lines \cup {NoAnchor}, new : Content \ {{}}]

ASSUME BaseAssumption == Base \in Tree
ASSUME PatchesAssumption == Patches \subseteq Patch
ASSUME NoAnchorAssumption == NoAnchor \notin Lines
ASSUME MaxRevisionsAssumption == MaxRevisions \in Nat \ {0}
ASSUME RunsAssumption == "main" \notin Runs /\ "free" \notin Runs

VARIABLES
  tip,      \* branch -> the tree of its newest commit
  head,     \* the branch that is checked out
  index,    \* what is staged
  tree,     \* the working tree
  lock,     \* the run that executes, or "free"
  pc,       \* the node each run stands at
  st,       \* what each run's AgentState holds
  outcome,  \* approval_status at the end, or "FAILED"
  alone     \* history: runs that found a clean tree and met no other run since

git == <<tip, head, index, tree>>
vars == <<tip, head, index, tree, lock, pc, st, outcome, alone>>

-----------------------------------------------------------------------------
(* Patches (developer/patcher.py).                                         *)

Applicable(p, c) == p.old = NoAnchor \/ p.old \in c
Applied(p, c) == IF p.old = NoAnchor THEN p.new ELSE (c \ {p.old}) \cup p.new

FilesOf(B) == {p.file : p \in B}
\* generated_patches: at most one patch per file.
Batches ==
  {B \in SUBSET Patches : \A p, q \in B : p.file = q.file => p = q}
WholeFile(B) == \A p \in B : p.old = NoAnchor
PatchOf(B, f) == CHOOSE p \in B : p.file = f
\* Mutant: the anchor is not looked for, only the file.
AllApplicableToFile(B) ==
  \A p \in B : p.old = NoAnchor \/ tree[p.file] # {}
AllApplicable(B) == \A p \in B : Applicable(p, tree[p.file])

\* The working tree once batch B has been written to it.
Written(B) ==
  [f \in Files |-> IF f \in FilesOf(B) THEN Applied(PatchOf(B, f), tree[f])
                                       ELSE tree[f]]

-----------------------------------------------------------------------------
(* AgentState: the patches, the revision count and git_diff; tested is the *)
(* tree on which QA passed.                                                *)

Partial(S, T) == UNION {[D -> T] : D \in SUBSET S}
Empty == [f \in {} |-> {}]
State == [patches : Batches, revisions : 0..MaxRevisions, tested : Tree,
          diff : Partial(Files, Content \X Content)]
NewState ==
  [patches |-> {}, revisions |-> 0, tested |-> Base, diff |-> Empty]

\* The unified diff of a set of (before, after) pairs, which the hash digests.
Changed(d) == {f \in DOMAIN d : d[f][1] # d[f][2]}
Text(d) == [f \in Changed(d) |-> d[f]]
IsNoOp(d) == Changed(d) = {}

Executing == {"developer", "revision", "qa", "git_prepare", "policy",
              "git_commit", "stage", "cleanup"}
Outcomes == {"None", "FAILED", "PATCH_HASH_MISMATCH", "COMMITTED",
             "COMMIT_FAILED", "CLEANED"}

TypeOK ==
  /\ DOMAIN tip \subseteq Runs \cup {"main"} /\ "main" \in DOMAIN tip
  /\ \A b \in DOMAIN tip : tip[b] \in Tree
  /\ head \in DOMAIN tip /\ index \in Tree /\ tree \in Tree
  /\ lock \in Runs \cup {"free"}
  /\ pc \in [Runs -> Executing \cup {"new", "waiting", "ended"}]
  /\ \A r \in Runs : pc[r] \in Executing <=> lock = r
  /\ st \in [Runs -> State]
  /\ outcome \in [Runs -> Outcomes] /\ alone \subseteq Runs

Init ==
  /\ tip = [b \in {"main"} |-> Base] /\ head = "main" /\ index = Base /\ tree = Base
  /\ lock = "free"
  /\ pc = [r \in Runs |-> "new"]
  /\ st = [r \in Runs |-> NewState]
  /\ outcome = [r \in Runs |-> "None"]
  /\ alone = {}

-----------------------------------------------------------------------------
Goto(r, n) == pc' = [pc EXCEPT ![r] = n] /\ UNCHANGED <<lock, outcome, alone>>

\* Run r takes the lock, so every other run has company now.
Enter(r, n) ==
  /\ lock = "free"
  /\ lock' = r
  /\ pc' = [pc EXCEPT ![r] = n]
  /\ UNCHANGED outcome

Pause(r) ==
  /\ lock' = "free"
  /\ pc' = [pc EXCEPT ![r] = "waiting"]
  /\ UNCHANGED <<outcome, alone>>

End(r, o) ==
  /\ pc' = [pc EXCEPT ![r] = "ended"]
  /\ outcome' = [outcome EXCEPT ![r] = o]
  /\ lock' = IF lock = r THEN "free" ELSE lock
  /\ UNCHANGED alone

\* start_run on a workspace that has been cloned already: nothing is reset.
Start(r) ==
  /\ pc[r] = "new"
  /\ Enter(r, "developer")
  /\ alone' = IF index = tip[head] /\ tree = tip[head] THEN {r} ELSE {}
  /\ UNCHANGED <<git, st>>

\* A node raises, the run is cancelled, or its lock times out.  Nothing on disk
\* is undone.
Fail(r) ==
  /\ pc[r] \notin {"new", "ended", "stage"}
  /\ End(r, "FAILED")
  /\ UNCHANGED <<git, st>>

-----------------------------------------------------------------------------
(* developer, qa and revision.                                             *)

\* Batch B is written to disk, and patches become generated_patches.
WriteToDisk(r, B, patches, n) ==
  /\ tree' = Written(B)
  /\ st' = [st EXCEPT ![r].patches = patches, ![r].revisions = n]
  /\ UNCHANGED <<tip, head, index>>

Develop(r) ==
  /\ pc[r] = "developer"
  /\ \E B \in Batches : AllApplicable(B) /\ WriteToDisk(r, B, B, 0)
  /\ Goto(r, "qa")

\* Patch p is refused, because its anchor is not there or because it holds the
\* wrapper of a patch tool; the patches before it stay written.  A Python file
\* without the anchor fails the run, everything else goes to revision.
DevelopRefused(r) ==
  /\ pc[r] = "developer"
  /\ \E B \in Batches, p \in Patches :
       /\ p.file \notin FilesOf(B) /\ AllApplicable(B)
       /\ WriteToDisk(r, B, {}, 0)
       /\ \/ Goto(r, "revision")
          \/ ~Applicable(p, tree[p.file]) /\ End(r, "FAILED")

\* check_ast applies the patches to the files as they are on disk; the tests
\* run on a copy of the disk.  A failed check fails the verdict.
Qa(r) ==
  /\ pc[r] = "qa"
  /\ \/ /\ AllApplicable(st[r].patches)
        /\ st' = [st EXCEPT ![r].tested = tree]
        /\ Goto(r, "git_prepare")
     \/ /\ st[r].revisions < MaxRevisions
        /\ Goto(r, "revision") /\ UNCHANGED st
     \/ /\ st[r].revisions = MaxRevisions
        /\ End(r, "FAILED") /\ UNCHANGED st
  /\ UNCHANGED git

\* generate_revision_patches validates its patches and writes none of them.
ReviseUnwritten(r) ==
  /\ pc[r] = "revision"
  /\ \E B \in Batches \ {{}} :
       /\ AllApplicable(B)
       /\ st' = [st EXCEPT ![r].patches = B, ![r].revisions = @ + 1]
  /\ Goto(r, "qa")
  /\ UNCHANGED git

\* The blind revision writes whole files.  When one of them turns out to hold a
\* patch tool's wrapper, the patches stay the previous ones.
ReviseWritten(r) ==
  /\ pc[r] = "revision"
  /\ \E B \in Batches :
       /\ WholeFile(B)
       /\ \E p \in {B, st[r].patches} :
            WriteToDisk(r, B, p, st[r].revisions + 1)
  /\ Goto(r, "qa")

-----------------------------------------------------------------------------
(* git_prepare: a branch from whatever is checked out, then apply_patches, *)
(* which trusts a working tree that differs from HEAD.                     *)

OnHead(f) == tip[head][f]

\* The content a diff of f starts from: a snippet patch of a file that is not
\* in HEAD is compared with the working tree.
DiffBase(p) ==
  IF p.old = NoAnchor /\ tree[p.file] # {} THEN OnHead(p.file)
  ELSE IF OnHead(p.file) = {} THEN tree[p.file]
  ELSE OnHead(p.file)

Trusted(p) ==
  /\ tree[p.file] # {}
  /\ p.old = NoAnchor \/ tree[p.file] # DiffBase(p)

\* Mutant: what the developer wrote is overwritten from HEAD.
PreparedAnew(p) == Applied(p, DiffBase(p))
Preparable(p) == Trusted(p) \/ Applicable(p, DiffBase(p))
Prepared(p) == IF Trusted(p) THEN tree[p.file] ELSE Applied(p, DiffBase(p))

\* The pairs of apply_patches.
DiffOf(B) ==
  [f \in FilesOf(B) |->
     <<DiffBase(PatchOf(B, f)), Prepared(PatchOf(B, f))>>]
PreparedTree(B) ==
  [f \in Files |-> IF f \in FilesOf(B) THEN Prepared(PatchOf(B, f))
                                       ELSE tree[f]]

GitPrepareNothing(r) ==
  /\ pc[r] = "git_prepare" /\ st[r].patches = {}
  /\ st' = [st EXCEPT ![r].diff = Empty]
  /\ Goto(r, "policy")
  /\ UNCHANGED git

\* create_feature_branch: the name is new, so "checkout -b" succeeds and takes
\* the uncommitted changes along.
Branch(r) ==
  /\ tip' = [b \in DOMAIN tip \cup {r} |->
               IF b = r THEN tip[head] ELSE tip[b]]
  /\ head' = r /\ index' = index

GitPrepare(r) ==
  /\ pc[r] = "git_prepare" /\ st[r].patches # {}
  /\ \A p \in st[r].patches : Preparable(p)
  /\ Branch(r)
  /\ tree' = PreparedTree(st[r].patches)
  /\ st' = [st EXCEPT ![r].diff = DiffOf(st[r].patches)]
  /\ Goto(r, "policy")

\* apply_patches raises, before all patches are written; the diff is empty.
GitPrepareFails(r) ==
  /\ pc[r] = "git_prepare"
  /\ \E B \in SUBSET st[r].patches :
       /\ B # st[r].patches
       /\ \A p \in B : Preparable(p)
       /\ tree' = PreparedTree(B)
  /\ Branch(r)
  /\ st' = [st EXCEPT ![r].diff = Empty]
  /\ Goto(r, "policy")

-----------------------------------------------------------------------------
(* policy, approval, git_commit and cleanup.                               *)

PolicyPermits(r) ==
  /\ pc[r] = "policy" /\ ~IsNoOp(st[r].diff)
  /\ Pause(r)
  /\ UNCHANGED <<git, st>>

\* route_after_policy: a no-op diff, and one the policy blocks, is cleaned up.
PolicyRefuses(r) ==
  /\ pc[r] = "policy"
  /\ Goto(r, "cleanup")
  /\ UNCHANGED <<git, st>>

Resume(r, n) ==
  /\ pc[r] = "waiting"
  /\ Enter(r, n)
  /\ alone' = alone \cap {r}
  /\ UNCHANGED <<git, st>>

\* verify_workspace_drift looks at the files of the diff, and only if one of
\* them is in HEAD.
HasBaseline(r) == \E f \in DOMAIN st[r].diff : OnHead(f) # {}
\* Mutant: the working tree is compared with main.
DiffOnDiskFromMain(r) ==
  [f \in DOMAIN st[r].diff |-> <<tip["main"][f], tree[f]>>]
DiffOnDisk(r) == [f \in DOMAIN st[r].diff |-> <<OnHead(f), tree[f]>>]
\* Mutant: the hash is not recomputed.
NoDriftUnchecked(r) == TRUE
NoDrift(r) == HasBaseline(r) => Text(DiffOnDisk(r)) = Text(st[r].diff)

VerifyDrift(r) ==
  /\ pc[r] = "git_commit"
  /\ IF NoDrift(r) THEN Goto(r, "stage") ELSE End(r, "PATCH_HASH_MISMATCH")
  /\ UNCHANGED <<git, st>>

\* git checkout b refuses to overwrite an uncommitted change of a file that b
\* has otherwise, unless b has it as it is staged; it carries the changes along.
Staged(f) == index[f] # OnHead(f)
Uncommitted(f) == tree[f] # OnHead(f) \/ Staged(f)
MaySwitch(b) ==
  b = head \/ \A f \in Files : Uncommitted(f) =>
                tip[b][f] = OnHead(f) \/ (Staged(f) /\ tip[b][f] = index[f])
TreeOn(b) == [f \in Files |-> IF Uncommitted(f) THEN tree[f] ELSE tip[b][f]]
IndexOn(b) == [f \in Files |-> IF Staged(f) THEN index[f] ELSE tip[b][f]]

\* create_feature_branch, whose failure nobody looks at, then "git add ." and
\* the commit, on whatever is checked out.  Either of them may fail.
Target(r) == IF MaySwitch(r) THEN r ELSE head
StageAndCommit(r) ==
  /\ pc[r] = "stage"
  /\ head' = Target(r)
  /\ tree' = TreeOn(Target(r))
  /\ \/ /\ tree' # tip[head']
        /\ tip' = [tip EXCEPT ![head'] = tree'] /\ index' = tree'
        /\ End(r, "COMMITTED")
     \/ /\ tip' = tip /\ index' \in {tree', IndexOn(Target(r))}
        /\ End(r, "COMMIT_FAILED")
  /\ UNCHANGED st

\* Mutant: "clean -fd" is forgotten.
DiscardedTrackedOnly ==
  [f \in Files |-> IF IndexOn("main")[f] = {} THEN tree[f]
                                             ELSE IndexOn("main")[f]]
\* "checkout -- ." restores what is staged, "clean -fd" removes the rest.
Discarded == IndexOn("main")

\* cleanup_branch: check out main, discard every change, delete the branch.  If
\* git refuses the checkout nothing happens, and nobody looks at that either.
Cleanup(r) ==
  /\ pc[r] = "cleanup"
  /\ IF MaySwitch("main")
       THEN /\ head' = "main" /\ index' = IndexOn("main") /\ tree' = Discarded
            /\ tip' = IF st[r].diff = Empty THEN tip
                      ELSE [b \in DOMAIN tip \ {r} |-> tip[b]]
       ELSE UNCHANGED git
  /\ End(r, "CLEANED")
  /\ UNCHANGED st

Next ==
  \E r \in Runs :
    \/ Start(r) \/ Fail(r)
    \/ Develop(r) \/ DevelopRefused(r) \/ Qa(r)
    \/ ReviseUnwritten(r) \/ ReviseWritten(r)
    \/ GitPrepareNothing(r) \/ GitPrepare(r) \/ GitPrepareFails(r)
    \/ PolicyPermits(r) \/ PolicyRefuses(r)
    \/ Resume(r, "git_commit") \/ Resume(r, "cleanup")
    \/ VerifyDrift(r) \/ StageAndCommit(r) \/ Cleanup(r)

Spec == Init /\ [][Next]_vars

-----------------------------------------------------------------------------
(* What the workspace promises.                                            *)

Lands(r) ==
  pc[r] = "stage" /\ pc'[r] = "ended" /\ outcome'[r] = "COMMITTED"

\* The commit, as the change it makes to the branch it is made on.
CommittedChange ==
  Text([f \in Files |-> <<tip[head'][f], tip'[head'][f]>>])

(***************************************************************************)
(* A file whose approved change was checked for drift is committed with    *)
(* the approved content, on whatever branch the commit lands.              *)
(***************************************************************************)
ApprovedFilesLand ==
  [][\A r \in Runs : Lands(r) /\ HasBaseline(r) =>
       \A f \in Changed(st[r].diff) : tip'[head'][f] = st[r].diff[f][2]]_vars

(***************************************************************************)
(* A run that started on a clean workspace, met no other run, and whose    *)
(* first patch passed QA commits the diff its reviewer approved, nothing   *)
(* else, on its own branch, from the files QA tested; and its approval is  *)
(* never refused as drift.                                                 *)
(***************************************************************************)
Undisturbed(r) == r \in alone /\ st[r].revisions = 0
UndisturbedIsExact ==
  [][\A r \in Runs : Undisturbed(r) =>
       /\ Lands(r) => /\ CommittedChange = Text(st[r].diff)
                      /\ head' = r /\ tree' = st[r].tested
       /\ outcome'[r] # "PATCH_HASH_MISMATCH"]_vars

(***************************************************************************)
(* QA and the reviewer look at the same change: of every file of a diff    *)
(* that waits for approval, QA tested the content before or the content    *)
(* after, never a third one that apply_patches made up.                    *)
(***************************************************************************)
QaSawBeforeOrAfter ==
  \A r \in Runs : pc[r] = "waiting" =>
    \A f \in DOMAIN st[r].diff :
      st[r].tested[f] \in {st[r].diff[f][1], st[r].diff[f][2]}

(***************************************************************************)
(* git_prepare accepts what QA passed: check_ast reads the working tree    *)
(* and apply_patches HEAD, unless the two differ, yet no patch that passed *)
(* the one is refused by the other (which would silently empty the diff).  *)
(***************************************************************************)
PassedPatchesApply ==
  \A r \in Runs : pc[r] = "git_prepare" =>
    \A p \in st[r].patches : Preparable(p)

(***************************************************************************)
(* A rejected or blocked run that met no other run, and whose branch       *)
(* started from what main holds, leaves the repository as it found it:     *)
(* main checked out, a clean tree, its branch gone (cleanup_branch).       *)
(***************************************************************************)
Discards(r) ==
  pc[r] = "cleanup" /\ outcome'[r] = "CLEANED" /\ ~IsNoOp(st[r].diff)
AloneIsRestored ==
  [][\A r \in alone : Discards(r) /\ tip[r] = tip["main"] =>
       head' = "main" /\ tree' = tip'["main"] /\ r \notin DOMAIN tip']_vars

-----------------------------------------------------------------------------
(* What the repository says of the workspace and the code does not keep.   *)

(***************************************************************************)
(* "Nothing is committed until a reviewer explicitly approves the exact    *)
(* diff" (README): a commit changes what the approved diff changes.        *)
(***************************************************************************)
CommitIsApprovedDiff ==
  [][\A r \in Runs : Lands(r) => CommittedChange = Text(st[r].diff)]_vars

(***************************************************************************)
(* "A rejected or policy-blocked run is cleaned up (feature branch         *)
(* removed, workspace restored) instead of left half-applied" (README):    *)
(* the cleanup of a refused diff leaves what main holds on disk, and no    *)
(* branch of the run.                                                      *)
(***************************************************************************)
RefusedIsCleaned ==
  [][\A r \in Runs : Discards(r) =>
       tree' = tip'["main"] /\ r \notin DOMAIN tip']_vars
=============================================================================
