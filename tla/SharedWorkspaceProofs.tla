------------------------ MODULE SharedWorkspaceProofs ------------------------
(***************************************************************************)
(* What holds of SharedWorkspace for any number of runs, files and         *)
(* patches: its type invariant, that QA and the reviewer see the same      *)
(* change, that what QA passed can be prepared, that a checked file lands  *)
(* with its approved content, and that a run which nobody disturbed        *)
(* commits its diff and nothing else, or leaves no trace.                  *)
(*                                                                         *)
(* The inductive invariant says that no file of HEAD is missing from the   *)
(* index, and none of the index from the working tree; that the tree QA    *)
(* passed, and its patches apply to, is still the tree when the diff is    *)
(* prepared; that a run with a diff has its branch; and that a run about   *)
(* to commit has just been checked for drift.  The second and the last     *)
(* need the lock: a run that does not hold it does not write the tree.     *)
(* For the undisturbed runs more is kept: nothing is staged, and the tree  *)
(* is HEAD with the run's patches, until its diff is prepared.             *)
(***************************************************************************)
EXTENDS SharedWorkspace, TLAPS

USE DEF Content

NoFileLost == \A f \in Files :
  (OnHead(f) # {} => index[f] # {}) /\ (index[f] # {} => tree[f] # {})

SawBeforeOrAfter(r) ==
  \A f \in DOMAIN st[r].diff :
    st[r].tested[f] \in {st[r].diff[f][1], st[r].diff[f][2]}

RunInv(r) ==
  /\ pc[r] = "revision" => st[r].revisions < MaxRevisions
  /\ pc[r] = "git_prepare" => /\ st[r].tested = tree
                              /\ AllApplicable(st[r].patches)
  /\ pc[r] \in {"policy", "waiting"} => SawBeforeOrAfter(r)
  /\ pc[r] = "stage" => NoDrift(r)
  /\ pc[r] = "policy" /\ ~IsNoOp(st[r].diff) => r \in DOMAIN tip
  /\ pc[r] \in {"waiting", "git_commit", "stage"} => r \in DOMAIN tip

Inv == TypeOK /\ NoFileLost /\ \A r \in Runs : RunInv(r)

-----------------------------------------------------------------------------
(* Patches and batches.                                                    *)

\* A patch that is applied leaves a file, and not an absent one.
LEMMA AppliedType ==
  ASSUME NEW p \in Patch, NEW c \in Content
  PROVE  Applied(p, c) \in Content \ {{}}
BY DEF Applied, Patch

\* A batch has one patch for each of its files.
LEMMA BatchPatch ==
  ASSUME NEW B \in Batches, NEW f \in FilesOf(B)
  PROVE  /\ PatchOf(B, f) \in B /\ PatchOf(B, f) \in Patch
         /\ PatchOf(B, f).file = f /\ f \in Files
<1>1. PICK p \in B : p.file = f
  BY DEF FilesOf
<1>2. PatchOf(B, f) \in B /\ PatchOf(B, f).file = f
  BY <1>1 DEF PatchOf
<1>3. PatchOf(B, f) \in Patch
  BY <1>2, PatchesAssumption DEF Batches
<1> QED BY <1>2, <1>3 DEF Patch

\* A part of a batch is a batch.
LEMMA SubBatch ==
  ASSUME NEW B \in Batches, NEW C \in SUBSET B
  PROVE  C \in Batches
BY DEF Batches

\* Writing a batch yields a tree, and loses no file.
LEMMA WrittenTree ==
  ASSUME tree \in Tree, NEW B \in Batches
  PROVE  /\ Written(B) \in Tree
         /\ \A f \in Files : tree[f] # {} => Written(B)[f] # {}
<1>1. \A f \in FilesOf(B) :
        Applied(PatchOf(B, f), tree[f]) \in Content \ {{}}
  BY BatchPatch, AppliedType DEF Tree
<1> QED BY <1>1 DEF Written, Tree

\* apply_patches starts from contents and ends in a file.
LEMMA PreparedContent ==
  ASSUME tree \in Tree, tip[head] \in Tree, NEW p \in Patch
  PROVE  DiffBase(p) \in Content /\ Prepared(p) \in Content \ {{}}
<1>1. p.file \in Files
  BY DEF Patch
<1>2. DiffBase(p) \in Content
  BY <1>1 DEF DiffBase, OnHead, Tree
<1>3. Applied(p, DiffBase(p)) \in Content \ {{}}
  BY <1>2, AppliedType
<1> QED BY <1>1, <1>2, <1>3 DEF Prepared, Trusted, Tree

\* Preparing a batch yields a tree and a diff, and loses no file.
LEMMA PreparedBatch ==
  ASSUME tree \in Tree, tip[head] \in Tree, NEW B \in Batches
  PROVE  /\ PreparedTree(B) \in Tree
         /\ \A f \in Files : tree[f] # {} => PreparedTree(B)[f] # {}
         /\ DiffOf(B) \in Partial(Files, Content \X Content)
         /\ DOMAIN DiffOf(B) = FilesOf(B)
<1>1. \A f \in FilesOf(B) :
        /\ DiffBase(PatchOf(B, f)) \in Content
        /\ Prepared(PatchOf(B, f)) \in Content \ {{}}
        /\ f \in Files
  BY BatchPatch, PreparedContent
<1>2. PreparedTree(B) \in Tree
  BY <1>1 DEF PreparedTree, Tree
<1>3. \A f \in Files : tree[f] # {} => PreparedTree(B)[f] # {}
  BY <1>1 DEF PreparedTree
<1>4. FilesOf(B) \in SUBSET Files
  BY <1>1
<1>5. DiffOf(B) \in [FilesOf(B) -> Content \X Content]
  BY <1>1 DEF DiffOf
<1>6. DiffOf(B) \in Partial(Files, Content \X Content)
  BY <1>4, <1>5 DEF Partial
<1> QED BY <1>2, <1>3, <1>5, <1>6

\* A diff that apply_patches makes from the tree QA tested goes from or to the
\* content QA tested: a tree that differs from HEAD is trusted, and a file that
\* does not differ is one that QA saw before the patch.
LEMMA PreparedSaw ==
  ASSUME tree \in Tree, tip[head] \in Tree, NoFileLost, NEW B \in Batches
  PROVE  \A f \in DOMAIN DiffOf(B) :
           tree[f] \in {DiffOf(B)[f][1], DiffOf(B)[f][2]}
<1> SUFFICES ASSUME NEW f \in FilesOf(B)
             PROVE  tree[f] \in {DiffOf(B)[f][1], DiffOf(B)[f][2]}
  BY DEF DiffOf
<1> DEFINE p == PatchOf(B, f)
<1>1. p.file = f /\ f \in Files
  BY BatchPatch
<1>2. DiffOf(B)[f] = <<DiffBase(p), Prepared(p)>>
  BY DEF DiffOf
<1>3. CASE Trusted(p)
  BY <1>1, <1>2, <1>3 DEF Prepared
<1>4. CASE ~Trusted(p) /\ tree[f] # {}
  BY <1>1, <1>2, <1>4 DEF Trusted
<1>5. CASE ~Trusted(p) /\ tree[f] = {}
  <2>1. OnHead(f) = {}
    BY <1>1, <1>5 DEF NoFileLost
  <2>2. DiffBase(p) = tree[f]
    BY <1>1, <1>5, <2>1 DEF DiffBase
  <2> QED BY <1>2, <2>2
<1> QED BY <1>3, <1>4, <1>5

-----------------------------------------------------------------------------
(* Checking out a branch.                                                  *)

\* A switch of branches yields a tree that has every file of the branch.
LEMMA SwitchTree ==
  ASSUME TypeOK, NoFileLost, NEW b \in DOMAIN tip, MaySwitch(b)
  PROVE  /\ TreeOn(b) \in Tree /\ IndexOn(b) \in Tree
         /\ \A f \in Files : /\ tip[b][f] # {} => IndexOn(b)[f] # {}
                             /\ IndexOn(b)[f] # {} => TreeOn(b)[f] # {}
BY DEF TypeOK, NoFileLost, MaySwitch, TreeOn, IndexOn, Uncommitted, Staged,
   Tree, OnHead

-----------------------------------------------------------------------------
(* The two halves of TypeOK, and what each way to move on does to the      *)
(* first.                                                                  *)

Control ==
  /\ lock \in Runs \cup {"free"}
  /\ pc \in [Runs -> Executing \cup {"new", "waiting", "ended"}]
  /\ \A r \in Runs : pc[r] \in Executing <=> lock = r
  /\ outcome \in [Runs -> Outcomes] /\ alone \subseteq Runs

Data ==
  /\ DOMAIN tip \subseteq Runs \cup {"main"} /\ "main" \in DOMAIN tip
  /\ \A b \in DOMAIN tip : tip[b] \in Tree
  /\ head \in DOMAIN tip /\ index \in Tree /\ tree \in Tree
  /\ st \in [Runs -> State]

\* TypeOK is the conjunction of its halves.
LEMMA Halves == (TypeOK <=> Control /\ Data) /\ (TypeOK' <=> Control' /\ Data')
BY DEF TypeOK, Control, Data

\* Only run r moves, to n.
Moved(r, n) ==
  /\ Control' /\ pc'[r] = n
  /\ \A q \in Runs \ {r} : pc'[q] = pc[q]

\* A run that executes goes on to another node.
LEMMA GotoMoves ==
  ASSUME Control, NEW r \in Runs, NEW n \in Executing, pc[r] \in Executing,
         Goto(r, n)
  PROVE  Moved(r, n)
BY DEF Control, Goto, Moved

\* A run takes the free lock.
LEMMA EnterMoves ==
  ASSUME Control, NEW r \in Runs, NEW n \in Executing, Enter(r, n),
         alone' \subseteq Runs
  PROVE  Moved(r, n)
BY RunsAssumption DEF Control, Enter, Moved

\* A run pauses at its approval.
LEMMA PauseMoves ==
  ASSUME Control, NEW r \in Runs, pc[r] \in Executing, Pause(r)
  PROVE  Moved(r, "waiting")
BY RunsAssumption DEF Control, Pause, Moved, Executing

\* A run ends.
LEMMA EndMoves ==
  ASSUME Control, NEW r \in Runs, NEW o \in Outcomes, End(r, o)
  PROVE  Moved(r, "ended")
BY RunsAssumption DEF Control, End, Moved, Executing

\* While r holds the lock, or nobody does, no other run depends on anything but
\* its own state.
LEMMA OtherRuns ==
  ASSUME Control, NEW r \in Runs, NEW q \in Runs \ {r}, lock \in {r, "free"},
         pc'[q] = pc[q], st'[q] = st[q], DOMAIN tip \ {r} \subseteq DOMAIN tip',
         RunInv(q)
  PROVE  RunInv(q)'
<1>1. pc[q] \notin Executing
  BY RunsAssumption DEF Control
<1> QED BY <1>1 DEF RunInv, SawBeforeOrAfter, Executing

\* A step of the run that holds the lock, or takes it, keeps the invariant if it
\* keeps the data, the files and the run's own part of it.
LEMMA StepOf ==
  ASSUME Inv, NEW r \in Runs, NEW n, Moved(r, n), lock \in {r, "free"},
         Data', NoFileLost', RunInv(r)',
         \A q \in Runs \ {r} : st'[q] = st[q],
         DOMAIN tip \ {r} \subseteq DOMAIN tip'
  PROVE  Inv'
<1>1. \A q \in Runs \ {r} : RunInv(q)'
  BY OtherRuns, Halves DEF Inv, Moved
<1>2. TypeOK'
  BY Halves DEF Moved
<1> QED BY <1>1, <1>2 DEF Inv

-----------------------------------------------------------------------------
(* The steps that leave the workspace alone.                               *)

\* Starting, resuming, ending and the policy's verdict change no data.
LEMMA KeepsData ==
  ASSUME Inv, UNCHANGED <<git, st>>
  PROVE  Data' /\ NoFileLost' /\ tip' = tip
BY Halves DEF Inv, Data, NoFileLost, OnHead, git

\* A run starts.
LEMMA StartStep == ASSUME Inv, NEW r \in Runs, Start(r) PROVE Inv'
<1>1. Moved(r, "developer")
  BY EnterMoves, Halves DEF Inv, Start, Executing
<1>2. RunInv(r)'
  BY <1>1 DEF RunInv, Moved
<1> QED BY <1>1, <1>2, KeepsData, StepOf DEF Start, Enter

\* A reviewer's decision resumes a run.
LEMMA ResumeStep ==
  ASSUME Inv, NEW r \in Runs, NEW n \in {"git_commit", "cleanup"}, Resume(r, n)
  PROVE  Inv'
<1>1. Moved(r, n)
  BY EnterMoves, Halves DEF Inv, Control, Resume, Executing
<1>2. RunInv(r)'
  BY <1>1, KeepsData DEF Inv, RunInv, Moved, Resume
<1> QED BY <1>1, <1>2, KeepsData, StepOf DEF Resume, Enter

\* A run fails, holding the lock or waiting for its review.
LEMMA FailStep == ASSUME Inv, NEW r \in Runs, Fail(r) PROVE Inv'
<1>1. Moved(r, "ended")
  BY EndMoves, Halves DEF Inv, Fail, Outcomes
<1>2. RunInv(r)'
  BY <1>1 DEF RunInv, Moved
<1>3. ASSUME NEW q \in Runs \ {r} PROVE RunInv(q)'
  <2>1. pc'[q] = pc[q]
    BY <1>1 DEF Moved
  <2> QED BY <2>1 DEF Inv, Fail, RunInv, SawBeforeOrAfter, NoDrift,
             HasBaseline, DiffOnDisk, OnHead, AllApplicable, git
<1>4. TypeOK' /\ NoFileLost'
  BY <1>1, KeepsData, Halves DEF Moved, Fail
<1> QED BY <1>2, <1>3, <1>4 DEF Inv

\* The policy permits a diff, or sends the run to its cleanup.
LEMMA PolicyStep ==
  ASSUME Inv, NEW r \in Runs, PolicyPermits(r) \/ PolicyRefuses(r)
  PROVE  Inv'
<1>1. pc[r] \in Executing /\ lock = r
  BY Halves DEF Inv, Control, PolicyPermits, PolicyRefuses, Executing
<1>2. CASE PolicyPermits(r)
  <2>1. Moved(r, "waiting")
    BY <1>1, <1>2, PauseMoves, Halves DEF Inv, PolicyPermits
  <2>2. RunInv(r)'
    BY <1>2, <2>1, KeepsData
       DEF Inv, RunInv, Moved, PolicyPermits, SawBeforeOrAfter
  <2> QED BY <1>1, <1>2, <2>1, <2>2, KeepsData, StepOf DEF PolicyPermits
<1>3. CASE PolicyRefuses(r)
  <2>1. Moved(r, "cleanup")
    BY <1>1, <1>3, GotoMoves, Halves DEF Inv, PolicyRefuses, Executing
  <2>2. RunInv(r)'
    BY <2>1 DEF RunInv, Moved
  <2> QED BY <1>1, <1>3, <2>1, <2>2, KeepsData, StepOf DEF PolicyRefuses
<1> QED BY <1>2, <1>3

\* The drift check lets a run commit only if the approved diff is on disk.
LEMMA VerifyDriftStep == ASSUME Inv, NEW r \in Runs, VerifyDrift(r) PROVE Inv'
<1>1. pc[r] \in Executing /\ lock = r
  BY Halves DEF Inv, Control, VerifyDrift, Executing
<1>2. CASE NoDrift(r)
  <2>1. Moved(r, "stage")
    BY <1>1, <1>2, GotoMoves, Halves DEF Inv, VerifyDrift, Executing
  <2>2. NoDrift(r)'
    BY <1>2 DEF VerifyDrift, NoDrift, HasBaseline, DiffOnDisk, OnHead, git
  <2>3. RunInv(r)'
    BY <2>1, <2>2, KeepsData DEF Inv, RunInv, Moved, VerifyDrift
  <2> QED BY <1>1, <2>1, <2>3, KeepsData, StepOf DEF VerifyDrift
<1>3. CASE ~NoDrift(r)
  <2>1. Moved(r, "ended")
    BY <1>1, <1>3, EndMoves, Halves DEF Inv, VerifyDrift, Outcomes
  <2>2. RunInv(r)'
    BY <2>1 DEF RunInv, Moved
  <2> QED BY <1>1, <2>1, <2>2, KeepsData, StepOf DEF VerifyDrift
<1> QED BY <1>2, <1>3

-----------------------------------------------------------------------------
(* The steps that write to the workspace.                                  *)

\* Writing a batch to disk keeps the data and the files.
LEMMA WriteKeeps ==
  ASSUME Inv, NEW r \in Runs, NEW B \in Batches, NEW P \in Batches,
         NEW n \in 0..MaxRevisions, WriteToDisk(r, B, P, n)
  PROVE  /\ Data' /\ NoFileLost' /\ tip' = tip
         /\ \A q \in Runs \ {r} : st'[q] = st[q]
         /\ st'[r].revisions = n
<1>1. Written(B) \in Tree /\ \A f \in Files : tree[f] # {} => Written(B)[f] # {}
  BY WrittenTree, Halves DEF Inv, Data
<1>2. NoFileLost'
  BY <1>1 DEF Inv, NoFileLost, WriteToDisk, OnHead
<1>3. st' \in [Runs -> State]
  BY Halves DEF Inv, Data, WriteToDisk, State
<1>4. Data'
  BY <1>1, <1>3, Halves DEF Inv, Data, WriteToDisk
<1>5. (\A q \in Runs \ {r} : st'[q] = st[q]) /\ st'[r].revisions = n
  BY Halves DEF Inv, Data, WriteToDisk, State
<1> QED BY <1>2, <1>4, <1>5 DEF WriteToDisk

\* The empty batch is one.
LEMMA EmptyBatch == {} \in Batches
BY DEF Batches

\* The developer writes its patches.
LEMMA DevelopStep == ASSUME Inv, NEW r \in Runs, Develop(r) PROVE Inv'
<1>1. lock = r /\ Moved(r, "qa")
  BY GotoMoves, Halves DEF Inv, Control, Develop, Executing
<1>2. PICK B \in Batches : WriteToDisk(r, B, B, 0)
  BY DEF Develop
<1>3. /\ Data' /\ NoFileLost' /\ tip' = tip
      /\ \A q \in Runs \ {r} : st'[q] = st[q]
  BY <1>2, WriteKeeps, MaxRevisionsAssumption
<1>4. RunInv(r)'
  BY <1>1 DEF RunInv, Moved
<1> QED BY <1>1, <1>3, <1>4, StepOf

\* A patch is refused: the run has its whole revision budget before it.
LEMMA DevelopRefusedStep ==
  ASSUME Inv, NEW r \in Runs, DevelopRefused(r) PROVE Inv'
<1>1. lock = r /\ pc[r] \in Executing
  BY Halves DEF Inv, Control, DevelopRefused, Executing
<1>2. PICK B \in Batches : WriteToDisk(r, B, {}, 0)
  BY DEF DevelopRefused
<1>3. /\ Data' /\ NoFileLost' /\ tip' = tip /\ st'[r].revisions = 0
      /\ \A q \in Runs \ {r} : st'[q] = st[q]
  BY <1>2, WriteKeeps, EmptyBatch, MaxRevisionsAssumption
<1>4. Moved(r, "revision") \/ Moved(r, "ended")
  BY <1>1, GotoMoves, EndMoves, Halves
     DEF Inv, DevelopRefused, Executing, Outcomes
<1>5. RunInv(r)'
  BY <1>3, <1>4, MaxRevisionsAssumption DEF RunInv, Moved
<1> QED BY <1>1, <1>3, <1>4, <1>5, StepOf

\* QA passes on the tree as it is, asks for a revision, or gives up.
LEMMA QaStep == ASSUME Inv, NEW r \in Runs, Qa(r) PROVE Inv'
<1>1. lock = r /\ pc[r] \in Executing
  BY Halves DEF Inv, Control, Qa, Executing
<1>2. /\ st' \in [Runs -> State]
      /\ \A q \in Runs \ {r} : st'[q] = st[q]
  <2>1. CASE st' = [st EXCEPT ![r].tested = tree]
    <3>1. [st[r] EXCEPT !.tested = tree] \in State
      BY Halves DEF Inv, Data, State
    <3> QED BY <2>1, <3>1, Halves DEF Inv, Data
  <2>2. CASE st' = st
    BY <2>2, Halves DEF Inv, Data
  <2> QED BY <2>1, <2>2 DEF Qa
<1>3. Data' /\ NoFileLost' /\ tip' = tip
  BY <1>2, Halves DEF Inv, Data, NoFileLost, OnHead, Qa, git
<1>4. CASE /\ AllApplicable(st[r].patches) /\ Goto(r, "git_prepare")
           /\ st' = [st EXCEPT ![r].tested = tree]
  <2>1. Moved(r, "git_prepare")
    BY <1>1, <1>4, GotoMoves, Halves DEF Inv, Executing
  <2>2. /\ st'[r].tested = tree' /\ tree' = tree
        /\ st'[r].patches = st[r].patches
    BY <1>4, Halves DEF Inv, Data, State, Qa, git
  <2>3. RunInv(r)'
    BY <1>4, <2>1, <2>2 DEF RunInv, Moved, AllApplicable
  <2> QED BY <1>1, <1>2, <1>3, <2>1, <2>3, StepOf
<1>5. CASE st[r].revisions < MaxRevisions /\ Goto(r, "revision")
           /\ UNCHANGED st
  <2>1. Moved(r, "revision")
    BY <1>1, <1>5, GotoMoves, Halves DEF Inv, Executing
  <2>2. RunInv(r)'
    BY <1>5, <2>1 DEF RunInv, Moved
  <2> QED BY <1>1, <1>2, <1>3, <2>1, <2>2, StepOf
<1>6. CASE End(r, "FAILED")
  <2>1. Moved(r, "ended")
    BY <1>6, EndMoves, Halves DEF Inv, Outcomes
  <2>2. RunInv(r)'
    BY <2>1 DEF RunInv, Moved
  <2> QED BY <1>1, <1>2, <1>3, <2>1, <2>2, StepOf
<1> QED BY <1>4, <1>5, <1>6 DEF Qa

\* A revision, whose patches may stay unwritten.
LEMMA ReviseStep ==
  ASSUME Inv, NEW r \in Runs, ReviseUnwritten(r) \/ ReviseWritten(r)
  PROVE  Inv'
<1>1. lock = r /\ Moved(r, "qa")
  BY GotoMoves, Halves
     DEF Inv, Control, ReviseUnwritten, ReviseWritten, Executing
<1>2. RunInv(r)'
  BY <1>1 DEF RunInv, Moved
<1>3. st[r].revisions + 1 \in 0..MaxRevisions
  BY MaxRevisionsAssumption, Halves
     DEF Inv, RunInv, Data, State, ReviseUnwritten, ReviseWritten
<1>4. CASE ReviseUnwritten(r)
  <2>1. st' \in [Runs -> State] /\ \A q \in Runs \ {r} : st'[q] = st[q]
    <3>1. PICK B \in Batches :
            st' = [st EXCEPT ![r].patches = B, ![r].revisions = @ + 1]
      BY <1>4 DEF ReviseUnwritten
    <3>2. [st[r] EXCEPT !.patches = B, !.revisions = @ + 1] \in State
      BY <1>3, Halves DEF Inv, Data, State
    <3> QED BY <3>1, <3>2, Halves DEF Inv, Data
  <2>2. Data' /\ NoFileLost' /\ tip' = tip
    BY <1>4, <2>1, Halves DEF Inv, Data, NoFileLost, OnHead,
       ReviseUnwritten, git
  <2> QED BY <1>1, <1>2, <2>1, <2>2, StepOf
<1>5. CASE ReviseWritten(r)
  <2>1. st[r].patches \in Batches
    BY Halves DEF Inv, Data, State
  <2>2. PICK B \in Batches, p \in Batches :
          WriteToDisk(r, B, p, st[r].revisions + 1)
    BY <1>5, <2>1 DEF ReviseWritten
  <2> QED BY <1>1, <1>2, <1>3, <2>2, WriteKeeps, StepOf
<1> QED BY <1>4, <1>5

\* A new branch starts from HEAD; the tree may gain contents but loses no file.
LEMMA BranchKeeps ==
  ASSUME Inv, NEW r \in Runs, Branch(r), NEW T \in Tree, tree' = T,
         \A f \in Files : tree[f] # {} => T[f] # {},
         NEW d \in Partial(Files, Content \X Content),
         st' = [st EXCEPT ![r].diff = d]
  PROVE  /\ Data' /\ NoFileLost' /\ DOMAIN tip' = DOMAIN tip \cup {r}
         /\ st'[r].diff = d
         /\ st'[r].tested = st[r].tested
         /\ \A q \in Runs \ {r} : st'[q] = st[q]
<1>1. /\ st' \in [Runs -> State] /\ st'[r].diff = d
      /\ st'[r].tested = st[r].tested
      /\ \A q \in Runs \ {r} : st'[q] = st[q]
  BY Halves DEF Inv, Data, State
<1>2. /\ DOMAIN tip' = DOMAIN tip \cup {r} /\ head' = r /\ index' = index
      /\ tip'[head'] = tip[head] /\ \A b \in DOMAIN tip' : tip'[b] \in Tree
  BY Halves DEF Inv, Data, Branch
<1>3. Data'
  BY <1>1, <1>2, Halves DEF Inv, Data
<1>4. NoFileLost'
  BY <1>2 DEF Inv, NoFileLost, OnHead
<1> QED BY <1>1, <1>2, <1>3, <1>4

\* A patch that applies to the tree is not refused: where the tree is not
\* trusted, it is what apply_patches starts from.
LEMMA PassedApplies ==
  ASSUME NoFileLost, NEW p \in Patch, Applicable(p, tree[p.file])
  PROVE  Preparable(p)
<1>1. p.file \in Files
  BY DEF Patch
<1>2. CASE tree[p.file] = {}
  <2>1. OnHead(p.file) = {}
    BY <1>1, <1>2 DEF NoFileLost
  <2> QED BY <1>2, <2>1 DEF Preparable, DiffBase
<1>3. CASE tree[p.file] # {}
  BY <1>3 DEF Preparable, Trusted, Applicable
<1> QED BY <1>2, <1>3

\* The diff is prepared from the tree QA tested.
LEMMA GitPrepareStep == ASSUME Inv, NEW r \in Runs, GitPrepare(r) PROVE Inv'
<1> DEFINE B == st[r].patches
<1>1. lock = r /\ Moved(r, "policy")
  BY GotoMoves, Halves DEF Inv, Control, GitPrepare, Executing
<1>2. B \in Batches /\ tree \in Tree /\ tip[head] \in Tree
  BY Halves DEF Inv, Data, State
<1>3. /\ Data' /\ NoFileLost' /\ DOMAIN tip' = DOMAIN tip \cup {r}
      /\ st'[r].diff = DiffOf(B)
      /\ st'[r].tested = st[r].tested
      /\ \A q \in Runs \ {r} : st'[q] = st[q]
  BY <1>2, PreparedBatch, BranchKeeps DEF GitPrepare
<1>4. st[r].tested = tree
  BY DEF Inv, RunInv, GitPrepare
<1>5. SawBeforeOrAfter(r)'
  BY <1>2, <1>3, <1>4, PreparedSaw DEF Inv, SawBeforeOrAfter
<1>6. RunInv(r)'
  BY <1>1, <1>3, <1>5 DEF RunInv, Moved
<1> QED BY <1>1, <1>3, <1>6, StepOf

\* The empty diff is a diff without files.
LEMMA EmptyDiff ==
  Empty \in Partial(Files, Content \X Content) /\ DOMAIN Empty = {}
<1>1. Empty \in [{} -> Content \X Content] /\ DOMAIN Empty = {}
  BY DEF Empty
<1>2. {} \in SUBSET Files
  OBVIOUS
<1> QED BY <1>1, <1>2 DEF Partial

\* The diff is left empty, because there is no patch or one does not apply.
LEMMA GitPrepareEmptyStep ==
  ASSUME Inv, NEW r \in Runs, GitPrepareNothing(r) \/ GitPrepareFails(r)
  PROVE  Inv'
<1>1. lock = r /\ Moved(r, "policy")
  BY GotoMoves, Halves
     DEF Inv, Control, GitPrepareNothing, GitPrepareFails, Executing
<1>2. st' = [st EXCEPT ![r].diff = Empty]
  BY DEF GitPrepareNothing, GitPrepareFails
<1>3. /\ st' \in [Runs -> State] /\ st'[r].diff = Empty
      /\ \A q \in Runs \ {r} : st'[q] = st[q]
  BY <1>2, EmptyDiff, Halves DEF Inv, Data, State
<1>4. RunInv(r)'
  BY <1>1, <1>3, EmptyDiff
     DEF RunInv, Moved, SawBeforeOrAfter, IsNoOp, Changed
<1>5. CASE GitPrepareNothing(r)
  <2>1. Data' /\ NoFileLost' /\ tip' = tip
    BY <1>3, <1>5, Halves DEF Inv, Data, NoFileLost, OnHead,
       GitPrepareNothing, git
  <2> QED BY <1>1, <1>3, <1>4, <2>1, StepOf
<1>6. CASE GitPrepareFails(r)
  <2>1. st[r].patches \in Batches /\ tree \in Tree /\ tip[head] \in Tree
    BY Halves DEF Inv, Data, State
  <2>2. PICK C \in SUBSET st[r].patches : tree' = PreparedTree(C)
    BY <1>6 DEF GitPrepareFails
  <2>3. C \in Batches
    BY <2>1, SubBatch
  <2>4. /\ PreparedTree(C) \in Tree
        /\ \A f \in Files : tree[f] # {} => PreparedTree(C)[f] # {}
    BY <2>1, <2>3, PreparedBatch
  <2>5. Branch(r)
    BY <1>6 DEF GitPrepareFails
  <2>6. Data' /\ NoFileLost' /\ DOMAIN tip' = DOMAIN tip \cup {r}
    BY <1>2, <2>2, <2>4, <2>5, EmptyDiff, BranchKeeps
  <2> QED BY <1>1, <1>3, <1>4, <2>6, StepOf
<1> QED BY <1>5, <1>6

\* The commit, on the run's branch or, if git refuses the checkout, on another.
LEMMA StageAndCommitStep ==
  ASSUME Inv, NEW r \in Runs, StageAndCommit(r)
  PROVE  Inv'
<1>0. r \in DOMAIN tip
  BY DEF Inv, RunInv, StageAndCommit
<1>1. lock = r /\ Moved(r, "ended")
  BY EndMoves, Halves
     DEF Inv, Control, StageAndCommit, Executing, Outcomes
<1>2. RunInv(r)'
  BY <1>1 DEF RunInv, Moved
<1> DEFINE b == Target(r)
<1>3. b \in DOMAIN tip /\ MaySwitch(b)
  BY <1>0, Halves DEF Inv, Data, Target, MaySwitch
<1>4. /\ TreeOn(b) \in Tree /\ IndexOn(b) \in Tree
      /\ \A f \in Files : /\ tip[b][f] # {} => IndexOn(b)[f] # {}
                          /\ IndexOn(b)[f] # {} => TreeOn(b)[f] # {}
  BY <1>3, SwitchTree DEF Inv
<1>5. st' = st /\ head' = b /\ tree' = TreeOn(b)
  BY DEF StageAndCommit
<1>6. \/ tip' = [tip EXCEPT ![b] = tree'] /\ index' = tree'
      \/ tip' = tip /\ index' \in {tree', IndexOn(b)}
  BY <1>5 DEF StageAndCommit
<1>7. DOMAIN tip' = DOMAIN tip
  BY <1>6
<1>8. Data' /\ NoFileLost'
  <2>1. CASE tip' = [tip EXCEPT ![b] = tree'] /\ index' = tree'
    BY <1>3, <1>4, <1>5, <2>1, Halves DEF Inv, Data, NoFileLost, OnHead
  <2>2. CASE tip' = tip /\ index' \in {tree', IndexOn(b)}
    <3>1. index' \in Tree /\ tree' \in Tree
      BY <1>4, <1>5, <2>2
    <3>2. Data'
      BY <1>3, <1>5, <2>2, <3>1, Halves DEF Inv, Data
    <3>3. \A f \in Files : (tip[b][f] # {} => index'[f] # {})
                          /\ (index'[f] # {} => tree'[f] # {})
      BY <1>4, <1>5, <2>2
    <3> QED BY <1>5, <2>2, <3>2, <3>3 DEF NoFileLost, OnHead
  <2> QED BY <1>6, <2>1, <2>2
<1> QED BY <1>1, <1>2, <1>5, <1>7, <1>8, StepOf

\* The cleanup, unless git refuses the checkout of main.
LEMMA CleanupStep == ASSUME Inv, NEW r \in Runs, Cleanup(r) PROVE Inv'
<1>1. lock = r /\ Moved(r, "ended")
  BY EndMoves, Halves DEF Inv, Control, Cleanup, Executing, Outcomes
<1>2. RunInv(r)'
  BY <1>1 DEF RunInv, Moved
<1>3. st' = st
  BY DEF Cleanup
<1>4. CASE MaySwitch("main")
  <2>1. /\ head' = "main" /\ index' = IndexOn("main") /\ tree' = index'
        /\ tip' = tip \/ tip' = [b \in DOMAIN tip \ {r} |-> tip[b]]
    BY <1>4 DEF Cleanup, Discarded
  <2>2. /\ DOMAIN tip' \subseteq DOMAIN tip /\ "main" \in DOMAIN tip'
        /\ \A b \in DOMAIN tip' : tip'[b] = tip[b]
    BY <2>1, RunsAssumption, Halves DEF Inv, Data
  <2>3. IndexOn("main") \in Tree
        /\ \A f \in Files : tip["main"][f] # {} => IndexOn("main")[f] # {}
    <3>1. "main" \in DOMAIN tip
      BY Halves DEF Inv, Data
    <3> QED BY <1>4, <3>1, SwitchTree DEF Inv
  <2>4. Data' /\ NoFileLost'
    BY <1>3, <2>1, <2>2, <2>3, Halves DEF Inv, Data, NoFileLost, OnHead
  <2> QED BY <1>1, <1>2, <1>3, <2>1, <2>4, StepOf
<1>5. CASE ~MaySwitch("main")
  <2>1. Data' /\ NoFileLost' /\ tip' = tip
    BY <1>3, <1>5, KeepsData DEF Cleanup
  <2> QED BY <1>1, <1>2, <1>3, <2>1, StepOf
<1> QED BY <1>4, <1>5

-----------------------------------------------------------------------------
(* The invariant, and what follows from it.                                *)

\* The invariant holds of the freshly cloned workspace.
LEMMA InvInit == Init => Inv
<1> SUFFICES ASSUME Init PROVE Inv
  OBVIOUS
<1>1. NewState \in State
  BY BaseAssumption, MaxRevisionsAssumption, EmptyBatch, EmptyDiff
     DEF NewState, State
<1>2. TypeOK
  BY <1>1, BaseAssumption, RunsAssumption DEF Init, TypeOK, Executing, Outcomes
<1>3. NoFileLost /\ \A r \in Runs : RunInv(r)
  BY DEF Init, NoFileLost, OnHead, RunInv
<1> QED BY <1>2, <1>3 DEF Inv

\* Every step of every run preserves the invariant.
LEMMA InvStep == Inv /\ [Next]_vars => Inv'
<1> SUFFICES ASSUME Inv, [Next]_vars PROVE Inv'
  OBVIOUS
<1>1. CASE UNCHANGED vars
  BY <1>1 DEF vars, git, Inv, TypeOK, NoFileLost, OnHead, RunInv,
     AllApplicable, SawBeforeOrAfter, NoDrift, HasBaseline, DiffOnDisk
<1>2. ASSUME NEW r \in Runs, Start(r) \/ Fail(r) PROVE Inv'
  BY <1>2, StartStep, FailStep
<1>3. ASSUME NEW r \in Runs,
             Develop(r) \/ DevelopRefused(r) \/ Qa(r)
               \/ ReviseUnwritten(r) \/ ReviseWritten(r)
      PROVE  Inv'
  BY <1>3, DevelopStep, DevelopRefusedStep, QaStep, ReviseStep
<1>4. ASSUME NEW r \in Runs,
             GitPrepareNothing(r) \/ GitPrepare(r) \/ GitPrepareFails(r)
               \/ PolicyPermits(r) \/ PolicyRefuses(r)
      PROVE  Inv'
  BY <1>4, GitPrepareStep, GitPrepareEmptyStep, PolicyStep
<1>5. ASSUME NEW r \in Runs,
             Resume(r, "git_commit") \/ Resume(r, "cleanup")
               \/ VerifyDrift(r) \/ StageAndCommit(r) \/ Cleanup(r)
      PROVE  Inv'
  BY <1>5, ResumeStep, VerifyDriftStep, StageAndCommitStep, CleanupStep
<1> QED BY <1>1, <1>2, <1>3, <1>4, <1>5 DEF Next

(***************************************************************************)
(* The workspace and every run's state are well formed, and the lock is    *)
(* held by the run that executes.                                          *)
(***************************************************************************)
THEOREM Typing == Spec => []TypeOK
<1>1. Inv => TypeOK
  BY DEF Inv
<1> QED BY <1>1, InvInit, InvStep, PTL DEF Spec

(***************************************************************************)
(* Of every file of a diff that waits for approval, QA tested the content  *)
(* before or the content after (qa_node, apply_patches).                   *)
(***************************************************************************)
THEOREM QaAndReviewerAgree == Spec => []QaSawBeforeOrAfter
<1>1. Inv => QaSawBeforeOrAfter
  BY DEF Inv, RunInv, SawBeforeOrAfter, QaSawBeforeOrAfter
<1> QED BY <1>1, InvInit, InvStep, PTL DEF Spec

(***************************************************************************)
(* No patch that check_ast passed on the working tree is refused by        *)
(* apply_patches, which starts from HEAD.                                  *)
(***************************************************************************)
THEOREM PassedPatchesAreTaken == Spec => []PassedPatchesApply
<1>1. Inv => PassedPatchesApply
  <2> SUFFICES ASSUME Inv, NEW r \in Runs, pc[r] = "git_prepare",
                      NEW p \in st[r].patches
               PROVE  Preparable(p)
    BY DEF PassedPatchesApply
  <2>1. p \in Patch
    BY PatchesAssumption, Halves DEF Inv, Data, State, Batches
  <2>2. Applicable(p, tree[p.file])
    BY DEF Inv, RunInv, AllApplicable
  <2> QED BY <2>1, <2>2, PassedApplies DEF Inv
<1> QED BY <1>1, InvInit, InvStep, PTL DEF Spec

\* A run at its commit moves on by committing only.
LEMMA OnlyCommitLeavesStage ==
  ASSUME TypeOK, NEW r \in Runs, pc[r] = "stage", pc'[r] # "stage", Next
  PROVE  StageAndCommit(r)
<1>1. PICK q \in Runs :
    \/ Start(q) \/ Fail(q)
    \/ Develop(q) \/ DevelopRefused(q) \/ Qa(q)
    \/ ReviseUnwritten(q) \/ ReviseWritten(q)
    \/ GitPrepareNothing(q) \/ GitPrepare(q) \/ GitPrepareFails(q)
    \/ PolicyPermits(q) \/ PolicyRefuses(q)
    \/ Resume(q, "git_commit") \/ Resume(q, "cleanup")
    \/ VerifyDrift(q) \/ StageAndCommit(q) \/ Cleanup(q)
  BY DEF Next
<1>2. \E n : pc' = [pc EXCEPT ![q] = n]
  BY <1>1 DEF Start, Fail, Develop, DevelopRefused, Qa, ReviseUnwritten,
     ReviseWritten, GitPrepareNothing, GitPrepare, GitPrepareFails,
     PolicyPermits, PolicyRefuses, Resume, VerifyDrift, StageAndCommit,
     Cleanup, Goto, Enter, Pause, End
<1>3. q = r
  BY <1>2 DEF TypeOK
<1> QED BY <1>1, <1>3 DEF Start, Fail, Develop, DevelopRefused, Qa,
     ReviseUnwritten, ReviseWritten, GitPrepareNothing, GitPrepare,
     GitPrepareFails, PolicyPermits, PolicyRefuses, Resume, VerifyDrift,
     Cleanup

(***************************************************************************)
(* A file whose approved change was checked for drift is committed with    *)
(* the approved content (git_commit_node).                                 *)
(***************************************************************************)
THEOREM CheckedFilesLand == Spec => ApprovedFilesLand
<1>1. ASSUME Inv, Next, NEW r \in Runs, Lands(r), HasBaseline(r),
             NEW f \in Changed(st[r].diff)
      PROVE  tip'[head'][f] = st[r].diff[f][2]
  <2>1. StageAndCommit(r)
    BY <1>1, OnlyCommitLeavesStage DEF Inv, Lands
  <2>2. Text(DiffOnDisk(r)) = Text(st[r].diff)
    BY <1>1 DEF Inv, RunInv, Lands, NoDrift
  <2>3. <<OnHead(f), tree[f]>> = st[r].diff[f]
    <3>1. f \in DOMAIN Text(DiffOnDisk(r))
      BY <1>1, <2>2 DEF Text
    <3>2. f \in DOMAIN st[r].diff
      BY <1>1 DEF Changed
    <3>3. Text(DiffOnDisk(r))[f] = <<OnHead(f), tree[f]>>
      BY <3>1, <3>2 DEF Text, Changed, DiffOnDisk
    <3>4. Text(st[r].diff)[f] = st[r].diff[f]
      BY <1>1 DEF Text
    <3> QED BY <2>2, <3>3, <3>4
  <2>4. Uncommitted(f) /\ tree[f] = st[r].diff[f][2]
    BY <1>1, <2>3 DEF Changed, Uncommitted
  <2>5. f \in Files
    BY <1>1, Halves DEF Inv, Data, State, Partial, Changed
  <2>6. tree'[f] = tree[f]
    BY <2>1, <2>4, <2>5 DEF StageAndCommit, TreeOn
  <2>7. outcome'[r] = "COMMITTED" /\ outcome \in [Runs -> Outcomes]
    BY <1>1, Halves DEF Inv, Control, Lands
  <2>8. tip' = [tip EXCEPT ![head'] = tree']
    BY <2>1, <2>7 DEF StageAndCommit, End
  <2>9. head' \in DOMAIN tip
    BY <1>1, <2>1, Halves DEF Inv, Data, RunInv, StageAndCommit, Target
  <2> QED BY <2>4, <2>6, <2>8, <2>9
<1>2. Inv /\ [Next]_vars =>
        [\A r \in Runs : Lands(r) /\ HasBaseline(r) =>
           \A f \in Changed(st[r].diff) :
             tip'[head'][f] = st[r].diff[f][2]]_vars
  BY <1>1
<1> QED BY <1>2, InvInit, InvStep, PTL DEF Spec, ApprovedFilesLand

-----------------------------------------------------------------------------
(* Runs that nobody disturbed.                                             *)

\* The working tree is HEAD with batch B applied to it.
FromHead(B) ==
  \A f \in Files :
    IF f \in FilesOf(B)
      THEN /\ Applicable(PatchOf(B, f), OnHead(f))
           /\ tree[f] = Applied(PatchOf(B, f), OnHead(f))
      ELSE tree[f] = OnHead(f)

\* The diff is what the working tree changes, and QA has seen that.
AsShown(r) ==
  /\ tree = st[r].tested /\ st[r].diff = DiffOnDisk(r)
  /\ \A f \in Files \ DOMAIN st[r].diff : tree[f] = OnHead(f)

\* A run whose first patch has not been revised.
First(r) ==
  /\ outcome[r] # "PATCH_HASH_MISMATCH"
  /\ pc[r] \in {"qa", "git_prepare"} => FromHead(st[r].patches)
  /\ pc[r] \in {"policy", "waiting", "git_commit", "stage"} /\ ~IsNoOp(st[r].diff)
       => AsShown(r)

\* A run that started on a clean tree and met no other: nothing is staged, and
\* with a diff to show it is on its own branch.
Solo(r) ==
  /\ lock \in {r, "free"}
  /\ pc[r] # "ended" => index = tip[head]
  /\ pc[r] = "developer" => tree = tip[head]
  /\ pc[r] \in {"waiting", "git_commit", "stage"} => ~IsNoOp(st[r].diff)
  /\ pc[r] \in {"policy", "waiting", "git_commit", "stage", "cleanup"}
       /\ ~IsNoOp(st[r].diff) => head = r
  /\ st[r].revisions = 0 => First(r)

Fresh == \A r \in Runs : pc[r] # "ended" => outcome[r] = "None"
SoloInv == Inv /\ Fresh /\ \A r \in alone : Solo(r)

RunStep(r) ==
  \/ Start(r) \/ Fail(r)
  \/ Develop(r) \/ DevelopRefused(r) \/ Qa(r)
  \/ ReviseUnwritten(r) \/ ReviseWritten(r)
  \/ GitPrepareNothing(r) \/ GitPrepare(r) \/ GitPrepareFails(r)
  \/ PolicyPermits(r) \/ PolicyRefuses(r)
  \/ Resume(r, "git_commit") \/ Resume(r, "cleanup")
  \/ VerifyDrift(r) \/ StageAndCommit(r) \/ Cleanup(r)

\* A step moves one run, which has not ended, and gives it an outcome if it ends.
LEMMA OneMoves ==
  ASSUME NEW q \in Runs, RunStep(q)
  PROVE  /\ pc[q] # "ended"
         /\ \E n : /\ pc' = [pc EXCEPT ![q] = n]
                   /\ \/ outcome' = outcome
                      \/ n = "ended" /\ \E o : outcome' = [outcome EXCEPT ![q] = o]
BY DEF RunStep, Start, Fail, Develop, DevelopRefused, Qa, ReviseUnwritten,
   ReviseWritten, GitPrepareNothing, GitPrepare, GitPrepareFails,
   PolicyPermits, PolicyRefuses, Resume, VerifyDrift, StageAndCommit,
   Cleanup, Goto, Enter, Pause, End

\* A run has an outcome only once it has ended.
LEMMA FreshStep ==
  ASSUME TypeOK, Fresh, NEW q \in Runs, RunStep(q)
  PROVE  Fresh'
BY OneMoves DEF Fresh, TypeOK

\* A run stays undisturbed only while no other one does more than to give up
\* waiting.
LEMMA CompanyEndsSolitude ==
  ASSUME TypeOK, NEW r \in alone, Solo(r), NEW q \in Runs \ {r}, RunStep(q), r \in alone'
  PROVE  Solo(r)'
<1>1. pc[q] \notin Executing
  BY RunsAssumption DEF TypeOK, Solo
<1>2. ~Start(q) /\ ~Resume(q, "git_commit") /\ ~Resume(q, "cleanup")
  BY DEF Start, Resume
<1>3. Fail(q)
  BY <1>1, <1>2 DEF RunStep, Executing, Develop, DevelopRefused, Qa, ReviseUnwritten,
     ReviseWritten, GitPrepareNothing, GitPrepare, GitPrepareFails,
     PolicyPermits, PolicyRefuses, VerifyDrift, StageAndCommit, Cleanup
<1>4. pc'[r] = pc[r] /\ outcome'[r] = outcome[r] /\ lock' \in {r, "free"}
  BY <1>3 DEF Fail, End, TypeOK, Solo
<1> QED
  BY <1>3, <1>4 DEF Fail, git, Solo, First, FromHead, AsShown, OnHead, DiffOnDisk,
     IsNoOp, Changed

\* The first patches, applied to HEAD, are taken over as they are: the tree
\* differs from HEAD wherever a patch changed something, and is trusted there.
LEMMA FirstPrepared ==
  ASSUME tree \in Tree, tip[head] \in Tree, NEW B \in Batches, FromHead(B)
  PROVE  /\ PreparedTree(B) = tree
         /\ \A f \in FilesOf(B) : DiffOf(B)[f] = <<OnHead(f), tree[f]>>
<1>1. ASSUME NEW f \in FilesOf(B)
      PROVE  /\ f \in Files
             /\ Prepared(PatchOf(B, f)) = tree[f]
             /\ DiffBase(PatchOf(B, f)) = OnHead(f)
  <2> DEFINE p == PatchOf(B, f)
  <2>1. p \in Patch /\ p.file = f /\ f \in Files
    BY BatchPatch
  <2>2. Applicable(p, OnHead(f)) /\ tree[f] = Applied(p, OnHead(f))
    BY <2>1 DEF FromHead
  <2>3. OnHead(f) \in Content
    BY <2>1 DEF OnHead, Tree
  <2>4. tree[f] # {}
    BY <2>1, <2>2, <2>3, AppliedType
  <2>5. DiffBase(p) = OnHead(f)
    BY <2>1, <2>2, <2>4 DEF DiffBase, Applicable
  <2>6. Prepared(p) = tree[f]
    BY <2>1, <2>2, <2>4, <2>5 DEF Prepared, Trusted
  <2> QED
    BY <2>1, <2>5, <2>6
<1>2. \A f \in Files : PreparedTree(B)[f] = tree[f]
  BY <1>1 DEF PreparedTree
<1>3. PreparedTree(B) = tree
  BY <1>2 DEF PreparedTree, Tree
<1> QED
  BY <1>1, <1>3 DEF DiffOf

\* A run starts undisturbed on a clean tree only.
LEMMA SoloStart ==
  ASSUME TypeOK, Fresh, NEW r \in Runs, Start(r), r \in alone' PROVE Solo(r)'
<1>1. index = tip[head] /\ tree = tip[head]
  BY DEF Start
<1>2. pc'[r] = "developer" /\ lock' = r /\ outcome'[r] = "None"
  BY DEF Start, Enter, TypeOK, Fresh
<1> QED
  BY <1>1, <1>2 DEF Start, git, Solo, First

\* Before the diff is prepared: writing files stages nothing.
LEMMA SoloWrites ==
  ASSUME Inv, Fresh, NEW r \in alone, Solo(r),
         \/ Develop(r) \/ DevelopRefused(r)
         \/ ReviseUnwritten(r) \/ ReviseWritten(r)
  PROVE  Solo(r)'
<1>0. /\ TypeOK /\ r \in Runs /\ st[r] \in State
      /\ pc[r] \in {"developer", "revision"} /\ lock = r
  BY DEF Inv, TypeOK, Executing, Develop, DevelopRefused, ReviseUnwritten, ReviseWritten
<1>1. UNCHANGED <<tip, head, index>>
  BY DEF Develop, DevelopRefused, ReviseUnwritten, ReviseWritten, WriteToDisk, git
<1>2. /\ pc'[r] \in {"qa", "revision", "ended"} /\ lock' \in {r, "free"}
      /\ outcome'[r] \in {"None", "FAILED"}
  BY <1>0 DEF Develop, DevelopRefused, ReviseUnwritten, ReviseWritten, Goto, End,
     TypeOK, Fresh
<1>3. pc[r] # "ended" /\ index' = tip'[head']
  BY <1>0, <1>1 DEF Solo
<1>4. CASE Develop(r)
  <2>1. tree = tip[head]
    BY <1>4 DEF Solo, First, Develop
  <2>2. PICK B \in Batches : AllApplicable(B) /\ WriteToDisk(r, B, B, 0)
    BY <1>4 DEF Develop
  <2>3. st'[r].patches = B
    BY <1>0, <2>2 DEF WriteToDisk, TypeOK, State
  <2>4. ASSUME NEW f \in FilesOf(B)
        PROVE  Applicable(PatchOf(B, f), OnHead(f))
    BY <2>1, <2>2, BatchPatch DEF AllApplicable, OnHead
  <2>5. FromHead(B)'
    BY <1>1, <2>1, <2>2, <2>4 DEF FromHead, WriteToDisk, Written, OnHead
  <2> QED
    BY <1>2, <1>3, <1>4, <2>3, <2>5 DEF Solo, First, Develop, Goto, TypeOK
<1>5. CASE DevelopRefused(r)
  <2>1. pc'[r] \in {"revision", "ended"}
    BY <1>0, <1>5 DEF DevelopRefused, Goto, End, TypeOK
  <2> QED
    BY <1>2, <1>3, <2>1 DEF Solo, First
<1>6. CASE ReviseUnwritten(r) \/ ReviseWritten(r)
  <2>1. st'[r].revisions = st[r].revisions + 1 /\ pc'[r] = "qa"
    <3>1. CASE ReviseUnwritten(r)
      <4>1. PICK B : st' = [st EXCEPT ![r].patches = B, ![r].revisions = @ + 1]
        BY <3>1 DEF ReviseUnwritten
      <4>2. st \in [Runs -> State]
        BY <1>0 DEF TypeOK
      <4>3. st'[r].revisions = st[r].revisions + 1
        BY <1>0, <4>1, <4>2 DEF State
      <4>4. pc'[r] = "qa"
        BY <1>0, <3>1 DEF ReviseUnwritten, Goto, TypeOK
      <4> QED
        BY <4>3, <4>4
    <3>2. CASE ReviseWritten(r)
      <4>1. PICK P : st' = [st EXCEPT ![r].patches = P,
                                      ![r].revisions = st[r].revisions + 1]
        BY <3>2 DEF ReviseWritten, WriteToDisk
      <4> QED
        BY <1>0, <3>2, <4>1 DEF ReviseWritten, Goto, TypeOK, State
    <3> QED
      BY <1>6, <3>1, <3>2
  <2>2. st[r].revisions \in Nat
    BY <1>0, MaxRevisionsAssumption DEF State
  <2> QED
    BY <1>2, <1>3, <2>1, <2>2 DEF Solo
<1> QED
  BY <1>4, <1>5, <1>6

\* QA sends the tree as it is on its way to git_prepare.
LEMMA SoloQa ==
  ASSUME Inv, Fresh, NEW r \in alone, Solo(r), Qa(r) PROVE Solo(r)'
<1>0. /\ TypeOK /\ r \in Runs /\ st[r] \in State /\ lock = r
      /\ UNCHANGED git /\ index = tip[head]
  BY DEF Inv, TypeOK, Executing, Qa, Solo
<1>1. /\ st'[r].patches = st[r].patches /\ st'[r].revisions = st[r].revisions
      /\ pc'[r] \in {"git_prepare", "revision", "ended"}
      /\ lock' \in {r, "free"} /\ outcome'[r] \in {"None", "FAILED"}
  BY <1>0 DEF Qa, Goto, End, TypeOK, State, Fresh
<1>2. st[r].revisions = 0 => FromHead(st[r].patches)
  BY DEF Qa, Solo, First
<1>3. st'[r].revisions = 0 => FromHead(st[r].patches)'
  BY <1>0, <1>1, <1>2 DEF FromHead, OnHead, git
<1> QED
  BY <1>0, <1>1, <1>3 DEF Solo, First, git

\* The diff is made on the run's own new branch.
LEMMA SoloPrepares ==
  ASSUME Inv, Fresh, NEW r \in alone, Solo(r),
         GitPrepareNothing(r) \/ GitPrepare(r) \/ GitPrepareFails(r)
  PROVE  Solo(r)'
<1>0. /\ TypeOK /\ r \in Runs /\ st[r] \in State /\ lock = r
      /\ index = tip[head] /\ head \in DOMAIN tip
  BY DEF Inv, TypeOK, Executing, GitPrepareNothing, GitPrepare, GitPrepareFails, Solo
<1>1. /\ pc'[r] = "policy" /\ lock' = r /\ outcome'[r] = "None"
  BY <1>0 DEF GitPrepareNothing, GitPrepare, GitPrepareFails, Goto, TypeOK, Fresh
<1>2. CASE GitPrepareNothing(r) \/ GitPrepareFails(r)
  <2>1. st'[r].diff = Empty
    BY <1>0, <1>2 DEF GitPrepareNothing, GitPrepareFails, TypeOK, State
  <2>2. IsNoOp(st'[r].diff)
    BY <2>1 DEF IsNoOp, Changed, Empty
  <2>3. index' = tip'[head']
    BY <1>0, <1>2 DEF GitPrepareNothing, GitPrepareFails, Branch, git
  <2> QED
    BY <1>1, <2>2, <2>3 DEF Solo, First
<1>3. CASE GitPrepare(r)
  <2> DEFINE B == st[r].patches
  <2>1. /\ st'[r].diff = DiffOf(B) /\ st'[r].tested = st[r].tested
        /\ st'[r].revisions = st[r].revisions
    BY <1>0, <1>3 DEF GitPrepare, TypeOK, State
  <2>2. head' = r /\ tip'[r] = tip[head] /\ index' = tip'[head']
    BY <1>0, <1>3 DEF GitPrepare, Branch
  <2>3. CASE st[r].revisions # 0
    BY <1>1, <2>1, <2>2, <2>3 DEF Solo
  <2>4. CASE st[r].revisions = 0
    <3>1. /\ B \in Batches /\ tree \in Tree /\ tip[head] \in Tree
          /\ FromHead(B) /\ st[r].tested = tree
      BY <1>0, <1>3, <2>4 DEF TypeOK, State, Solo, First, Inv, RunInv, GitPrepare
    <3>2. tree' = tree
      BY <1>3, <3>1, FirstPrepared DEF GitPrepare
    <3>3. \A f \in FilesOf(B) : DiffOf(B)[f] = <<OnHead(f)', tree'[f]>>
      BY <2>2, <3>1, <3>2, FirstPrepared DEF OnHead
    <3>4. st'[r].diff = DiffOnDisk(r)'
      BY <2>1, <3>3 DEF DiffOnDisk, DiffOf
    <3>5. \A f \in Files \ FilesOf(B) : tree'[f] = OnHead(f)'
      BY <2>2, <3>1, <3>2 DEF FromHead, OnHead
    <3>6. AsShown(r)'
      BY <2>1, <3>1, <3>2, <3>4, <3>5 DEF AsShown, DiffOf
    <3> QED
      BY <1>1, <2>1, <2>2, <3>6 DEF Solo, First
  <2> QED
    BY <2>3, <2>4
<1> QED
  BY <1>2, <1>3

\* The approval and the drift check write nothing, and the check finds no drift.
LEMMA SoloWaits ==
  ASSUME Inv, Fresh, NEW r \in alone, Solo(r), r \in alone',
         \/ PolicyPermits(r) \/ PolicyRefuses(r)
         \/ Resume(r, "git_commit") \/ Resume(r, "cleanup") \/ VerifyDrift(r)
  PROVE  Solo(r)'
<1>0. TypeOK /\ r \in Runs /\ UNCHANGED <<git, st>>
  BY DEF Inv, TypeOK, PolicyPermits, PolicyRefuses, Resume, VerifyDrift
<1>1. /\ pc[r] \in {"policy", "waiting", "git_commit"}
      /\ pc'[r] \in {"waiting", "git_commit", "stage", "cleanup", "ended"}
      /\ lock' \in {r, "free"}
      /\ pc'[r] \in {"waiting", "git_commit", "stage"} => ~IsNoOp(st[r].diff)
  BY <1>0 DEF PolicyPermits, PolicyRefuses, Resume, VerifyDrift, Goto, Enter, Pause,
     End, TypeOK, Solo
<1>2. st[r].revisions = 0 /\ ~IsNoOp(st[r].diff) => AsShown(r)
  BY <1>1 DEF Solo, First
<1>3. AsShown(r) => AsShown(r)'
  BY <1>0 DEF AsShown, DiffOnDisk, OnHead, git
<1>4. AsShown(r) => NoDrift(r)
  BY DEF AsShown, NoDrift
<1>5. st[r].revisions = 0 => outcome'[r] # "PATCH_HASH_MISMATCH"
  BY <1>0, <1>1, <1>2, <1>4 DEF PolicyPermits, PolicyRefuses, Resume, VerifyDrift, Goto,
     Enter, Pause, End, TypeOK, Fresh, Solo
<1> QED
  BY <1>0, <1>1, <1>2, <1>3, <1>5 DEF Solo, First, git

\* What an ended run leaves behind concerns no one.
LEMMA SoloEnds ==
  ASSUME TypeOK, Fresh, NEW r \in alone, Solo(r),
         Fail(r) \/ StageAndCommit(r) \/ Cleanup(r)
  PROVE  Solo(r)'
<1>1. /\ r \in Runs /\ pc'[r] = "ended" /\ lock' \in {r, "free"}
      /\ outcome'[r] # "PATCH_HASH_MISMATCH"
  BY DEF Fail, StageAndCommit, Cleanup, End, TypeOK, Solo
<1> QED
  BY <1>1 DEF Solo, First

\* Solitude is kept by every step.
LEMMA SoloStep == SoloInv /\ [Next]_vars => SoloInv'
<1> SUFFICES ASSUME SoloInv, [Next]_vars PROVE SoloInv'
  OBVIOUS
<1>0. Inv /\ Inv' /\ TypeOK /\ Fresh /\ \A r \in alone : r \in Runs /\ Solo(r)
  BY InvStep DEF SoloInv, Inv, TypeOK
<1>1. CASE UNCHANGED vars
  <2>1. Fresh'
    BY <1>0, <1>1 DEF Fresh, vars
  <2>2. ASSUME NEW r \in alone' PROVE Solo(r)'
    BY <1>0, <1>1, <2>2 DEF vars, git, Solo, First, FromHead, AsShown, OnHead,
       DiffOnDisk
  <2> QED
    BY <1>0, <2>1, <2>2 DEF SoloInv
<1>2. ASSUME NEW q \in Runs, RunStep(q) PROVE SoloInv'
  <2>1. Fresh'
    BY <1>0, <1>2, FreshStep
  <2>2. ASSUME NEW r \in alone' PROVE Solo(r)'
    <3>1. CASE r # q
      <4>1. ~Start(q)
        BY <2>2, <3>1 DEF Start
      <4>2. r \in alone
        BY <1>2, <2>2, <4>1 DEF RunStep, Fail, Develop, DevelopRefused, Qa,
           ReviseUnwritten, ReviseWritten, GitPrepareNothing, GitPrepare,
           GitPrepareFails, PolicyPermits, PolicyRefuses, Resume, VerifyDrift,
           StageAndCommit, Cleanup, Goto, Pause, End
      <4> QED
        BY <1>0, <1>2, <2>2, <3>1, <4>2, CompanyEndsSolitude
    <3>2. CASE r = q /\ Start(q)
      BY <1>0, <2>2, <3>2, SoloStart
    <3>3. CASE r = q /\ ~Start(q)
      <4>1. r \in alone
        BY <1>2, <2>2, <3>3 DEF RunStep, Fail, Develop, DevelopRefused, Qa,
           ReviseUnwritten, ReviseWritten, GitPrepareNothing, GitPrepare,
           GitPrepareFails, PolicyPermits, PolicyRefuses, Resume, VerifyDrift,
           StageAndCommit, Cleanup, Goto, Pause, End
      <4> QED
        BY <1>0, <1>2, <2>2, <3>3, <4>1, SoloWrites, SoloQa, SoloPrepares, SoloWaits,
           SoloEnds DEF RunStep
    <3> QED
      BY <3>1, <3>2, <3>3
  <2> QED
    BY <1>0, <2>1, <2>2 DEF SoloInv
<1> QED
  BY <1>1, <1>2 DEF Next, RunStep

\* The invariant of undisturbed runs holds of the freshly cloned workspace.
LEMMA SoloInit == Init => SoloInv
BY InvInit DEF SoloInv, Fresh, Init

(***************************************************************************)
(* A run that nobody disturbed and whose first patch passed QA commits     *)
(* exactly the approved diff, on its own branch, from the files QA tested, *)
(* and is never refused as drift (qa_node, git_prepare_node,               *)
(* git_commit_node).                                                       *)
(***************************************************************************)
THEOREM UndisturbedCommitsItsDiff == Spec => UndisturbedIsExact
<1>1. ASSUME SoloInv, SoloInv', Next, NEW r \in Runs, Undisturbed(r)
      PROVE  outcome'[r] # "PATCH_HASH_MISMATCH"
  <2>1. r \in alone /\ First(r)
    BY <1>1 DEF Undisturbed, SoloInv, Solo
  <2>2. PICK q \in Runs : RunStep(q)
    BY <1>1 DEF Next, RunStep
  <2>3. CASE q = r /\ VerifyDrift(r)
    <3>1. AsShown(r)
      BY <1>1, <2>1, <2>3 DEF VerifyDrift, SoloInv, Solo, First
    <3>2. NoDrift(r)
      BY <3>1 DEF AsShown, NoDrift
    <3> QED
      BY <2>1, <2>3, <3>2 DEF VerifyDrift, Goto, First
  <2>4. CASE q # r
    <3>1. outcome'[r] = outcome[r]
      BY <1>1, <2>2, <2>4, OneMoves DEF SoloInv, Inv, TypeOK
    <3> QED
      BY <2>1, <3>1 DEF First
  <2>5. CASE q = r /\ ~VerifyDrift(r)
    <3>1. outcome' = outcome \/ \E o \in Outcomes \ {"PATCH_HASH_MISMATCH"} :
            outcome' = [outcome EXCEPT ![r] = o]
      BY <2>2, <2>5 DEF RunStep, Start, Fail, Develop, DevelopRefused, Qa,
         ReviseUnwritten, ReviseWritten, GitPrepareNothing, GitPrepare,
         GitPrepareFails, PolicyPermits, PolicyRefuses, Resume, StageAndCommit,
         Cleanup, Goto, Enter, Pause, End, Outcomes
    <3>2. outcome \in [Runs -> Outcomes]
      BY <1>1 DEF SoloInv, Inv, TypeOK
    <3> QED
      BY <2>1, <3>1, <3>2 DEF First
  <2> QED
    BY <2>3, <2>4, <2>5
<1>2. ASSUME SoloInv, Next, NEW r \in Runs, Undisturbed(r), Lands(r)
      PROVE  /\ CommittedChange = Text(st[r].diff)
             /\ head' = r /\ tree' = st[r].tested
  <2>1. StageAndCommit(r)
    BY <1>2, OnlyCommitLeavesStage DEF SoloInv, Inv, Lands
  <2>2. head = r /\ AsShown(r) /\ TypeOK
    BY <1>2 DEF Undisturbed, SoloInv, Solo, First, Lands, Inv
  <2>3. head' = r /\ tree' = TreeOn(r)
    BY <2>1, <2>2 DEF StageAndCommit, Target
  <2>4. tree' = tree
    BY <2>2, <2>3 DEF TreeOn, Uncommitted, OnHead, TypeOK, Tree
  <2>5. tip' = [tip EXCEPT ![r] = tree]
    <3>1. outcome'[r] = "COMMITTED" /\ outcome \in [Runs -> Outcomes]
      BY <1>2, <2>2 DEF Lands, TypeOK
    <3> QED
      BY <2>1, <2>3, <2>4, <3>1 DEF StageAndCommit, End
  <2>6. /\ tip[r] = tip[head] /\ tip'[r] = tree
        /\ st[r].diff = [f \in DOMAIN st[r].diff |-> <<OnHead(f), tree[f]>>]
        /\ \A f \in Files \ DOMAIN st[r].diff : tree[f] = OnHead(f)
        /\ DOMAIN st[r].diff \subseteq Files
    <3>1. st[r] \in State
      BY <1>2, <2>2 DEF TypeOK
    <3>2. DOMAIN st[r].diff \subseteq Files
      BY <3>1 DEF State, Partial
    <3> QED
      BY <2>2, <2>5, <3>2 DEF AsShown, DiffOnDisk, TypeOK
  <2> DEFINE full == [f \in Files |-> <<tip[r][f], tree[f]>>]
  <2>7. Changed(full) = Changed(st[r].diff)
    BY <2>2, <2>6 DEF Changed, OnHead
  <2>8. Text(full) = Text(st[r].diff)
    BY <2>2, <2>6, <2>7 DEF Text, Changed, OnHead
  <2>9. CommittedChange = Text(full)
    BY <2>3, <2>6 DEF CommittedChange
  <2> QED
    BY <2>2, <2>3, <2>4, <2>8, <2>9 DEF AsShown
<1>3. SoloInv /\ SoloInv' /\ [Next]_vars =>
        [\A r \in Runs : Undisturbed(r) =>
           /\ Lands(r) => /\ CommittedChange = Text(st[r].diff)
                          /\ head' = r /\ tree' = st[r].tested
           /\ outcome'[r] # "PATCH_HASH_MISMATCH"]_vars
  BY <1>1, <1>2
<1> QED
  BY <1>3, SoloInit, SoloStep, PTL DEF Spec, UndisturbedIsExact

(***************************************************************************)
(* A rejected or blocked run that met no other, from a branch that started *)
(* where main is, leaves main checked out, a clean tree and no branch      *)
(* (cleanup_branch): with nothing staged git accepts the checkout.         *)
(***************************************************************************)
THEOREM RejectedLeavesNoTrace == Spec => AloneIsRestored
<1>1. ASSUME SoloInv, Next, NEW r \in alone, Discards(r), tip[r] = tip["main"]
      PROVE  head' = "main" /\ tree' = tip'["main"] /\ r \notin DOMAIN tip'
  <2>1. /\ r \in Runs /\ Solo(r) /\ TypeOK /\ Inv
        /\ pc[r] = "cleanup" /\ outcome'[r] = "CLEANED" /\ ~IsNoOp(st[r].diff)
    BY <1>1 DEF SoloInv, Inv, TypeOK, Discards
  <2>2. head = r /\ index = tip[head]
    BY <2>1 DEF Solo
  <2>3. Cleanup(r)
    <3>1. outcome[r] = "None"
      BY <1>1, <2>1 DEF SoloInv, Fresh
    <3>2. PICK q \in Runs : RunStep(q)
      BY <1>1 DEF Next, RunStep
    <3>3. q = r
      BY <2>1, <3>1, <3>2, OneMoves DEF TypeOK
    <3> QED
      BY <2>1, <3>1, <3>2, <3>3 DEF RunStep, Start, Fail, Develop, DevelopRefused, Qa,
         ReviseUnwritten, ReviseWritten, GitPrepareNothing, GitPrepare,
         GitPrepareFails, PolicyPermits, PolicyRefuses, Resume, VerifyDrift,
         StageAndCommit, End, TypeOK
  <2>4. \A f \in Files : ~Staged(f) /\ tip["main"][f] = OnHead(f)
    BY <1>1, <2>2 DEF Staged, OnHead
  <2>5. MaySwitch("main")
    BY <2>4 DEF MaySwitch
  <2>6. IndexOn("main") = tip["main"]
    BY <2>1, <2>4 DEF IndexOn, TypeOK, Tree
  <2>7. st[r].diff # Empty
    BY <2>1 DEF IsNoOp, Changed, Empty
  <2>8. /\ head' = "main" /\ tree' = tip["main"]
        /\ tip' = [b \in DOMAIN tip \ {r} |-> tip[b]]
    BY <2>3, <2>5, <2>6, <2>7 DEF Cleanup, Discarded
  <2> QED
    BY <2>1, <2>8, RunsAssumption DEF TypeOK
<1>2. SoloInv /\ [Next]_vars =>
        [\A r \in alone : Discards(r) /\ tip[r] = tip["main"] =>
           head' = "main" /\ tree' = tip'["main"] /\ r \notin DOMAIN tip']_vars
  BY <1>1
<1> QED
  BY <1>2, SoloInit, SoloStep, PTL DEF Spec, AloneIsRestored
=============================================================================
