------------------------- MODULE RunLifecycleProofs -------------------------
(***************************************************************************)
(* The safety of RunLifecycle for any number of resume requests and of     *)
(* crashes: its type invariant, the gate in front of the commit, the       *)
(* reality of reported pauses, the truth of recorded commits (for a single *)
(* decision), the refinement of CommitGate, and that every step of a       *)
(* thread brings it nearer to its return.                                  *)
(*                                                                         *)
(* The inductive invariant says that the newest checkpoint and every       *)
(* executor's loop stand, each on its own, at a consistent point of a walk *)
(* (WalkInv); a resume request past its guard has a checkpoint to load;    *)
(* and CANCELLED, in the row, in a copy of it or in a thread's unwinding,  *)
(* is never there without the cancellation flag of the row.                *)
(***************************************************************************)
EXTENDS RunLifecycle, AgentGraphProofs

USE DEF END, NoNode, Nodes, Threads

CkptInv == ckpt.next # NoNode => WalkInv(ckpt.next, ckpt.vals)

RowInv == row.status = "CANCELLED" => row.cancelReq

ThreadInv(t) ==
  /\ pc[t] \in {"node", "final", "commit"} => WalkInv(loop[t].node, loop[t].vals)
  /\ pc[t] \in {"final", "commit"} => loop[t].node = "git_commit"
  /\ pc[t] = "save" => WalkInv(END, loop[t].vals)
  /\ t \in Reviewers => intent[t] # "started"
  /\ intent[t] = "decide" \/ pc[t] = "activate" => ckpt.next # NoNode
  /\ t \in Reviewers /\ pc[t] = "lock" => ckpt.next # NoNode
  /\ copy[t].status = "CANCELLED" => row.cancelReq
  /\ pc[t] = "cancelled" => row.cancelReq

Inv == TypeOK /\ CkptInv /\ RowInv /\ \A t \in Threads : ThreadInv(t)

-----------------------------------------------------------------------------
(* The operators on the row, the checkpoint and the thread's locals.       *)

\* The values a thread, a row and a checkpoint start from are well typed.
LEMMA NoValues ==
  /\ NewRow("NONE") \in Row /\ NewRow("QUEUED") \in Row
  /\ NoDecision \in Decision /\ NewAgentState \in AgentState
  /\ NoLoop \in Loop
  BY DEF NewRow, Row, RowStatuses, Terminal, NoDecision, Decision,
         NewAgentState, AgentState, NotRouted, ApprovalStatuses, NoLoop, Loop

\* Upserts, hook edits and cancellations keep a row a row, never lower its
\* cancellation flag, and write CANCELLED only on top of it or from a copy.
LEMMA RowOperators ==
  ASSUME NEW r \in Row, NEW old \in Row, NEW v \in AgentState,
         NEW d \in Decision, NEW i
  PROVE  /\ Merge(r, old) \in Row
         /\ Merge(r, old).status = r.status
         /\ old.cancelReq => Merge(r, old).cancelReq
         /\ Edited(i, r, v, d) \in Row
         /\ Edited(i, r, v, d).status = "CANCELLED" => r.status = "CANCELLED"
         /\ RequestCancellation(r) \in Row
         /\ r.cancelReq => RequestCancellation(r).cancelReq
         /\ RequestCancellation(r).status = "CANCELLED"
              => r.status = "CANCELLED" \/ RequestCancellation(r).cancelReq
         /\ MarkCancelled(r) \in Row
         /\ MarkCancelled(r).cancelReq = r.cancelReq
<1>1. Merge(r, old) \in Row
  BY DEF Merge, Row
<1>2. Merge(r, old).status = r.status /\ (old.cancelReq => Merge(r, old).cancelReq)
  BY DEF Merge
<1>3. /\ Edited(i, r, v, d) \in Row
      /\ Edited(i, r, v, d).status = "CANCELLED" => r.status = "CANCELLED"
  <2>1. CASE Edited(i, r, v, d) = r
    BY <2>1
  <2>2. CASE \E s \in {"RUNNING", "WAITING_APPROVAL", "FAILED"} :
               Edited(i, r, v, d) = [r EXCEPT !.status = s]
    BY <2>2 DEF Row, RowStatuses, Terminal
  <2>3. CASE \E a \in {"APPROVED", "REJECTED"} :
               Edited(i, r, v, d) = [r EXCEPT !.decision = a]
    BY <2>3 DEF Row
  <2>4. CASE Edited(i, r, v, d) =
               [r EXCEPT !.status = "COMPLETED", !.commit = v.status]
    BY <2>4 DEF Row, RowStatuses, Terminal, AgentState
  <2>5. CASE Edited(i, r, v, d) = [r EXCEPT !.commit = "COMMIT_FAILED"]
    BY <2>5 DEF Row, ApprovalStatuses
  <2> QED
    BY <2>1, <2>2, <2>3, <2>4, <2>5 DEF Edited
<1>4. /\ RequestCancellation(r) \in Row
      /\ r.cancelReq => RequestCancellation(r).cancelReq
      /\ RequestCancellation(r).status = "CANCELLED"
           => r.status = "CANCELLED" \/ RequestCancellation(r).cancelReq
  <2>1. CASE RequestCancellation(r) = r
    BY <2>1
  <2>2. CASE \E s \in {"CANCELLED", "CANCELLING"} :
               RequestCancellation(r) = [r EXCEPT !.cancelReq = TRUE, !.status = s]
    BY <2>2 DEF Row, RowStatuses, Terminal
  <2> QED
    BY <2>1, <2>2 DEF RequestCancellation
<1>5. MarkCancelled(r) \in Row /\ MarkCancelled(r).cancelReq = r.cancelReq
  BY DEF MarkCancelled, Row, RowStatuses, Terminal
<1> QED
  BY <1>1, <1>2, <1>3, <1>4, <1>5

\* The invariant holds before anybody has asked for the run.
LEMMA InvInit == Init => Inv
<1> SUFFICES ASSUME Init PROVE Inv
  OBVIOUS
<1>1. TypeOK
  <2>1. ckpt \in Checkpoint
    BY NoValues DEF Init, NewCheckpoint, Checkpoint
  <2>2. pc \in [Threads -> Pcs] /\ intent \in [Threads -> Intents]
    BY DEF Init, Pcs, Intents
  <2>3. copy \in [Threads -> Row] /\ decision \in [Threads -> Decision]
    BY NoValues DEF Init
  <2>4. loop \in [Threads -> Loop] /\ latest \subseteq Threads
    BY NoValues DEF Init
  <2>5. row \in Row /\ active \in BOOLEAN /\ dirty \in BOOLEAN /\ committed \in BOOLEAN
    BY NoValues DEF Init
  <2>6. crashes \in 0..MaxCrashes
    BY MaxCrashesAssumption DEF Init
  <2> QED
    BY <2>1, <2>2, <2>3, <2>4, <2>5, <2>6 DEF TypeOK
<1>2. CkptInv /\ RowInv
  BY DEF Init, CkptInv, RowInv, NewCheckpoint, NewRow
<1>3. ASSUME NEW t \in Threads PROVE ThreadInv(t)
  <2>1. pc[t] = "new" /\ intent[t] = "none" /\ copy[t].status = "NONE"
    BY DEF Init, NewRow
  <2> QED
    BY <2>1 DEF ThreadInv
<1> QED
  BY <1>1, <1>2, <1>3 DEF Inv

-----------------------------------------------------------------------------
(* What the steps of one thread leave alone.                               *)

\* A move of t's program counter disturbs no other thread's.
LEMMA Moves ==
  ASSUME TypeOK, NEW t \in Threads, NEW p \in Pcs, Goto(t, p)
  PROVE  /\ pc' \in [Threads -> Pcs] /\ pc'[t] = p
         /\ \A u \in Threads \ {t} : pc'[u] = pc[u]
  BY DEF TypeOK, Goto

\* Entering a collector hook moves t and records which hook it is in.
LEMMA Enters ==
  ASSUME TypeOK, NEW t \in Threads, NEW i \in Intents, Record(t, i)
  PROVE  /\ pc' \in [Threads -> Pcs] /\ pc'[t] = "read"
         /\ intent' \in [Threads -> Intents] /\ intent'[t] = i
         /\ \A u \in Threads \ {t} : pc'[u] = pc[u] /\ intent'[u] = intent[u]
  BY DEF TypeOK, Record, Goto, Pcs

\* A thread that returns forgets all it knew of the run.
LEMMA Leaves ==
  ASSUME TypeOK, NEW t \in Threads, Return(t)
  PROVE  /\ pc' \in [Threads -> Pcs] /\ intent' \in [Threads -> Intents]
         /\ copy' \in [Threads -> Row] /\ decision' \in [Threads -> Decision]
         /\ loop' \in [Threads -> Loop] /\ latest' \subseteq Threads
         /\ pc'[t] = "done" /\ intent'[t] = "none" /\ copy'[t] = NewRow("NONE")
         /\ \A u \in Threads \ {t} :
              /\ pc'[u] = pc[u] /\ intent'[u] = intent[u]
              /\ copy'[u] = copy[u] /\ loop'[u] = loop[u]
<1>1. pc' \in [Threads -> Pcs] /\ intent' \in [Threads -> Intents]
  BY DEF TypeOK, Return, Goto, Pcs, Intents
<1>2. copy' \in [Threads -> Row] /\ decision' \in [Threads -> Decision]
  BY NoValues DEF TypeOK, Return
<1>3. loop' \in [Threads -> Loop] /\ latest' \subseteq Threads
  BY NoValues DEF TypeOK, Return
<1>4. pc'[t] = "done" /\ intent'[t] = "none" /\ copy'[t] = NewRow("NONE")
  BY DEF TypeOK, Return, Goto
<1>5. ASSUME NEW u \in Threads \ {t}
      PROVE  /\ pc'[u] = pc[u] /\ intent'[u] = intent[u]
             /\ copy'[u] = copy[u] /\ loop'[u] = loop[u]
  BY DEF TypeOK, Return, Goto
<1> QED
  BY <1>1, <1>2, <1>3, <1>4, <1>5

\* A checkpoint of a consistent walk is one, and t goes on from it.
LEMMA Stores ==
  ASSUME TypeOK, NEW t \in Threads, NEW n, NEW v, WalkInv(n, v), Save(t, n, v)
  PROVE  /\ ckpt' \in Checkpoint /\ CkptInv' /\ ckpt'.next # NoNode
         /\ latest' \subseteq Threads /\ loop' \in [Threads -> Loop]
         /\ pc' \in [Threads -> Pcs] /\ pc'[t] \in {"derive", "node"}
         /\ WalkInv(loop'[t].node, loop'[t].vals)
         /\ \A u \in Threads \ {t} : pc'[u] = pc[u] /\ loop'[u] = loop[u]
<1>1. n \in Nodes \cup {END} /\ v \in AgentState
  BY DEF WalkInv
<1>2. ckpt' \in Checkpoint /\ ckpt'.next = n /\ ckpt'.vals = v
  BY <1>1 DEF Save, NewCheckpoint, Checkpoint
<1>3. CkptInv'
  BY <1>2 DEF CkptInv
<1>4. [node |-> n, vals |-> v, resume |-> FALSE] \in Loop
  BY <1>1 DEF Loop
<1>5. /\ loop' \in [Threads -> Loop] /\ loop'[t].node = n /\ loop'[t].vals = v
      /\ \A u \in Threads \ {t} : loop'[u] = loop[u]
  BY <1>4 DEF TypeOK, Save
<1>6. PICK p \in {"derive", "node"} : Goto(t, p)
  BY DEF Save
<1>7. p \in Pcs
  BY DEF Pcs
<1>8. latest' \subseteq Threads
  BY DEF Save
<1> QED
  BY <1>1, <1>2, <1>3, <1>5, <1>6, <1>7, <1>8, Moves

(***************************************************************************)
(* A step of thread t keeps the invariant when it keeps it for t, keeps    *)
(* the types, the checkpoint's walk and the row, and takes neither the     *)
(* checkpoint nor the cancellation flag away from the other threads.       *)
(***************************************************************************)
LEMMA OneThread ==
  ASSUME Inv, NEW t \in Threads,
         TypeOK', CkptInv', RowInv', ThreadInv(t)',
         \A u \in Threads \ {t} :
           /\ pc'[u] = pc[u] /\ intent'[u] = intent[u]
           /\ copy'[u] = copy[u] /\ loop'[u] = loop[u],
         ckpt.next # NoNode => ckpt'.next # NoNode,
         row.cancelReq => row'.cancelReq
  PROVE  Inv'
<1>1. ASSUME NEW u \in Threads \ {t} PROVE ThreadInv(u)'
  BY DEF Inv, ThreadInv
<1> QED
  BY <1>1 DEF Inv

\* A thread may return at any point: whatever else the step does to the row.
LEMMA Returns ==
  ASSUME Inv, NEW t \in Threads, Return(t),
         UNCHANGED <<ckpt, dirty, committed, crashes>>, active' \in BOOLEAN,
         row' \in Row, RowInv', row.cancelReq => row'.cancelReq
  PROVE  Inv'
<1>1. /\ pc' \in [Threads -> Pcs] /\ intent' \in [Threads -> Intents]
      /\ copy' \in [Threads -> Row] /\ decision' \in [Threads -> Decision]
      /\ loop' \in [Threads -> Loop] /\ latest' \subseteq Threads
      /\ pc'[t] = "done" /\ intent'[t] = "none" /\ copy'[t] = NewRow("NONE")
      /\ \A u \in Threads \ {t} :
           /\ pc'[u] = pc[u] /\ intent'[u] = intent[u]
           /\ copy'[u] = copy[u] /\ loop'[u] = loop[u]
  BY Leaves DEF Inv
<1>2. TypeOK'
  BY <1>1 DEF Inv, TypeOK
<1>3. CkptInv'
  BY DEF Inv, CkptInv
<1>4. ThreadInv(t)'
  <2>1. copy'[t].status = "NONE"
    BY <1>1 DEF NewRow
  <2> QED
    BY <1>1, <2>1 DEF ThreadInv
<1> QED
  BY <1>1, <1>2, <1>3, <1>4, OneThread

-----------------------------------------------------------------------------
(* Every action keeps the invariant.                                       *)

\* create_run, start_run and the workspace provisioning.
LEMMA StarterSteps == ASSUME Inv, CreateRun \/ StartRun \/ Provision PROVE Inv'
<1>t. PICK t \in Threads : t = Starter /\ t \notin Reviewers
  BY ThreadsAssumption
<1>q. /\ Merge(NewRow("QUEUED"), row) \in Row
      /\ Merge(NewRow("QUEUED"), row).status # "CANCELLED"
      /\ row.cancelReq => Merge(NewRow("QUEUED"), row).cancelReq
  <2>1. NewRow("QUEUED").status # "CANCELLED"
    BY DEF NewRow
  <2> QED
    BY <2>1, NoValues, RowOperators DEF Inv, TypeOK
<1>1. CASE CreateRun
  <2>1. Goto(t, "queued") /\ "queued" \in Pcs
    BY <1>1, <1>t DEF CreateRun, Pcs
  <2>2. /\ pc' \in [Threads -> Pcs] /\ pc'[t] = "queued"
        /\ \A u \in Threads \ {t} : pc'[u] = pc[u]
    BY <1>t, <2>1, Moves DEF Inv
  <2>3. TypeOK'
    BY <1>1, <1>q, <2>2 DEF Inv, TypeOK, CreateRun, local, worktree
  <2>4. CkptInv' /\ RowInv'
    BY <1>1, <1>q DEF Inv, CkptInv, RowInv, CreateRun
  <2>5. ThreadInv(t)'
    BY <1>1, <1>t, <1>q, <2>2 DEF Inv, ThreadInv, CreateRun, local
  <2> QED
    BY <1>1, <1>t, <1>q, <2>2, <2>3, <2>4, <2>5, OneThread DEF CreateRun, local
<1>2. CASE StartRun
  <2>1. Record(t, "started") /\ "started" \in Intents
    BY <1>2, <1>t DEF StartRun, Intents
  <2>2. /\ pc' \in [Threads -> Pcs] /\ pc'[t] = "read"
        /\ intent' \in [Threads -> Intents] /\ intent'[t] = "started"
        /\ \A u \in Threads \ {t} : pc'[u] = pc[u] /\ intent'[u] = intent[u]
    BY <1>t, <2>1, Enters DEF Inv
  <2>3. TypeOK'
    BY <1>2, <1>q, <2>2 DEF Inv, TypeOK, StartRun, worktree
  <2>4. CkptInv' /\ RowInv'
    BY <1>2, <1>q DEF Inv, CkptInv, RowInv, StartRun
  <2>5. ThreadInv(t)'
    <3>1. UNCHANGED <<copy, loop, ckpt>> /\ (row.cancelReq => row'.cancelReq)
      BY <1>2, <1>q DEF StartRun
    <3> QED
      BY <1>t, <2>2, <3>1 DEF Inv, ThreadInv
  <2> QED
    BY <1>2, <1>t, <1>q, <2>2, <2>3, <2>4, <2>5, OneThread DEF StartRun
<1>3. CASE Provision
  <2>1. CASE Goto(t, "failed") /\ UNCHANGED <<ckpt, loop, latest>>
    <3>1. /\ pc' \in [Threads -> Pcs] /\ pc'[t] = "failed"
          /\ \A u \in Threads \ {t} : pc'[u] = pc[u]
      BY <1>t, <2>1, Moves DEF Inv, Pcs
    <3>2. TypeOK'
      BY <1>3, <2>1, <3>1 DEF Inv, TypeOK, Provision, worktree
    <3>3. CkptInv' /\ RowInv'
      BY <1>3, <2>1 DEF Inv, CkptInv, RowInv, Provision
    <3>4. ThreadInv(t)'
      BY <1>3, <1>t, <2>1, <3>1 DEF Inv, ThreadInv, Provision
    <3> QED
      BY <1>3, <1>t, <2>1, <3>1, <3>2, <3>3, <3>4, OneThread DEF Provision
  <2>2. CASE Save(t, "router", NewAgentState)
    <3>1. /\ ckpt' \in Checkpoint /\ CkptInv' /\ ckpt'.next # NoNode
          /\ latest' \subseteq Threads /\ loop' \in [Threads -> Loop]
          /\ pc' \in [Threads -> Pcs] /\ pc'[t] \in {"derive", "node"}
          /\ WalkInv(loop'[t].node, loop'[t].vals)
          /\ \A u \in Threads \ {t} : pc'[u] = pc[u] /\ loop'[u] = loop[u]
      BY <1>t, <2>2, WalkStart, Stores DEF Inv
    <3>2. TypeOK'
      BY <1>3, <3>1 DEF Inv, TypeOK, Provision, worktree
    <3>3. RowInv'
      BY <1>3 DEF Inv, RowInv, Provision
    <3>4. ThreadInv(t)'
      BY <1>3, <1>t, <3>1 DEF Inv, ThreadInv, Provision
    <3> QED
      BY <1>3, <1>t, <3>1, <3>2, <3>3, <3>4, OneThread DEF Provision
  <2> QED
    BY <1>3, <1>t, <2>1, <2>2 DEF Provision, Save
<1> QED
  BY <1>1, <1>2, <1>3

\* The upsert of a collector hook, however old the copy it writes.
LEMMA Upserts ==
  ASSUME Inv, NEW t \in Threads, CollectorUpsert(t)
  PROVE  row' \in Row /\ RowInv' /\ (row.cancelReq => row'.cancelReq)
<1> DEFINE i == IF intent[t] = "fail_commit" THEN "failed" ELSE intent[t]
           e == Edited(i, copy[t], loop[t].vals, decision[t])
<1>1. /\ row \in Row /\ copy[t] \in Row
      /\ loop[t].vals \in AgentState /\ decision[t] \in Decision
  BY DEF Inv, TypeOK, Loop
<1>2. e \in Row /\ (e.status = "CANCELLED" => copy[t].status = "CANCELLED")
  BY <1>1, RowOperators
<1>3. row' = Merge(e, row)
  BY DEF CollectorUpsert
<1>4. /\ row' \in Row /\ row'.status = e.status
      /\ row.cancelReq => row'.cancelReq
  <2> HIDE DEF e
  <2> QED
    BY <1>1, <1>2, <1>3, RowOperators
<1>5. copy[t].status = "CANCELLED" => row.cancelReq
  BY DEF Inv, ThreadInv
<1> QED
  BY <1>2, <1>4, <1>5 DEF RowInv

\* The reads, upserts and continuations of the collector hooks.
LEMMA HookSteps ==
  ASSUME Inv, NEW t \in Threads,
         CollectorRead(t) \/ CollectorContinue(t) \/ CollectorReturn(t)
  PROVE  Inv'
<1>1. CASE CollectorRead(t)
  <2>1. /\ pc' \in [Threads -> Pcs] /\ pc'[t] = "write"
        /\ \A u \in Threads \ {t} : pc'[u] = pc[u]
    BY <1>1, Moves DEF Inv, CollectorRead, Pcs
  <2>2. /\ copy' \in [Threads -> Row] /\ copy'[t] = row
        /\ \A u \in Threads \ {t} : copy'[u] = copy[u]
    BY <1>1 DEF Inv, TypeOK, CollectorRead
  <2>3. TypeOK'
    BY <1>1, <2>1, <2>2 DEF Inv, TypeOK, CollectorRead, worktree
  <2>4. CkptInv' /\ RowInv'
    BY <1>1 DEF Inv, CkptInv, RowInv, CollectorRead
  <2>5. ThreadInv(t)'
    BY <1>1, <2>1, <2>2 DEF Inv, ThreadInv, RowInv, CollectorRead
  <2> QED
    BY <1>1, <2>1, <2>2, <2>3, <2>4, <2>5, OneThread DEF CollectorRead
<1>2. CASE CollectorContinue(t)
  <2>1. row' \in Row /\ RowInv' /\ (row.cancelReq => row'.cancelReq)
    BY <1>2, Upserts DEF CollectorContinue
  <2>2. PICK p \in {"lock", "activate", "read"} :
          /\ Goto(t, p)
          /\ p = "lock" => intent[t] = "started"
          /\ p = "activate" => intent[t] = "decide"
    BY <1>2 DEF CollectorContinue
  <2>3. /\ pc' \in [Threads -> Pcs] /\ pc'[t] = p
        /\ \A u \in Threads \ {t} : pc'[u] = pc[u]
    BY <2>2, Moves DEF Inv, Pcs
  <2>4. /\ intent' \in [Threads -> Intents]
        /\ intent'[t] \in {"none", "commit_failed"}
        /\ \A u \in Threads \ {t} : intent'[u] = intent[u]
    BY <1>2 DEF Inv, TypeOK, CollectorContinue, Intents
  <2>5. /\ copy' \in [Threads -> Row] /\ copy'[t].status = "NONE"
        /\ \A u \in Threads \ {t} : copy'[u] = copy[u]
    <3>1. NewRow("NONE").status = "NONE"
      BY DEF NewRow
    <3> QED
      BY <1>2, <3>1, NoValues DEF Inv, TypeOK, CollectorContinue
  <2>6. TypeOK'
    BY <1>2, <2>1, <2>3, <2>4, <2>5 DEF Inv, TypeOK, CollectorContinue, worktree
  <2>7. CkptInv'
    BY <1>2 DEF Inv, CkptInv, CollectorContinue
  <2>8. ThreadInv(t)'
    <3>1. /\ t \in Reviewers => intent[t] # "started"
          /\ intent[t] = "decide" => ckpt.next # NoNode
      BY DEF Inv, ThreadInv
    <3> QED
      BY <1>2, <2>2, <2>3, <2>4, <2>5, <3>1 DEF ThreadInv, CollectorContinue
  <2> QED
    BY <1>2, <2>1, <2>3, <2>4, <2>5, <2>6, <2>7, <2>8, OneThread
    DEF CollectorContinue
<1>3. CASE CollectorReturn(t)
  <2>1. row' \in Row /\ RowInv' /\ (row.cancelReq => row'.cancelReq)
    BY <1>3, Upserts DEF CollectorReturn
  <2>2. UNCHANGED <<ckpt, active, dirty, committed, crashes>> /\ Return(t)
    BY <1>3 DEF CollectorReturn, worktree
  <2> QED
    BY <2>1, <2>2, Returns DEF Inv, TypeOK
<1> QED
  BY <1>1, <1>2, <1>3

\* A move of t alone, whatever it does to the decision and to the marks on the
\* checkpoint, needs only t's own part of the invariant at its new place.
LEMMA OnlyMoves ==
  ASSUME Inv, NEW t \in Threads, NEW p \in Pcs, Goto(t, p),
         UNCHANGED <<row, dirty, committed, intent, copy, loop, crashes>>,
         active' \in BOOLEAN, decision' \in [Threads -> Decision],
         latest' \subseteq Threads, ckpt' \in Checkpoint,
         ckpt'.next = ckpt.next, ckpt'.vals = ckpt.vals,
         p \in {"node", "final", "commit"} => WalkInv(loop[t].node, loop[t].vals),
         p \in {"final", "commit"} => loop[t].node = "git_commit",
         p = "save" => WalkInv(END, loop[t].vals),
         p = "activate" \/ (t \in Reviewers /\ p = "lock") => ckpt.next # NoNode,
         p = "cancelled" => row.cancelReq
  PROVE  Inv'
<1>1. /\ pc' \in [Threads -> Pcs] /\ pc'[t] = p
      /\ \A u \in Threads \ {t} : pc'[u] = pc[u]
  BY Moves DEF Inv
<1>2. TypeOK'
  BY <1>1 DEF Inv, TypeOK
<1>3. CkptInv' /\ RowInv'
  BY DEF Inv, CkptInv, RowInv
<1>4. ThreadInv(t)'
  BY <1>1 DEF Inv, ThreadInv
<1> QED
  BY <1>1, <1>2, <1>3, <1>4, OneThread

\* The endpoint and resume_run up to the workspace lock.
LEMMA ResumeSteps ==
  ASSUME Inv, NEW t \in Threads,
         (\E d \in Decisions : ApiResume(t, d)) \/ ResumeGuard(t) \/ Activate(t)
  PROVE  Inv'
<1>1. ASSUME NEW d \in Decisions, ApiResume(t, d) PROVE Inv'
  <2>1. decision' \in [Threads -> Decision]
    BY <1>1, DecisionsAssumption DEF Inv, TypeOK, ApiResume
  <2> QED
    BY <1>1, <2>1, OnlyMoves DEF Inv, TypeOK, ApiResume, worktree, Pcs
<1>2. CASE ResumeGuard(t)
  <2>1. CASE Return(t)
    <3>1. UNCHANGED <<row, ckpt, active, dirty, committed, crashes>>
      BY <1>2 DEF ResumeGuard, worktree
    <3>2. RowInv'
      BY <3>1 DEF Inv, RowInv
    <3> QED
      BY <2>1, <3>1, <3>2, Returns DEF Inv, TypeOK
  <2>2. CASE MayResume /\ Record(t, "decide") /\ UNCHANGED <<copy, decision, loop, latest>>
    <3>1. /\ pc' \in [Threads -> Pcs] /\ pc'[t] = "read"
          /\ intent' \in [Threads -> Intents] /\ intent'[t] = "decide"
          /\ \A u \in Threads \ {t} : pc'[u] = pc[u] /\ intent'[u] = intent[u]
      BY <2>2, Enters DEF Inv, Intents
    <3>2. TypeOK'
      BY <1>2, <2>2, <3>1 DEF Inv, TypeOK, ResumeGuard, worktree
    <3>3. CkptInv' /\ RowInv'
      BY <1>2 DEF Inv, CkptInv, RowInv, ResumeGuard
    <3>4. ThreadInv(t)'
      BY <1>2, <2>2, <3>1 DEF Inv, ThreadInv, ResumeGuard, MayResume
    <3> QED
      BY <1>2, <2>2, <3>1, <3>2, <3>3, <3>4, OneThread DEF ResumeGuard
  <2> QED
    BY <1>2, <2>1, <2>2 DEF ResumeGuard
<1>3. CASE Activate(t)
  <2>1. ckpt.next # NoNode
    BY <1>3 DEF Inv, ThreadInv, Activate
  <2> QED
    BY <1>3, <2>1, OnlyMoves DEF Inv, TypeOK, Activate, worktree, local, Pcs
<1> QED
  BY <1>1, <1>2, <1>3

\* The workspace lock, and the load of the newest checkpoint behind it.
LEMMA LockSteps ==
  ASSUME Inv, NEW t \in Threads, AcquireLock(t) \/ LockTimeout(t)
  PROVE  Inv'
<1>1. CASE LockTimeout(t)
  BY <1>1, OnlyMoves DEF Inv, TypeOK, LockTimeout, worktree, local, Pcs
<1>2. CASE AcquireLock(t) /\ t = Starter
  BY <1>2, OnlyMoves DEF Inv, TypeOK, AcquireLock, worktree, Pcs
<1>3. CASE AcquireLock(t) /\ t # Starter
  <2> DEFINE l == [node |-> ckpt.next, vals |-> ckpt.vals, resume |-> TRUE]
  <2>1. ckpt.next # NoNode /\ WalkInv(ckpt.next, ckpt.vals)
    BY <1>3 DEF Inv, ThreadInv, AcquireLock, CkptInv
  <2>2. l \in Loop
    BY DEF Inv, TypeOK, Checkpoint, Loop
  <2>3. /\ loop' \in [Threads -> Loop] /\ loop'[t] = l
        /\ \A u \in Threads \ {t} : loop'[u] = loop[u]
    BY <1>3, <2>2 DEF Inv, TypeOK, AcquireLock
  <2>4. PICK p \in {"derive", "node"} : Goto(t, p)
    BY <1>3 DEF AcquireLock
  <2>5. /\ pc' \in [Threads -> Pcs] /\ pc'[t] = p
        /\ \A u \in Threads \ {t} : pc'[u] = pc[u]
    BY <2>4, Moves DEF Inv, Pcs
  <2>6. latest' \subseteq Threads
    BY <1>3 DEF Inv, TypeOK, AcquireLock
  <2>7. TypeOK'
    BY <1>3, <2>3, <2>5, <2>6 DEF Inv, TypeOK, AcquireLock, worktree
  <2>8. CkptInv' /\ RowInv'
    BY <1>3 DEF Inv, CkptInv, RowInv, AcquireLock
  <2>9. ThreadInv(t)'
    BY <1>3, <2>1, <2>3, <2>5 DEF Inv, ThreadInv, AcquireLock
  <2> QED
    BY <1>3, <2>3, <2>5, <2>7, <2>8, <2>9, OneThread DEF AcquireLock
<1> QED
  BY <1>1, <1>2, <1>3

\* A step that stores the checkpoint of a consistent walk.
LEMMA Saves ==
  ASSUME Inv, NEW t \in Threads, NEW n, NEW v, WalkInv(n, v), Save(t, n, v),
         UNCHANGED <<row, active, intent, copy, decision, crashes>>,
         dirty' \in BOOLEAN, committed' \in BOOLEAN
  PROVE  Inv'
<1>1. /\ ckpt' \in Checkpoint /\ CkptInv' /\ ckpt'.next # NoNode
      /\ latest' \subseteq Threads /\ loop' \in [Threads -> Loop]
      /\ pc' \in [Threads -> Pcs] /\ pc'[t] \in {"derive", "node"}
      /\ WalkInv(loop'[t].node, loop'[t].vals)
      /\ \A u \in Threads \ {t} : pc'[u] = pc[u] /\ loop'[u] = loop[u]
  BY Stores DEF Inv
<1>2. TypeOK'
  BY <1>1 DEF Inv, TypeOK
<1>3. RowInv'
  BY DEF Inv, RowInv
<1>4. ThreadInv(t)'
  BY <1>1 DEF Inv, ThreadInv
<1> QED
  BY <1>1, <1>2, <1>3, <1>4, OneThread

\* An exception marks the checkpoint it came from and moves t out of the walk.
LEMMA Raises ==
  ASSUME Inv, NEW t \in Threads, NEW p \in {"failed", "cancelled"}, Raise(t, p),
         p = "cancelled" => row.cancelReq
  PROVE  Inv'
<1>1. ckpt' \in Checkpoint /\ ckpt'.next = ckpt.next /\ ckpt'.vals = ckpt.vals
  BY DEF Inv, TypeOK, Checkpoint, Raise
<1> QED
  BY <1>1, OnlyMoves DEF Inv, TypeOK, Raise, worktree, local, Pcs

\* Under the invariant the flag of the row is what check_cancelled reads.
LEMMA FlagIsTheRow == ASSUME Inv PROVE CancelRequested <=> row.cancelReq
  BY DEF Inv, RowInv, TypeOK, Row, CancelRequested

\* One node of graph.invoke, interrupt() or an exception out of a node.
LEMMA NodeSteps ==
  ASSUME Inv, NEW t \in Threads,
         RunNode(t) \/ Pause(t) \/ NodeRaises(t) \/ NodeCancelled(t)
  PROVE  Inv'
<1>1. CASE RunNode(t)
  <2>1. WalkInv(loop[t].node, loop[t].vals) /\ decision[t] \in Decision
    BY <1>1 DEF Inv, TypeOK, ThreadInv, RunNode
  <2>2. PICK v \in NodeResults(loop[t].node, loop[t].vals, decision[t]) :
          /\ Save(t, Successor(loop[t].node, v), v)
          /\ dirty' \in DirtyAfter(loop[t].node, v, dirty)
    BY <1>1 DEF RunNode
  <2>3. WalkInv(Successor(loop[t].node, v), v)
    BY <2>1, NodeStep
  <2>4. dirty' \in BOOLEAN
    BY <2>2 DEF Inv, TypeOK, DirtyAfter
  <2>5. committed' \in BOOLEAN
    BY <1>1 DEF Inv, TypeOK, RunNode, CommittedAfter
  <2> QED
    BY <1>1, <2>2, <2>3, <2>4, <2>5, Saves DEF RunNode
<1>2. CASE Pause(t)
  <2>1. ckpt' \in Checkpoint /\ ckpt'.next = ckpt.next /\ ckpt'.vals = ckpt.vals
    BY <1>2 DEF Inv, TypeOK, Checkpoint, Pause
  <2> QED
    BY <1>2, <2>1, OnlyMoves DEF Inv, TypeOK, Pause, worktree, local, Pcs
<1>3. CASE NodeRaises(t)
  BY <1>3, Raises DEF NodeRaises
<1>4. CASE NodeCancelled(t)
  BY <1>4, Raises, FlagIsTheRow DEF NodeCancelled, StopsHere
<1> QED
  BY <1>1, <1>2, <1>3, <1>4

\* The steps of git_commit_node.
LEMMA CommitSteps ==
  ASSUME Inv, NEW t \in Threads,
         RefuseCommit(t) \/ PassDriftCheck(t) \/ FinalCheck(t) \/ Commit(t)
         \/ SaveCommit(t)
  PROVE  Inv'
<1>0. pc[t] \in {"node", "final", "commit"}
        => WalkInv(loop[t].node, loop[t].vals)
  BY DEF Inv, ThreadInv
<1>1. CASE RefuseCommit(t)
  <2>1. PICK v \in CommitRefusals(loop[t].vals) : Save(t, END, v)
    BY <1>1 DEF RefuseCommit
  <2>2. WalkInv(END, v)
    BY <1>0, <1>1, CommitStep DEF RefuseCommit
  <2> QED
    BY <1>1, <2>1, <2>2, Saves DEF Inv, TypeOK, RefuseCommit, worktree
<1>2. CASE PassDriftCheck(t)
  BY <1>0, <1>2, OnlyMoves
  DEF Inv, TypeOK, PassDriftCheck, worktree, local, Pcs
<1>3. CASE FinalCheck(t)
  <2>1. loop[t].node = "git_commit"
    BY <1>3 DEF Inv, ThreadInv, FinalCheck
  <2>2. CASE CancelRequested
    BY <1>3, <2>2, FlagIsTheRow, Raises DEF FinalCheck
  <2>3. CASE ~CancelRequested
    BY <1>0, <1>3, <2>1, <2>3, OnlyMoves
    DEF Inv, TypeOK, FinalCheck, worktree, local, Pcs
  <2> QED
    BY <2>2, <2>3
<1>4. CASE Commit(t)
  <2>1. PICK success \in {dirty, FALSE} :
          /\ loop' = [loop EXCEPT ![t].vals = CommitResult(@, success)]
          /\ dirty' = (dirty /\ ~success)
          /\ committed' = (committed \/ success)
    BY <1>4 DEF Commit
  <2>2. success \in BOOLEAN
    BY DEF Inv, TypeOK
  <2>3. WalkInv("git_commit", loop[t].vals)
    BY <1>0, <1>4 DEF Inv, ThreadInv, Commit
  <2>4. WalkInv(END, CommitResult(loop[t].vals, success))
    BY <2>2, <2>3, CommitStep
  <2>5. CommitResult(loop[t].vals, success) \in AgentState
    BY <2>4 DEF WalkInv
  <2>6. /\ loop' \in [Threads -> Loop]
        /\ loop'[t].vals = CommitResult(loop[t].vals, success)
        /\ \A u \in Threads \ {t} : loop'[u] = loop[u]
    BY <2>1, <2>5 DEF Inv, TypeOK, Loop
  <2>7. /\ pc' \in [Threads -> Pcs] /\ pc'[t] = "save"
        /\ \A u \in Threads \ {t} : pc'[u] = pc[u]
    BY <1>4, Moves DEF Inv, Commit, Pcs
  <2>8. dirty' \in BOOLEAN /\ committed' \in BOOLEAN
    BY <2>1, <2>2 DEF Inv, TypeOK
  <2>9. TypeOK'
    BY <1>4, <2>6, <2>7, <2>8 DEF Inv, TypeOK, Commit
  <2>10. CkptInv' /\ RowInv'
    BY <1>4 DEF Inv, CkptInv, RowInv, Commit
  <2>11. ThreadInv(t)'
    BY <1>4, <2>4, <2>6, <2>7 DEF Inv, ThreadInv, Commit
  <2> QED
    BY <1>4, <2>6, <2>7, <2>9, <2>10, <2>11, OneThread DEF Commit
<1>5. CASE SaveCommit(t)
  <2>1. WalkInv(END, loop[t].vals)
    BY <1>5 DEF Inv, ThreadInv, SaveCommit
  <2> QED
    BY <1>5, <2>1, Saves DEF Inv, TypeOK, SaveCommit, worktree
<1> QED
  BY <1>1, <1>2, <1>3, <1>4, <1>5

\* How start_run and resume_run end.
LEMMA EndSteps ==
  ASSUME Inv, NEW t \in Threads,
         Derive(t) \/ UnwindCancelled(t) \/ UnwindFailed(t)
  PROVE  Inv'
<1>1. ASSUME NEW i \in Intents \ {"started", "decide"}, NEW l \in Loop,
             Record(t, i), UNCHANGED <<row, ckpt, dirty, committed, copy,
                                       decision, crashes>>,
             active' \in BOOLEAN, latest' \subseteq Threads,
             loop' = [loop EXCEPT ![t] = l]
      PROVE  Inv'
  <2>1. /\ pc' \in [Threads -> Pcs] /\ pc'[t] = "read"
        /\ intent' \in [Threads -> Intents] /\ intent'[t] = i
        /\ \A u \in Threads \ {t} : pc'[u] = pc[u] /\ intent'[u] = intent[u]
    BY <1>1, Enters DEF Inv
  <2>3. /\ loop' \in [Threads -> Loop]
        /\ \A u \in Threads \ {t} : loop'[u] = loop[u]
    BY <1>1 DEF Inv, TypeOK
  <2>4. TypeOK'
    BY <1>1, <2>1, <2>3 DEF Inv, TypeOK
  <2>5. CkptInv' /\ RowInv'
    BY <1>1 DEF Inv, CkptInv, RowInv
  <2>6. ThreadInv(t)'
    BY <1>1, <2>1 DEF Inv, ThreadInv
  <2> QED
    BY <1>1, <2>1, <2>3, <2>4, <2>5, <2>6, OneThread
<1>2. CASE Derive(t)
  <2> DEFINE hook == Outcome(t, DeriveStatus(ckpt))
  <2>1. hook \in Intents \ {"started", "decide"}
    BY DEF Outcome, Intents
  <2>2. UNCHANGED <<row, ckpt, dirty, committed, crashes>> /\ active' \in BOOLEAN
    BY <1>2 DEF Derive, worktree
  <2>3. RowInv'
    BY <2>2 DEF Inv, RowInv
  <2>4. CASE hook = "none"
    <3>1. Return(t)
      BY <1>2, <2>4 DEF Derive
    <3> QED
      BY <2>2, <2>3, <3>1, Returns DEF Inv, TypeOK
  <2>5. CASE hook # "none"
    <3>1. /\ Record(t, hook) /\ UNCHANGED <<copy, decision>>
          /\ loop' = [loop EXCEPT ![t] = [NoLoop EXCEPT !.vals = ckpt.vals]]
          /\ latest' = latest \ {t}
      BY <1>2, <2>5 DEF Derive
    <3>2. [NoLoop EXCEPT !.vals = ckpt.vals] \in Loop
      BY NoValues DEF Inv, TypeOK, Checkpoint, Loop
    <3>3. latest' \subseteq Threads
      BY <3>1 DEF Inv, TypeOK
    <3> HIDE DEF hook
    <3> QED
      BY <1>1, <2>1, <2>2, <3>1, <3>2, <3>3
  <2> QED
    BY <2>4, <2>5
<1>3. CASE UnwindCancelled(t)
  <2>1. MarkCancelled(row) \in Row /\ MarkCancelled(row).cancelReq = row.cancelReq
    BY RowOperators, NoValues DEF Inv, TypeOK
  <2>2. row.cancelReq
    BY <1>3 DEF Inv, ThreadInv, UnwindCancelled
  <2>3. /\ Return(t) /\ UNCHANGED <<ckpt, dirty, committed, crashes>>
        /\ active' \in BOOLEAN /\ row' = MarkCancelled(row)
    BY <1>3 DEF UnwindCancelled, worktree
  <2>4. RowInv'
    BY <2>1, <2>2, <2>3 DEF RowInv
  <2> QED
    BY <2>1, <2>2, <2>3, <2>4, Returns
<1>4. CASE UnwindFailed(t)
  <2>1. "failed" \in Intents \ {"started", "decide"} /\ NoLoop \in Loop
    BY NoValues DEF Intents
  <2>2. latest' \subseteq Threads
    BY <1>4 DEF Inv, TypeOK, UnwindFailed
  <2> QED
    BY <1>1, <1>4, <2>1, <2>2 DEF UnwindFailed, worktree
<1> QED
  BY <1>2, <1>3, <1>4

\* Cancellations and crashes, which happen at any point of any thread.
LEMMA OutsideSteps == ASSUME Inv, Cancel \/ Crash PROVE Inv'
<1>1. CASE Cancel
  <2>1. /\ row' \in Row /\ (row.cancelReq => row'.cancelReq)
        /\ row'.status = "CANCELLED" => row.status = "CANCELLED" \/ row'.cancelReq
    BY <1>1, RowOperators, NoValues DEF Inv, TypeOK, Cancel
  <2>2. TypeOK'
    BY <1>1, <2>1 DEF Inv, TypeOK, Cancel, local, worktree
  <2>3. CkptInv' /\ RowInv'
    BY <1>1, <2>1 DEF Inv, CkptInv, RowInv, Cancel
  <2>4. ASSUME NEW t \in Threads PROVE ThreadInv(t)'
    BY <1>1, <2>1 DEF Inv, ThreadInv, Cancel, local
  <2> QED
    BY <2>2, <2>3, <2>4 DEF Inv
<1>2. CASE Crash
  <2>1. UNCHANGED <<row, ckpt, dirty, committed>> /\ active' \in BOOLEAN
    BY <1>2 DEF Crash, worktree
  <2>2. /\ pc' \in [Threads -> Pcs] /\ intent' \in [Threads -> Intents]
        /\ \A t \in Threads : pc'[t] \in {"new", "done"} /\ intent'[t] = "none"
    BY <1>2 DEF Crash, Pcs, Intents
  <2>3. /\ copy' \in [Threads -> Row] /\ decision' \in [Threads -> Decision]
        /\ loop' \in [Threads -> Loop] /\ latest' \subseteq Threads
    BY <1>2, NoValues DEF Crash
  <2>4. \A t \in Threads : copy'[t].status = "NONE"
    BY <1>2 DEF Crash, NewRow
  <2>5. crashes' \in 0..MaxCrashes
    BY <1>2, MaxCrashesAssumption DEF Inv, TypeOK, Crash
  <2>6. TypeOK'
    BY <2>1, <2>2, <2>3, <2>5 DEF Inv, TypeOK
  <2>7. CkptInv' /\ RowInv'
    BY <2>1 DEF Inv, CkptInv, RowInv
  <2>8. ASSUME NEW t \in Threads PROVE ThreadInv(t)'
    BY <2>2, <2>4 DEF ThreadInv
  <2> QED
    BY <2>6, <2>7, <2>8 DEF Inv
<1> QED
  BY <1>1, <1>2

\* Every step, stuttering included, keeps the invariant.
LEMMA InvStep == Inv /\ [Next]_vars => Inv'
<1> SUFFICES ASSUME Inv, [Next]_vars PROVE Inv'
  OBVIOUS
<1>1. CASE CreateRun \/ StartRun \/ Provision
  BY <1>1, StarterSteps
<1>2. CASE Cancel \/ Crash
  BY <1>2, OutsideSteps
<1>3. ASSUME NEW t \in Threads, Execute(t) PROVE Inv'
  <2>1. CASE CollectorRead(t) \/ CollectorContinue(t) \/ CollectorReturn(t)
    BY <2>1, HookSteps
  <2>2. CASE ResumeGuard(t) \/ Activate(t)
    BY <2>2, ResumeSteps
  <2>3. CASE AcquireLock(t) \/ LockTimeout(t)
    BY <2>3, LockSteps
  <2>4. CASE RunNode(t) \/ Pause(t) \/ NodeRaises(t) \/ NodeCancelled(t)
    BY <2>4, NodeSteps
  <2>5. CASE \/ RefuseCommit(t) \/ PassDriftCheck(t) \/ FinalCheck(t)
             \/ Commit(t) \/ SaveCommit(t)
    BY <2>5, CommitSteps
  <2>6. CASE Derive(t) \/ UnwindCancelled(t) \/ UnwindFailed(t)
    BY <2>6, EndSteps
  <2> QED
    BY <1>3, <2>1, <2>2, <2>3, <2>4, <2>5, <2>6 DEF Execute
<1>4. ASSUME NEW t \in Reviewers, NEW d \in Decisions, ApiResume(t, d) PROVE Inv'
  BY <1>4, ResumeSteps
<1>5. CASE UNCHANGED vars
  BY <1>5 DEF Inv, TypeOK, CkptInv, RowInv, ThreadInv, vars, local, worktree
<1> QED
  BY <1>1, <1>2, <1>3, <1>4, <1>5 DEF Next

-----------------------------------------------------------------------------
(* The theorems.                                                           *)

(***************************************************************************)
(* The inductive invariant holds of every behaviour.                       *)
(***************************************************************************)
THEOREM LifecycleInvariant == Spec => []Inv
  BY InvInit, InvStep, PTL DEF Spec

(***************************************************************************)
(* Every record of a run keeps its type, whatever is resumed, cancelled,   *)
(* crashed or upserted from a stale copy.                                  *)
(***************************************************************************)
THEOREM LifecycleTyped == Spec => []TypeOK
<1>1. Inv => TypeOK
  BY DEF Inv
<1> QED
  BY <1>1, LifecycleInvariant, PTL

(***************************************************************************)
(* No thread is past git_commit's checks, and no checkpoint may be resumed *)
(* into git_commit, without a vetted and approved diff: for every number   *)
(* of resume requests and of crashes.                                      *)
(***************************************************************************)
THEOREM LifecycleIsGated == Spec => []CommitIsGated
<1>1. Inv => CommitIsGated
  <2> SUFFICES ASSUME Inv PROVE CommitIsGated
    OBVIOUS
  <2>1. ASSUME NEW v, WalkInv("git_commit", v) PROVE Vetted(v)
    BY <2>1 DEF WalkInv, Verdicts
  <2>2. ASSUME NEW t \in Threads, pc[t] \in {"final", "commit"}
        PROVE  Vetted(loop[t].vals)
    BY <2>1, <2>2 DEF Inv, ThreadInv
  <2>3. ckpt.next = "git_commit" => Vetted(ckpt.vals)
    BY <2>1 DEF Inv, CkptInv
  <2> QED
    BY <2>2, <2>3 DEF CommitIsGated
<1> QED
  BY <1>1, LifecycleInvariant, PTL

-----------------------------------------------------------------------------
(* Pauses.  As long as the process has not crashed, a checkpoint that is   *)
(* neither the end of a walk nor marked has an executor that stands on it; *)
(* so that at rest only marked checkpoints are left, and interrupt() marks *)
(* one only at approval.                                                   *)

Walking(t) == pc[t] \in {"node", "final", "commit", "save"}
Unsettled == ckpt.next \notin {NoNode, END} /\ ~ckpt.err /\ ~ckpt.intr

PauseMarks == ckpt.intr => ckpt.next = "approval" /\ ckpt.vals.diff = "Real"
Asked == row.status = "WAITING_APPROVAL" => ckpt.next # NoNode
Attended == crashes = 0 /\ Unsettled => \E t \in latest : Walking(t)

ThreadPause(t) ==
  /\ t \in latest /\ pc[t] \in {"node", "final", "commit"} =>
       loop[t].node = ckpt.next /\ loop[t].vals = ckpt.vals
  /\ (Walking(t) \/ pc[t] = "derive") => ckpt.next # NoNode
  /\ (intent[t] = "requested" \/ copy[t].status = "WAITING_APPROVAL")
       => ckpt.next # NoNode

PauseInv == PauseMarks /\ Asked /\ Attended /\ \A t \in Threads : ThreadPause(t)

\* What the operators on the row do to a status of WAITING_APPROVAL.
LEMMA WaitingRows ==
  ASSUME NEW r \in Row, NEW v \in AgentState, NEW d \in Decision, NEW i
  PROVE  /\ Edited(i, r, v, d).status = "WAITING_APPROVAL"
              => r.status = "WAITING_APPROVAL" \/ i = "requested"
         /\ RequestCancellation(r).status = "WAITING_APPROVAL"
              => r.status = "WAITING_APPROVAL"
         /\ MarkCancelled(r).status = "WAITING_APPROVAL"
              => r.status = "WAITING_APPROVAL"
<1>1. Edited(i, r, v, d).status = "WAITING_APPROVAL"
        => r.status = "WAITING_APPROVAL" \/ i = "requested"
  <2>1. CASE i = "requested"
    BY <2>1
  <2>2. CASE i # "requested" /\ Edited(i, r, v, d) = r
    BY <2>2
  <2>3. CASE \E s \in {"RUNNING", "FAILED"} :
               Edited(i, r, v, d) = [r EXCEPT !.status = s]
    BY <2>3 DEF Row
  <2>4. CASE \E a \in {"APPROVED", "REJECTED"} :
               Edited(i, r, v, d) = [r EXCEPT !.decision = a]
    BY <2>4 DEF Row
  <2>5. CASE Edited(i, r, v, d) =
               [r EXCEPT !.status = "COMPLETED", !.commit = v.status]
    BY <2>5 DEF Row
  <2>6. CASE Edited(i, r, v, d) = [r EXCEPT !.commit = "COMMIT_FAILED"]
    BY <2>6 DEF Row
  <2> QED
    BY <2>1, <2>2, <2>3, <2>4, <2>5, <2>6 DEF Edited
<1>2. /\ RequestCancellation(r).status = "WAITING_APPROVAL"
           => r.status = "WAITING_APPROVAL"
      /\ MarkCancelled(r).status = "WAITING_APPROVAL"
           => r.status = "WAITING_APPROVAL"
  BY DEF RequestCancellation, MarkCancelled, Row
<1> QED
  BY <1>1, <1>2

\* A step of t that leaves the checkpoint alone, and t a walker of the newest
\* checkpoint if it was one.
LEMMA QuietSteps ==
  ASSUME PauseInv, NEW t \in Threads, UNCHANGED <<ckpt, crashes>>,
         \A u \in Threads \ {t} :
           /\ pc'[u] = pc[u] /\ intent'[u] = intent[u]
           /\ copy'[u] = copy[u] /\ loop'[u] = loop[u]
           /\ u \in latest' <=> u \in latest,
         latest \subseteq Threads,
         t \in latest /\ Walking(t) => t \in latest' /\ Walking(t)',
         Asked', ThreadPause(t)'
  PROVE  PauseInv'
<1>1. ASSUME NEW u \in Threads \ {t} PROVE ThreadPause(u)'
  BY DEF PauseInv, ThreadPause, Walking
<1>2. Attended'
  <2> SUFFICES ASSUME crashes' = 0, Unsettled'
               PROVE  \E u \in latest' : Walking(u)'
    BY DEF Attended
  <2>1. PICK u \in latest : Walking(u)
    BY DEF PauseInv, Attended, Unsettled
  <2>2. CASE u = t
    BY <2>1, <2>2
  <2>3. CASE u # t
    BY <2>1, <2>3 DEF Walking
  <2> QED
    BY <2>2, <2>3
<1>3. PauseMarks'
  BY DEF PauseInv, PauseMarks
<1> QED
  BY <1>1, <1>2, <1>3 DEF PauseInv

\* A step of t that marks the newest checkpoint, which t stands on.
LEMMA MarkingSteps ==
  ASSUME Inv, PauseInv, NEW t \in Threads, NEW p \in {"failed", "cancelled", "derive"},
         Goto(t, p), UNCHANGED <<row, intent, copy, loop, latest, crashes>>,
         ckpt'.next = ckpt.next, ckpt'.vals = ckpt.vals, ~Unsettled',
         PauseMarks', p = "derive" => ckpt.next # NoNode
  PROVE  PauseInv'
<1>1. /\ pc'[t] = p /\ \A u \in Threads \ {t} : pc'[u] = pc[u]
  BY DEF Inv, TypeOK, Goto
<1>2. ASSUME NEW u \in Threads PROVE ThreadPause(u)'
  BY <1>1 DEF PauseInv, ThreadPause, Walking
<1>3. Asked' /\ Attended'
  BY DEF PauseInv, Asked, Attended
<1> QED
  BY <1>2, <1>3 DEF PauseInv

\* A step that stores a checkpoint: t is the only one who stands on it.
LEMMA StoringSteps ==
  ASSUME Inv, PauseInv, NEW t \in Threads, NEW n \in Nodes \cup {END}, NEW v,
         Save(t, n, v), UNCHANGED <<row, intent, copy, crashes>>
  PROVE  PauseInv'
<1>1. /\ ckpt' = NewCheckpoint(n, v) /\ latest' = {t}
      /\ loop'[t].node = n /\ loop'[t].vals = v
      /\ \A u \in Threads \ {t} : loop'[u] = loop[u]
  BY DEF Inv, TypeOK, Save
<1>2. pc'[t] = IF n = END THEN "derive" ELSE "node"
  BY DEF Inv, TypeOK, Save, Goto
<1>3. ckpt'.next = n /\ ckpt'.vals = v /\ ~ckpt'.intr /\ n # NoNode
  BY <1>1 DEF NewCheckpoint
<1>4. ASSUME NEW u \in Threads PROVE ThreadPause(u)'
  BY <1>1, <1>2, <1>3 DEF PauseInv, ThreadPause
<1>5. Asked' /\ PauseMarks'
  BY <1>3 DEF PauseInv, Asked, PauseMarks
<1>6. Attended'
  BY <1>1, <1>2, <1>3 DEF Attended, Unsettled, Walking
<1> QED
  BY <1>4, <1>5, <1>6 DEF PauseInv

\* A thread that returns was not walking.
LEMMA ReturningSteps ==
  ASSUME Inv, PauseInv, NEW t \in Threads, ~Walking(t), Return(t),
         UNCHANGED <<ckpt, crashes>>, Asked'
  PROVE  PauseInv'
<1>1. /\ pc'[t] = "done" /\ intent'[t] = "none" /\ copy'[t] = NewRow("NONE")
      /\ \A u \in Threads \ {t} :
           /\ pc'[u] = pc[u] /\ intent'[u] = intent[u]
           /\ copy'[u] = copy[u] /\ loop'[u] = loop[u]
  BY Leaves DEF Inv
<1>2. latest' = latest \ {t}
  BY DEF Return
<1>3. ThreadPause(t)'
  BY <1>1 DEF ThreadPause, Walking, NewRow
<1> QED
  BY <1>1, <1>2, <1>3, QuietSteps DEF Inv, TypeOK

\* A move of t alone, between places outside the walk.
LEMMA MovingSteps ==
  ASSUME Inv, PauseInv, NEW t \in Threads, ~Walking(t), NEW p \in Pcs, Goto(t, p),
         p \notin {"node", "final", "commit", "save", "derive"},
         UNCHANGED <<ckpt, intent, copy, loop, latest, crashes>>, Asked'
  PROVE  PauseInv'
<1>1. /\ pc'[t] = p /\ \A u \in Threads \ {t} : pc'[u] = pc[u]
  BY DEF Inv, TypeOK, Goto
<1>2. ThreadPause(t)'
  BY <1>1 DEF PauseInv, ThreadPause, Walking
<1> QED
  BY <1>1, <1>2, QuietSteps DEF Inv, TypeOK

\* create_run, start_run and the provisioning mark no checkpoint.
LEMMA StarterPauses ==
  ASSUME Inv, PauseInv, CreateRun \/ StartRun \/ Provision PROVE PauseInv'
<1>t. Starter \in Threads
  OBVIOUS
<1>q. Merge(NewRow("QUEUED"), row).status # "WAITING_APPROVAL"
  BY DEF Merge, NewRow
<1>1. CASE CreateRun
  <2>1. Asked'
    BY <1>1, <1>q DEF CreateRun, Asked
  <2> QED
    BY <1>1, <1>t, <2>1, MovingSteps DEF CreateRun, Walking, local, Pcs
<1>2. CASE StartRun
  <2>1. Asked'
    BY <1>2, <1>q DEF StartRun, Asked
  <2>2. /\ pc'[Starter] = "read" /\ intent'[Starter] = "started"
        /\ \A u \in Threads \ {Starter} : pc'[u] = pc[u] /\ intent'[u] = intent[u]
    BY <1>2, <1>t DEF Inv, TypeOK, StartRun, Record, Goto
  <2>3. ThreadPause(Starter)'
    BY <1>2, <1>t, <2>2 DEF PauseInv, ThreadPause, Walking, StartRun
  <2> QED
    BY <1>2, <1>t, <2>1, <2>2, <2>3, QuietSteps DEF Inv, TypeOK, StartRun, Walking
<1>3. CASE Provision /\ Goto(Starter, "failed") /\ UNCHANGED <<ckpt, loop, latest>>
  BY <1>3, <1>t, MovingSteps DEF Provision, Walking, Asked, PauseInv, Pcs
<1>4. CASE /\ Provision /\ ckpt' = NewCheckpoint("router", NewAgentState)
           /\ loop' = [loop EXCEPT ![Starter] =
                         [node |-> "router", vals |-> NewAgentState, resume |-> FALSE]]
           /\ latest' = {Starter} /\ Goto(Starter, "node")
  BY <1>4, <1>t, StoringSteps DEF Provision, Save
<1> QED
  BY <1>1, <1>2, <1>3, <1>4 DEF Provision

\* The collector hooks write WAITING_APPROVAL only for a run with a checkpoint.
LEMMA HookPauses ==
  ASSUME Inv, PauseInv, NEW t \in Threads,
         CollectorRead(t) \/ CollectorContinue(t) \/ CollectorReturn(t)
  PROVE  PauseInv'
<1>u. ASSUME CollectorUpsert(t), UNCHANGED ckpt PROVE Asked'
  <2> DEFINE i == IF intent[t] = "fail_commit" THEN "failed" ELSE intent[t]
             e == Edited(i, copy[t], loop[t].vals, decision[t])
  <2>1. /\ row \in Row /\ copy[t] \in Row
        /\ loop[t].vals \in AgentState /\ decision[t] \in Decision
    BY DEF Inv, TypeOK, Loop
  <2>2. e.status = "WAITING_APPROVAL"
          => copy[t].status = "WAITING_APPROVAL" \/ intent[t] = "requested"
    BY <2>1, WaitingRows
  <2>3. row' = Merge(e, row)
    BY <1>u DEF CollectorUpsert
  <2>4. row'.status = e.status
    <3> HIDE DEF e
    <3> QED
      BY <2>3 DEF Merge
  <2> QED
    BY <1>u, <2>2, <2>4 DEF Asked, PauseInv, ThreadPause
<1>1. CASE CollectorRead(t)
  <2>1. /\ pc'[t] = "write" /\ copy'[t] = row
        /\ \A u \in Threads \ {t} : pc'[u] = pc[u] /\ copy'[u] = copy[u]
    BY <1>1 DEF Inv, TypeOK, CollectorRead, Goto
  <2>2. ThreadPause(t)'
    BY <1>1, <2>1 DEF PauseInv, Asked, ThreadPause, Walking, CollectorRead
  <2>3. Asked'
    BY <1>1 DEF PauseInv, Asked, CollectorRead
  <2> QED
    BY <1>1, <2>1, <2>2, <2>3, QuietSteps DEF Inv, TypeOK, CollectorRead, Walking
<1>2. CASE CollectorContinue(t)
  <2>1. /\ pc'[t] \in {"lock", "activate", "read"} /\ copy'[t] = NewRow("NONE")
        /\ intent'[t] \in {"none", "commit_failed"}
        /\ \A u \in Threads \ {t} :
             pc'[u] = pc[u] /\ copy'[u] = copy[u] /\ intent'[u] = intent[u]
    BY <1>2 DEF Inv, TypeOK, CollectorContinue, Goto
  <2>2. ThreadPause(t)'
    BY <2>1 DEF ThreadPause, Walking, NewRow
  <2>3. Asked'
    BY <1>2, <1>u DEF CollectorContinue
  <2> QED
    BY <1>2, <2>1, <2>2, <2>3, QuietSteps DEF Inv, TypeOK, CollectorContinue, Walking
<1>3. CASE CollectorReturn(t)
  BY <1>3, <1>u, ReturningSteps DEF CollectorReturn, Walking
<1> QED
  BY <1>1, <1>2, <1>3

\* The endpoint, the guards and the lock: whoever loads the newest checkpoint
\* stands on it.
LEMMA ResumePauses ==
  ASSUME Inv, PauseInv, NEW t \in Threads,
         \/ \E d \in Decisions : ApiResume(t, d)
         \/ ResumeGuard(t) \/ Activate(t)
         \/ AcquireLock(t) \/ LockTimeout(t)
  PROVE  PauseInv'
<1>0. UNCHANGED row => (UNCHANGED ckpt => Asked')
  BY DEF PauseInv, Asked
<1>1. ASSUME NEW d \in Decisions, ApiResume(t, d) PROVE PauseInv'
  BY <1>0, <1>1, MovingSteps DEF ApiResume, Walking, Pcs
<1>2. CASE ResumeGuard(t)
  <2>1. CASE Return(t)
    BY <1>0, <1>2, <2>1, ReturningSteps DEF ResumeGuard, Walking
  <2>2. CASE Record(t, "decide") /\ UNCHANGED <<copy, decision, loop, latest>>
    <3>1. /\ pc'[t] = "read" /\ intent'[t] = "decide"
          /\ \A u \in Threads \ {t} : pc'[u] = pc[u] /\ intent'[u] = intent[u]
      BY <2>2 DEF Inv, TypeOK, Record, Goto
    <3>2. ThreadPause(t)'
      BY <1>2, <2>2, <3>1 DEF PauseInv, ThreadPause, Walking, ResumeGuard
    <3> QED
      BY <1>0, <1>2, <2>2, <3>1, <3>2, QuietSteps DEF Inv, TypeOK, ResumeGuard, Walking
  <2> QED
    BY <1>2, <2>1, <2>2 DEF ResumeGuard
<1>3. CASE Activate(t)
  BY <1>0, <1>3, MovingSteps DEF Activate, Walking, local, Pcs
<1>4. CASE LockTimeout(t)
  BY <1>0, <1>4, MovingSteps DEF LockTimeout, Walking, local, Pcs
<1>5. CASE AcquireLock(t) /\ t = Starter
  BY <1>0, <1>5, MovingSteps DEF AcquireLock, Walking, Pcs
<1>6. CASE AcquireLock(t) /\ t # Starter
  <2>1. ckpt.next # NoNode
    BY <1>6 DEF Inv, ThreadInv, AcquireLock
  <2>2. /\ pc'[t] \in {"node", "derive"}
        /\ loop'[t].node = ckpt.next /\ loop'[t].vals = ckpt.vals
        /\ latest' = latest \cup {t}
        /\ \A u \in Threads \ {t} : pc'[u] = pc[u] /\ loop'[u] = loop[u]
    BY <1>6 DEF Inv, TypeOK, AcquireLock, Goto
  <2>3. ThreadPause(t)'
    BY <1>6, <2>1, <2>2 DEF ThreadPause, AcquireLock
  <2> QED
    BY <1>0, <1>6, <2>2, <2>3, QuietSteps DEF Inv, TypeOK, AcquireLock, Walking
<1> QED
  BY <1>1, <1>2, <1>3, <1>4, <1>5, <1>6

\* An exception, or interrupt(): the newest checkpoint is marked if t stands
\* on it; otherwise somebody else does.
LEMMA LeavingSteps ==
  ASSUME Inv, PauseInv, NEW t \in Threads, Walking(t),
         NEW p \in {"failed", "cancelled", "derive"}, Goto(t, p),
         UNCHANGED <<row, intent, copy, loop, latest, crashes>>,
         IF t \in latest
           THEN /\ ckpt'.next = ckpt.next /\ ckpt'.vals = ckpt.vals
                /\ ~Unsettled' /\ PauseMarks'
           ELSE ckpt' = ckpt
  PROVE  PauseInv'
<1>0. ckpt.next # NoNode
  BY DEF PauseInv, ThreadPause
<1>1. CASE t \in latest
  BY <1>0, <1>1, MarkingSteps
<1>2. CASE t \notin latest
  <2>1. /\ pc'[t] = p /\ \A u \in Threads \ {t} : pc'[u] = pc[u]
    BY DEF Inv, TypeOK, Goto
  <2>2. ThreadPause(t)' /\ Asked'
    BY <1>0, <1>2, <2>1 DEF PauseInv, Asked, ThreadPause
  <2> QED
    BY <1>2, <2>1, <2>2, QuietSteps DEF Inv, TypeOK
<1> QED
  BY <1>1, <1>2

\* An exception out of a node, or a cancellation.
LEMMA RaisingSteps ==
  ASSUME Inv, PauseInv, NEW t \in Threads, Walking(t),
         NEW p \in {"failed", "cancelled"}, Raise(t, p)
  PROVE  PauseInv'
<1>1. ASSUME t \in latest
      PROVE  /\ ckpt'.next = ckpt.next /\ ckpt'.vals = ckpt.vals
             /\ ~Unsettled' /\ PauseMarks'
  BY <1>1 DEF Inv, TypeOK, Checkpoint, PauseInv, PauseMarks, Unsettled, Raise
<1> QED
  BY <1>1, LeavingSteps DEF Raise, local

\* The nodes, interrupt(), and the four steps of git_commit.
LEMMA WalkPauses ==
  ASSUME Inv, PauseInv, NEW t \in Threads,
         \/ RunNode(t) \/ Pause(t) \/ NodeRaises(t) \/ NodeCancelled(t)
         \/ RefuseCommit(t) \/ PassDriftCheck(t) \/ FinalCheck(t)
         \/ Commit(t) \/ SaveCommit(t)
  PROVE  PauseInv'
<1>0. (UNCHANGED row => (UNCHANGED ckpt => Asked')) /\ ThreadPause(t)
  BY DEF PauseInv, Asked
<1>1. CASE RunNode(t)
  <2>1. PICK v \in NodeResults(loop[t].node, loop[t].vals, decision[t]) :
               Save(t, Successor(loop[t].node, v), v)
    BY <1>1 DEF RunNode
  <2>2. WalkInv(loop[t].node, loop[t].vals) /\ decision[t] \in Decision
    BY <1>1 DEF Inv, TypeOK, ThreadInv, RunNode
  <2>3. Successor(loop[t].node, v) \in Nodes \cup {END}
    BY <2>2, NodeStep DEF WalkInv
  <2> QED
    BY <1>1, <2>1, <2>3, StoringSteps DEF RunNode
<1>2. CASE Pause(t)
  <2>1. ASSUME t \in latest
        PROVE  /\ ckpt'.next = ckpt.next /\ ckpt'.vals = ckpt.vals
               /\ ~Unsettled' /\ PauseMarks'
    <3>1. WalkInv(loop[t].node, loop[t].vals) /\ loop[t].node = "approval"
      BY <1>2 DEF Inv, ThreadInv, Pause, Pauses
    <3>2. loop[t].node = ckpt.next /\ loop[t].vals = ckpt.vals
      BY <1>0, <1>2, <2>1 DEF ThreadPause, Pause
    <3>3. ckpt.next = "approval" /\ ckpt.vals.diff = "Real"
      BY <3>1, <3>2 DEF WalkInv, Verdicts
    <3> QED
      BY <1>2, <2>1, <3>3 DEF Inv, TypeOK, Checkpoint, PauseMarks, Unsettled, Pause
  <2> QED
    BY <1>2, <2>1, LeavingSteps DEF Pause, Walking, local
<1>3. CASE NodeRaises(t) \/ NodeCancelled(t)
  BY <1>3, RaisingSteps DEF NodeRaises, NodeCancelled, Walking
<1>4. CASE RefuseCommit(t) \/ SaveCommit(t)
  BY <1>4, StoringSteps DEF RefuseCommit, SaveCommit
<1>5. CASE PassDriftCheck(t) \/ (FinalCheck(t) /\ ~CancelRequested)
  <2>1. /\ pc[t] \in {"node", "final"} /\ pc'[t] \in {"final", "commit"}
        /\ \A u \in Threads \ {t} : pc'[u] = pc[u]
    BY <1>5 DEF Inv, TypeOK, PassDriftCheck, FinalCheck, Goto
  <2>2. UNCHANGED <<row, ckpt, intent, copy, loop, latest, crashes>>
    BY <1>5 DEF PassDriftCheck, FinalCheck, local
  <2>3. ThreadPause(t)'
    BY <1>0, <2>1, <2>2 DEF ThreadPause, Walking
  <2> QED
    BY <1>0, <2>1, <2>2, <2>3, QuietSteps DEF Inv, TypeOK, Walking
<1>6. CASE FinalCheck(t) /\ CancelRequested
  BY <1>6, RaisingSteps DEF FinalCheck, Walking
<1>7. CASE Commit(t)
  <2>1. /\ pc[t] = "commit" /\ pc'[t] = "save"
        /\ \A u \in Threads \ {t} : pc'[u] = pc[u] /\ loop'[u] = loop[u]
        /\ UNCHANGED <<row, ckpt, intent, copy, latest, crashes>>
    BY <1>7 DEF Inv, TypeOK, Commit, Goto
  <2>2. ThreadPause(t)'
    BY <1>0, <2>1 DEF ThreadPause, Walking
  <2> QED
    BY <1>0, <2>1, <2>2, QuietSteps DEF Inv, TypeOK, Walking
<1> QED
  BY <1>1, <1>2, <1>3, <1>4, <1>5, <1>6, <1>7 DEF FinalCheck

\* Derivation and unwinding: the thread was past its walk.
LEMMA EndPauses ==
  ASSUME Inv, PauseInv, NEW t \in Threads,
         Derive(t) \/ UnwindCancelled(t) \/ UnwindFailed(t)
  PROVE  PauseInv'
<1>0. (UNCHANGED row => (UNCHANGED ckpt => Asked')) /\ ThreadPause(t)
  BY DEF PauseInv, Asked
<1>1. ASSUME NEW i, Record(t, i), ~Walking(t), UNCHANGED <<row, ckpt, copy, crashes>>,
             NEW l, loop' = [loop EXCEPT ![t] = l], latest' = latest \ {t},
             i = "requested" => ckpt.next # NoNode
      PROVE  PauseInv'
  <2>1. /\ pc'[t] = "read" /\ intent'[t] = i
        /\ \A u \in Threads \ {t} :
             pc'[u] = pc[u] /\ intent'[u] = intent[u] /\ loop'[u] = loop[u]
    BY <1>1 DEF Inv, TypeOK, Record, Goto
  <2>2. ThreadPause(t)'
    BY <1>0, <1>1, <2>1 DEF ThreadPause, Walking
  <2> QED
    BY <1>0, <1>1, <2>1, <2>2, QuietSteps DEF Inv, TypeOK
<1>2. CASE Derive(t)
  <2> DEFINE hook == Outcome(t, DeriveStatus(ckpt))
  <2>1. ckpt.next # NoNode /\ ~Walking(t) /\ UNCHANGED <<row, ckpt, crashes>>
    BY <1>0, <1>2 DEF Derive, ThreadPause, Walking
  <2>2. CASE hook = "none"
    BY <1>0, <1>2, <2>1, <2>2, ReturningSteps DEF Derive
  <2>3. CASE hook # "none"
    <3>1. /\ Record(t, hook) /\ UNCHANGED copy
          /\ loop' = [loop EXCEPT ![t] = [NoLoop EXCEPT !.vals = ckpt.vals]]
          /\ latest' = latest \ {t}
      BY <1>2, <2>3 DEF Derive
    <3> HIDE DEF hook
    <3> QED
      BY <1>1, <2>1, <3>1
  <2> QED
    BY <2>2, <2>3
<1>3. CASE UnwindCancelled(t)
  <2>1. row \in Row /\ NewAgentState \in AgentState /\ NoDecision \in Decision
    BY NoValues DEF Inv, TypeOK
  <2>2. Asked'
    BY <1>3, <2>1, WaitingRows DEF UnwindCancelled, Asked, PauseInv
  <2> QED
    BY <1>3, <2>2, ReturningSteps DEF UnwindCancelled, Walking
<1>4. CASE UnwindFailed(t)
  BY <1>1, <1>4 DEF UnwindFailed, Walking
<1> QED
  BY <1>2, <1>3, <1>4

\* Cancellations and crashes.
LEMMA OutsidePauses == ASSUME Inv, PauseInv, Cancel \/ Crash PROVE PauseInv'
<1>1. CASE Cancel
  <2>1. row \in Row /\ NewAgentState \in AgentState /\ NoDecision \in Decision
    BY NoValues DEF Inv, TypeOK
  <2>2. Asked'
    BY <1>1, <2>1, WaitingRows DEF Cancel, Asked, PauseInv
  <2>3. UNCHANGED <<ckpt, pc, intent, copy, loop, latest, crashes>>
    BY <1>1 DEF Cancel, local
  <2> QED
    BY <2>2, <2>3 DEF PauseInv, PauseMarks, Attended, Unsettled, ThreadPause, Walking
<1>2. CASE Crash
  <2>1. UNCHANGED <<row, ckpt>> /\ crashes' # 0
    BY <1>2, MaxCrashesAssumption DEF Inv, TypeOK, Crash
  <2>2. ASSUME NEW t \in Threads
        PROVE  /\ pc'[t] \in {"new", "done"} /\ intent'[t] = "none"
               /\ copy'[t].status = "NONE"
    BY <1>2 DEF Crash, NewRow
  <2>3. ASSUME NEW t \in Threads PROVE ThreadPause(t)'
    BY <2>2 DEF ThreadPause, Walking
  <2> QED
    BY <2>1, <2>3 DEF PauseInv, PauseMarks, Asked, Attended
<1> QED
  BY <1>1, <1>2

\* Every step keeps the invariant, given the one of the life of a run.
LEMMA PauseStep == Inv /\ PauseInv /\ [Next]_vars => PauseInv'
<1> SUFFICES ASSUME Inv, PauseInv, [Next]_vars PROVE PauseInv'
  OBVIOUS
<1>1. CASE CreateRun \/ StartRun \/ Provision
  BY <1>1, StarterPauses
<1>2. CASE Cancel \/ Crash
  BY <1>2, OutsidePauses
<1>3. ASSUME NEW t \in Threads, Execute(t) PROVE PauseInv'
  BY <1>3, HookPauses, ResumePauses, WalkPauses, EndPauses DEF Execute
<1>4. ASSUME NEW t \in Reviewers, NEW d \in Decisions, ApiResume(t, d) PROVE PauseInv'
  BY <1>4, ResumePauses
<1>5. CASE UNCHANGED vars
  BY <1>5 DEF PauseInv, PauseMarks, Asked, Attended, Unsettled, ThreadPause, Walking,
              vars, local
<1> QED
  BY <1>1, <1>2, <1>3, <1>4, <1>5 DEF Next

\* It holds before anybody has asked for the run.
LEMMA PauseInit == Init => PauseInv
<1> SUFFICES ASSUME Init PROVE PauseInv
  OBVIOUS
<1>1. ASSUME NEW t \in Threads
      PROVE  pc[t] = "new" /\ intent[t] = "none" /\ copy[t].status = "NONE"
  BY DEF Init, NewRow
<1>2. ckpt.next = NoNode /\ ~ckpt.intr /\ row.status = "NONE" /\ latest = {}
  BY DEF Init, NewCheckpoint, NewRow
<1> QED
  BY <1>1, <1>2 DEF PauseInv, PauseMarks, Asked, Attended, Unsettled, ThreadPause,
                    Walking

(***************************************************************************)
(* As long as the process has not crashed, a run at rest that is reported  *)
(* as WAITING_APPROVAL is a real pause, for any number of resume requests. *)
(***************************************************************************)
THEOREM LifecyclePausesAreReal == Spec => []PauseIsReal
<1>1. Spec => []PauseInv
  BY PauseInit, PauseStep, LifecycleInvariant, PTL DEF Spec
<1>2. Inv /\ PauseInv => PauseIsReal
  <2> SUFFICES ASSUME Inv, PauseInv, crashes = 0, AtRest,
                      GetStatus = "WAITING_APPROVAL"
               PROVE  ckpt.next = "approval" /\ ckpt.intr /\ ckpt.vals.diff = "Real"
    BY DEF PauseIsReal, WaitingIsReal
  <2>1. ckpt.next # NoNode
    BY DEF GetStatus, PauseInv, Asked
  <2>2. DeriveStatus(ckpt) = "WAITING_APPROVAL"
    BY <2>1 DEF GetStatus
  <2>3. ckpt.next # END /\ ~(ckpt.err /\ ~ckpt.intr)
    BY <2>2 DEF DeriveStatus, EndStatus
  <2>4. ~Unsettled
    BY DEF PauseInv, Attended, Inv, TypeOK, AtRest, Resting, Walking
  <2> QED
    BY <2>1, <2>3, <2>4 DEF Inv, TypeOK, Checkpoint, Unsettled, PauseInv, PauseMarks
<1> QED
  BY <1>1, <1>2, LifecycleInvariant, PTL

-----------------------------------------------------------------------------
(* Recorded commits, when one decision is submitted at a time.  A thread   *)
(* is past its walk once no step of its own can run a node any more; when  *)
(* a commit is recorded anywhere, every thread is, and nobody is left who  *)
(* could delete the branch.                                                *)

Past(t) ==
  \/ pc[t] \in {"save", "derive", "failed", "cancelled", "done"}
  \/ pc[t] \in {"read", "write"} /\ intent[t] \notin {"started", "decide"}

Recorded ==
  \/ row.commit = "COMMITTED" \/ ckpt.vals.status = "COMMITTED"
  \/ \E t \in Threads :
       copy[t].commit = "COMMITTED" \/ loop[t].vals.status = "COMMITTED"

Sealed == committed /\ \A t \in Threads : Past(t)

\* CANCELLING, too, is never there without the flag.
Flagged ==
  /\ row.status = "CANCELLING" => row.cancelReq
  /\ \A t \in Threads : copy[t].status = "CANCELLING" => row.cancelReq

\* The starter never passes interrupt(), and so never commits.
StarterYields ==
  /\ pc[Starter] \notin {"final", "commit", "save"}
  /\ pc[Starter] = "node" => loop[Starter].node # "git_commit" /\ ~loop[Starter].resume

\* A reviewer comes in once the starter is past its walk, or cancelled.
Turns ==
  /\ Past(Starter) \/ pc[Starter] = "new" \/ active \/ row.cancelReq
  /\ pc[Starter] = "new" => row.status = "NONE" /\ \A r \in Reviewers : pc[r] = "new"
  /\ \A r \in Reviewers :
       /\ pc[r] # "new" => Past(Starter) \/ row.cancelReq
       /\ pc[r] = "commit" => Past(Starter)

SealInv == Flagged /\ StarterYields /\ Turns /\ (Recorded => Sealed)

\* No thread disturbs what another one holds.
LEMMA Frame ==
  ASSUME Inv, NEW t \in Threads, Execute(t), NEW u \in Threads \ {t}
  PROVE  /\ pc'[u] = pc[u] /\ intent'[u] = intent[u]
         /\ copy'[u] = copy[u] /\ loop'[u] = loop[u]
<1> USE DEF Inv, TypeOK, Goto, Record, Return, Save, Raise, local
<1>1. CASE CollectorRead(t) \/ CollectorContinue(t) \/ CollectorReturn(t)
  BY <1>1 DEF CollectorRead, CollectorContinue, CollectorReturn
<1>2. CASE ResumeGuard(t) \/ Activate(t) \/ AcquireLock(t) \/ LockTimeout(t)
  BY <1>2 DEF ResumeGuard, Activate, AcquireLock, LockTimeout
<1>3. CASE RunNode(t) \/ Pause(t) \/ NodeRaises(t) \/ NodeCancelled(t)
  BY <1>3 DEF RunNode, Pause, NodeRaises, NodeCancelled
<1>4. CASE RefuseCommit(t) \/ PassDriftCheck(t) \/ FinalCheck(t)
  BY <1>4 DEF RefuseCommit, PassDriftCheck, FinalCheck
<1>5. CASE Commit(t) \/ SaveCommit(t)
  BY <1>5 DEF Commit, SaveCommit
<1>6. CASE Derive(t) \/ UnwindCancelled(t) \/ UnwindFailed(t)
  BY <1>6 DEF Derive, UnwindCancelled, UnwindFailed
<1> QED
  BY <1>1, <1>2, <1>3, <1>4, <1>5, <1>6 DEF Execute

\* Only a hook's upsert and an unwinding cancellation write the row.
LEMMA RowSteps ==
  ASSUME Inv, NEW t \in Threads, Execute(t)
  PROVE  /\ \/ row' = row \/ row' = MarkCancelled(row)
            \/ pc[t] = "write" /\ CollectorUpsert(t)
         /\ copy'[t] \in {copy[t], row, NewRow("NONE")}
<1> USE DEF Inv, TypeOK, Return, Save, Raise, local
<1>1. CASE CollectorRead(t) \/ CollectorContinue(t) \/ CollectorReturn(t)
  BY <1>1 DEF CollectorRead, CollectorContinue, CollectorReturn
<1>2. CASE ResumeGuard(t) \/ Activate(t) \/ AcquireLock(t) \/ LockTimeout(t)
  BY <1>2 DEF ResumeGuard, Activate, AcquireLock, LockTimeout
<1>3. CASE RunNode(t) \/ Pause(t) \/ NodeRaises(t) \/ NodeCancelled(t)
  BY <1>3 DEF RunNode, Pause, NodeRaises, NodeCancelled
<1>4. CASE \/ RefuseCommit(t) \/ PassDriftCheck(t) \/ FinalCheck(t)
           \/ Commit(t) \/ SaveCommit(t)
  BY <1>4 DEF RefuseCommit, PassDriftCheck, FinalCheck, Commit, SaveCommit
<1>5. CASE Derive(t) \/ UnwindCancelled(t) \/ UnwindFailed(t)
  BY <1>5 DEF Derive, UnwindCancelled, UnwindFailed
<1> QED
  BY <1>1, <1>2, <1>3, <1>4, <1>5 DEF Execute

\* Past the walk is past for good, and disturbs no commit; a thread that
\* clears the run's activity is past; it commits only if nobody cancelled.
LEMMA PcSteps ==
  ASSUME Inv, NEW t \in Threads, Execute(t)
  PROVE  /\ Past(t) => Past(t)' /\ committed' = committed
         /\ active' \/ active' = active \/ Past(t)'
         /\ pc[t] # "new" /\ pc'[t] # "new"
         /\ pc'[t] = "commit" => pc[t] = "final" /\ ~row.cancelReq
<1>0. CancelRequested <=> row.cancelReq
  BY FlagIsTheRow
<1>1. CASE CollectorRead(t)
  BY <1>1 DEF Inv, TypeOK, Goto, CollectorRead, Past, worktree
<1>2. CASE CollectorContinue(t)
  BY <1>2 DEF Inv, TypeOK, Goto, CollectorContinue, Past, worktree
<1>3. CASE CollectorReturn(t)
  BY <1>3 DEF Inv, TypeOK, Goto, Return, CollectorReturn, Past, worktree
<1>4. CASE ResumeGuard(t) \/ Activate(t)
  BY <1>4 DEF Inv, TypeOK, Goto, Record, Return, ResumeGuard, Activate, Past
<1>5. CASE AcquireLock(t) \/ LockTimeout(t)
  BY <1>5 DEF Inv, TypeOK, Goto, AcquireLock, LockTimeout, Past
<1>6. CASE RunNode(t) \/ Pause(t) \/ NodeRaises(t) \/ NodeCancelled(t)
  BY <1>6 DEF Inv, TypeOK, Goto, Save, Raise, RunNode, Pause, NodeRaises,
              NodeCancelled, Past
<1>7. CASE RefuseCommit(t) \/ PassDriftCheck(t) \/ FinalCheck(t)
  BY <1>0, <1>7 DEF Inv, TypeOK, Goto, Save, Raise, RefuseCommit, PassDriftCheck,
                    FinalCheck, Past
<1>8. CASE Commit(t) \/ SaveCommit(t)
  BY <1>8 DEF Inv, TypeOK, Goto, Save, Commit, SaveCommit, Past, worktree
<1>9. CASE Derive(t)
  <2> DEFINE hook == Outcome(t, DeriveStatus(ckpt))
  <2>1. hook \notin {"started", "decide"}
    BY DEF Outcome
  <2>2. pc[t] = "derive" /\ UNCHANGED <<dirty, committed>>
    BY <1>9 DEF Derive, worktree
  <2>3. Return(t) \/ Record(t, hook)
    BY <1>9 DEF Derive
  <2> HIDE DEF hook
  <2> QED
    BY <2>1, <2>2, <2>3 DEF Inv, TypeOK, Return, Record, Goto, Past
<1>10. CASE UnwindCancelled(t) \/ UnwindFailed(t)
  BY <1>10 DEF Inv, TypeOK, Goto, Return, Record, UnwindCancelled, UnwindFailed,
               Past, worktree
<1> QED
  BY <1>1, <1>2, <1>3, <1>4, <1>5, <1>6, <1>7, <1>8, <1>9, <1>10 DEF Execute

\* No node but git_commit makes a state COMMITTED.
LEMMA NodesDoNotCommit ==
  ASSUME NEW n, NEW v \in AgentState, v.status # "COMMITTED", NEW d \in Decision,
         NEW r \in NodeResults(n, v, d)
  PROVE  r.status # "COMMITTED"
<1> USE DEF AgentState, NodeResults
<1>1. CASE n \in {"router", "planner", "knowledge", "developer", "qa", "revision",
                  "git_prepare"}
  BY <1>1 DEF RouterNode, PlannerNode, KnowledgeNode, DeveloperNode, QaNode,
              RevisionNode, GitPrepareNode
<1>2. CASE n = "policy"
  BY <1>2 DEF PolicyNode
<1>3. CASE n = "approval"
  BY <1>3 DEF ApprovalNode
<1>4. CASE n = "cleanup"
  BY <1>4 DEF CleanupNode
<1> QED
  BY <1>1, <1>2, <1>3, <1>4

\* Where the word COMMITTED in a state may come from.
LEMMA ValueSteps ==
  ASSUME Inv, NEW t \in Threads, Execute(t)
  PROVE  /\ ckpt'.vals.status = "COMMITTED"
              => ckpt.vals.status = "COMMITTED" \/ loop[t].vals.status = "COMMITTED"
         /\ loop'[t].vals.status = "COMMITTED"
              => \/ loop[t].vals.status = "COMMITTED"
                 \/ ckpt.vals.status = "COMMITTED"
                 \/ pc[t] = "commit" /\ pc'[t] = "save" /\ committed'
<1>n. NewAgentState.status # "COMMITTED" /\ NoLoop.vals = NewAgentState
  BY DEF NewAgentState, NoLoop
<1>1. CASE CollectorRead(t) \/ CollectorContinue(t) \/ CollectorReturn(t)
  BY <1>1, <1>n DEF Inv, TypeOK, Return, CollectorRead, CollectorContinue,
                    CollectorReturn
<1>2. CASE ResumeGuard(t) \/ Activate(t) \/ AcquireLock(t) \/ LockTimeout(t)
  BY <1>2, <1>n DEF Inv, TypeOK, Return, ResumeGuard, Activate, AcquireLock,
                    LockTimeout, local
<1>3. CASE RunNode(t)
  <2>1. PICK v \in NodeResults(loop[t].node, loop[t].vals, decision[t]) :
               Save(t, Successor(loop[t].node, v), v)
    BY <1>3 DEF RunNode
  <2>2. WalkInv(loop[t].node, loop[t].vals) /\ decision[t] \in Decision
    BY <1>3 DEF Inv, TypeOK, ThreadInv, RunNode
  <2>3. CASE loop[t].node = END
    BY <2>1, <2>3 DEF NodeResults
  <2>4. CASE loop[t].node # END
    <3>1. loop[t].vals.status # "COMMITTED" /\ loop[t].vals \in AgentState
      BY <2>2, <2>4 DEF WalkInv, Ending
    <3>2. v.status # "COMMITTED"
      BY <2>2, <3>1, NodesDoNotCommit
    <3>3. ckpt'.vals = v /\ loop'[t].vals = v
      BY <2>1 DEF Inv, TypeOK, Save, NewCheckpoint
    <3> QED
      BY <3>2, <3>3
  <2> QED
    BY <2>3, <2>4
<1>4. CASE Pause(t) \/ NodeRaises(t) \/ NodeCancelled(t) \/ FinalCheck(t)
           \/ PassDriftCheck(t)
  <2>1. UNCHANGED loop /\ ckpt'.vals = ckpt.vals
    BY <1>4 DEF Inv, TypeOK, Checkpoint, Pause, NodeRaises, NodeCancelled,
                FinalCheck, PassDriftCheck, Raise, local
  <2> QED
    BY <2>1
<1>5. CASE RefuseCommit(t)
  <2>1. PICK v \in CommitRefusals(loop[t].vals) : Save(t, END, v)
    BY <1>5 DEF RefuseCommit
  <2>2. v.status # "COMMITTED"
    BY DEF Inv, TypeOK, Loop, AgentState, CommitRefusals
  <2>3. ckpt'.vals = v /\ loop'[t].vals = v
    BY <2>1 DEF Inv, TypeOK, Save, NewCheckpoint
  <2> QED
    BY <2>2, <2>3
<1>6. CASE Commit(t)
  <2>1. PICK success \in {dirty, FALSE} :
          /\ loop' = [loop EXCEPT ![t].vals = CommitResult(@, success)]
          /\ committed' = (committed \/ success)
    BY <1>6 DEF Commit
  <2>2. pc[t] = "commit" /\ pc'[t] = "save" /\ UNCHANGED ckpt
    BY <1>6 DEF Inv, TypeOK, Commit, Goto
  <2>3. loop'[t].vals = CommitResult(loop[t].vals, success)
    BY <2>1 DEF Inv, TypeOK, Loop
  <2>4. CommitResult(loop[t].vals, success).status = "COMMITTED" => success
    BY DEF CommitResult, Inv, TypeOK, Loop, AgentState
  <2> QED
    BY <2>1, <2>2, <2>3, <2>4
<1>7. CASE SaveCommit(t)
  <2>1. ckpt'.vals = loop[t].vals /\ loop'[t].vals = loop[t].vals
    BY <1>7 DEF Inv, TypeOK, Save, SaveCommit, NewCheckpoint
  <2> QED
    BY <2>1
<1>8. CASE Derive(t) \/ UnwindCancelled(t) \/ UnwindFailed(t)
  <2>1. UNCHANGED ckpt
    BY <1>8 DEF Derive, UnwindCancelled, UnwindFailed
  <2>2. \/ loop' = [loop EXCEPT ![t] = NoLoop]
        \/ loop' = [loop EXCEPT ![t] = [NoLoop EXCEPT !.vals = ckpt.vals]]
    BY <1>8 DEF Derive, UnwindCancelled, UnwindFailed, Return
  <2>3. loop'[t].vals \in {NewAgentState, ckpt.vals}
    BY <2>2, <1>n DEF Inv, TypeOK, NoLoop
  <2> QED
    BY <1>n, <2>1, <2>3
<1> QED
  BY <1>1, <1>2, <1>3, <1>4, <1>5, <1>6, <1>7, <1>8 DEF Execute

\* What the row operators do to CANCELLING and to a recorded commit.
LEMMA SealedRows ==
  ASSUME NEW r \in Row, NEW old \in Row, NEW v \in AgentState,
         NEW d \in Decision, NEW i
  PROVE  /\ Edited(i, r, v, d).status = "CANCELLING" => r.status = "CANCELLING"
         /\ Edited(i, r, v, d).commit = "COMMITTED"
              => r.commit = "COMMITTED" \/ v.status = "COMMITTED"
         /\ Merge(r, old).commit = "COMMITTED"
              => r.commit = "COMMITTED" \/ old.commit = "COMMITTED"
         /\ Merge(r, old).status = r.status
         /\ RequestCancellation(r).status = "CANCELLING"
              => r.status = "CANCELLING" \/ RequestCancellation(r).cancelReq
         /\ RequestCancellation(r).commit = r.commit
         /\ r.status = "NONE" => RequestCancellation(r) = r
         /\ MarkCancelled(r).status = "CANCELLING" => r.status = "CANCELLING"
         /\ MarkCancelled(r).commit = r.commit
<1>1. /\ Edited(i, r, v, d).status = "CANCELLING" => r.status = "CANCELLING"
      /\ Edited(i, r, v, d).commit = "COMMITTED"
           => r.commit = "COMMITTED" \/ v.status = "COMMITTED"
  <2>1. CASE Edited(i, r, v, d) = r
    BY <2>1
  <2>2. CASE \E s \in {"RUNNING", "WAITING_APPROVAL", "FAILED"} :
               Edited(i, r, v, d) = [r EXCEPT !.status = s]
    BY <2>2 DEF Row
  <2>3. CASE \E a \in {"APPROVED", "REJECTED"} :
               Edited(i, r, v, d) = [r EXCEPT !.decision = a]
    BY <2>3 DEF Row
  <2>4. CASE Edited(i, r, v, d) =
               [r EXCEPT !.status = "COMPLETED", !.commit = v.status]
    BY <2>4 DEF Row
  <2>5. CASE Edited(i, r, v, d) = [r EXCEPT !.commit = "COMMIT_FAILED"]
    BY <2>5 DEF Row
  <2> QED
    BY <2>1, <2>2, <2>3, <2>4, <2>5 DEF Edited
<1>2. /\ Merge(r, old).commit = "COMMITTED"
           => r.commit = "COMMITTED" \/ old.commit = "COMMITTED"
      /\ Merge(r, old).status = r.status
  BY DEF Merge
<1>3. /\ RequestCancellation(r).status = "CANCELLING"
           => r.status = "CANCELLING" \/ RequestCancellation(r).cancelReq
      /\ RequestCancellation(r).commit = r.commit
      /\ r.status = "NONE" => RequestCancellation(r) = r
  BY DEF RequestCancellation, Row
<1>4. /\ MarkCancelled(r).status = "CANCELLING" => r.status = "CANCELLING"
      /\ MarkCancelled(r).commit = r.commit
  BY DEF MarkCancelled, Row
<1> QED
  BY <1>1, <1>2, <1>3, <1>4

\* The upsert of a hook writes no flagless CANCELLING, and records a commit
\* only from a record of it.
LEMMA SealedUpserts ==
  ASSUME Inv, NEW t \in Threads, CollectorUpsert(t)
  PROVE  /\ row'.status = "CANCELLING" => copy[t].status = "CANCELLING"
         /\ row'.commit = "COMMITTED" => Recorded
<1> DEFINE i == IF intent[t] = "fail_commit" THEN "failed" ELSE intent[t]
           e == Edited(i, copy[t], loop[t].vals, decision[t])
<1>1. /\ row \in Row /\ copy[t] \in Row
      /\ loop[t].vals \in AgentState /\ decision[t] \in Decision
  BY DEF Inv, TypeOK, Loop
<1>2. e \in Row
  BY <1>1, RowOperators
<1>3. /\ e.status = "CANCELLING" => copy[t].status = "CANCELLING"
      /\ e.commit = "COMMITTED" =>
           copy[t].commit = "COMMITTED" \/ loop[t].vals.status = "COMMITTED"
  BY <1>1, SealedRows
<1>4. row' = Merge(e, row)
  BY DEF CollectorUpsert
<1>5. /\ row'.status = e.status
      /\ row'.commit = "COMMITTED"
           => e.commit = "COMMITTED" \/ row.commit = "COMMITTED"
  <2> HIDE DEF e
  <2> QED
    BY <1>1, <1>2, <1>4, SealedRows
<1> HIDE DEF e
<1> QED
  BY <1>3, <1>5 DEF Recorded

\* The steps of a thread that executes.
LEMMA SealSteps ==
  ASSUME Inv, SealInv, \A r, q \in Reviewers : r = q,
         NEW t \in Threads, Execute(t)
  PROVE  SealInv'
<1>i. Inv'
  BY InvStep DEF Next
<1>f. \A u \in Threads \ {t} :
        /\ pc'[u] = pc[u] /\ intent'[u] = intent[u]
        /\ copy'[u] = copy[u] /\ loop'[u] = loop[u]
        /\ Past(u)' <=> Past(u)
  BY Frame DEF Past
<1>r. /\ \/ row' = row \/ row' = MarkCancelled(row)
         \/ pc[t] = "write" /\ CollectorUpsert(t)
      /\ copy'[t] \in {copy[t], row, NewRow("NONE")}
  BY RowSteps
<1>p. /\ Past(t) => Past(t)' /\ committed' = committed
      /\ active' \/ active' = active \/ Past(t)'
      /\ pc[t] # "new" /\ pc'[t] # "new"
      /\ pc'[t] = "commit" => pc[t] = "final" /\ ~row.cancelReq
  BY PcSteps
<1>m. /\ row \in Row /\ NewAgentState \in AgentState /\ NoDecision \in Decision
      /\ MarkCancelled(row).status = "CANCELLING" => row.status = "CANCELLING"
      /\ MarkCancelled(row).commit = row.commit
      /\ MarkCancelled(row).cancelReq = row.cancelReq
  BY NoValues, RowOperators, SealedRows DEF Inv, TypeOK
<1>c. row.cancelReq => row'.cancelReq
  BY <1>r, <1>m, Upserts
<1>1. Flagged'
  <2>1. row'.status = "CANCELLING" => row'.cancelReq
    BY <1>c, <1>m, <1>r, SealedUpserts DEF SealInv, Flagged
  <2>2. copy'[t].status = "CANCELLING" => row'.cancelReq
    BY <1>c, <1>r DEF SealInv, Flagged, NewRow
  <2> QED
    BY <1>c, <1>f, <2>1, <2>2 DEF SealInv, Flagged
<1>2. StarterYields'
  <2>1. CASE t # Starter
    BY <1>f, <2>1 DEF SealInv, StarterYields
  <2>2. CASE t = Starter /\ RunNode(t)
    <3>1. PICK v \in NodeResults(loop[t].node, loop[t].vals, decision[t]) :
                 Save(t, Successor(loop[t].node, v), v)
      BY <2>2 DEF RunNode
    <3>2. loop[t].node # "approval"
      BY <2>2 DEF RunNode, Pauses, SealInv, StarterYields
    <3>3. Successor(loop[t].node, v) # "git_commit"
      BY <3>2 DEF Successor, RouteAfterRouter, RouteAfterPlanner,
                  RouteAfterKnowledge, RouteAfterDeveloper, QaRouter,
                  RouteAfterPolicy
    <3>4. /\ pc'[t] \in {"derive", "node"} /\ ~loop'[t].resume
          /\ loop'[t].node = Successor(loop[t].node, v)
      BY <3>1 DEF Inv, TypeOK, Save, Goto
    <3> QED
      BY <2>2, <3>3, <3>4 DEF StarterYields
  <2>3. CASE t = Starter /\ ~RunNode(t)
    <3>1. pc[t] \notin {"final", "commit", "save"}
          /\ (pc[t] = "node" => loop[t].node # "git_commit")
      BY <2>3 DEF SealInv, StarterYields
    <3>2. ~PassDriftCheck(t) /\ ~RefuseCommit(t) /\ ~FinalCheck(t) /\ ~Commit(t)
          /\ ~SaveCommit(t)
      BY <3>1 DEF PassDriftCheck, RefuseCommit, FinalCheck, Commit, SaveCommit
    <3>3. pc'[t] \notin {"node", "final", "commit", "save"}
      <4>1. CASE CollectorRead(t) \/ CollectorContinue(t) \/ CollectorReturn(t)
        BY <4>1 DEF Inv, TypeOK, Goto, Return, CollectorRead, CollectorContinue,
                    CollectorReturn
      <4>2. CASE ResumeGuard(t) \/ Activate(t) \/ AcquireLock(t) \/ LockTimeout(t)
        BY <2>3, <4>2 DEF Inv, TypeOK, Goto, Return, Record, ResumeGuard, Activate,
                          AcquireLock, LockTimeout
      <4>3. CASE Pause(t) \/ NodeRaises(t) \/ NodeCancelled(t)
        BY <4>3 DEF Inv, TypeOK, Goto, Raise, Pause, NodeRaises, NodeCancelled
      <4>4. CASE Derive(t) \/ UnwindCancelled(t) \/ UnwindFailed(t)
        BY <4>4 DEF Inv, TypeOK, Goto, Return, Record, Derive, UnwindCancelled,
                    UnwindFailed
      <4> QED
        BY <2>3, <3>2, <4>1, <4>2, <4>3, <4>4 DEF Execute
    <3> QED
      BY <2>3, <3>3 DEF StarterYields
  <2> QED
    BY <2>1, <2>2, <2>3
<1>3. Turns'
  <2>1. Past(Starter) => Past(Starter)'
    BY <1>f, <1>p
  <2>2. (Past(Starter) \/ pc[Starter] = "new" \/ active \/ row.cancelReq)'
    <3>1. CASE t = Starter
      BY <1>c, <1>p, <3>1 DEF SealInv, Turns
    <3>2. CASE t # Starter
      <4>1. pc[Starter]' = pc[Starter] /\ (Past(Starter) \/ row.cancelReq)
        BY <1>f, <1>p, <3>2 DEF SealInv, Turns
      <4> QED
        BY <1>c, <2>1, <4>1
    <3> QED
      BY <3>1, <3>2
  <2>3. pc'[Starter] # "new"
    <3>1. CASE t = Starter
      BY <1>p, <3>1
    <3>2. CASE t # Starter
      BY <1>f, <1>p, <3>2 DEF SealInv, Turns
    <3> QED
      BY <3>1, <3>2
  <2>4. ASSUME NEW r \in Reviewers
        PROVE  /\ pc'[r] # "new" => Past(Starter)' \/ row'.cancelReq
               /\ pc'[r] = "commit" => Past(Starter)'
    <3>1. CASE t = r
      BY <1>c, <1>p, <2>1, <3>1 DEF SealInv, Turns
    <3>2. CASE t # r
      BY <1>c, <1>f, <2>1, <3>2 DEF SealInv, Turns
    <3> QED
      BY <3>1, <3>2
  <2> QED
    BY <2>2, <2>3, <2>4 DEF Turns
<1>4. ASSUME Recorded' PROVE Sealed'
  <2>1. CASE Recorded
    <3>1. Sealed
      BY <2>1 DEF SealInv
    <3> QED
      BY <1>f, <1>p, <3>1 DEF Sealed
  <2>2. CASE ~Recorded
    <3>1. row'.commit # "COMMITTED"
      BY <1>m, <1>r, <2>2, SealedUpserts DEF Recorded
    <3>2. ckpt'.vals.status # "COMMITTED"
      BY <2>2, ValueSteps DEF Recorded
    <3>3. copy'[t].commit # "COMMITTED"
      BY <1>r, <2>2 DEF Recorded, NewRow
    <3>4. \A u \in Threads \ {t} :
            copy'[u].commit # "COMMITTED" /\ loop'[u].vals.status # "COMMITTED"
      BY <1>f, <2>2 DEF Recorded
    <3>5. loop'[t].vals.status = "COMMITTED"
      BY <1>4, <3>1, <3>2, <3>3, <3>4 DEF Recorded
    <3>6. pc[t] = "commit" /\ pc'[t] = "save" /\ committed'
      BY <2>2, <3>5, ValueSteps DEF Recorded
    <3>7. t \in Reviewers /\ Past(Starter)
      BY <3>6 DEF SealInv, StarterYields, Turns
    <3>8. \A u \in Threads : u = t \/ u = Starter
      BY <3>7
    <3> QED
      BY <1>f, <1>p, <3>6, <3>7, <3>8 DEF Sealed, Past
  <2> QED
    BY <2>1, <2>2
<1> QED
  BY <1>1, <1>2, <1>3, <1>4 DEF SealInv

\* The starter before its walk, and reviewers at the endpoint.
LEMMA SealEntries ==
  ASSUME Inv, SealInv,
         \/ CreateRun \/ StartRun \/ Provision
         \/ \E t \in Reviewers, d \in Decisions : ApiResume(t, d)
  PROVE  SealInv'
<1>s. Starter \in Threads /\ Starter \notin Reviewers
  BY ThreadsAssumption
<1>q. /\ Merge(NewRow("QUEUED"), row).status = "QUEUED"
      /\ Merge(NewRow("QUEUED"), row).commit = row.commit
      /\ row.cancelReq => Merge(NewRow("QUEUED"), row).cancelReq
  BY DEF Merge, NewRow
<1>n. NewAgentState.status # "COMMITTED"
  BY DEF NewAgentState
<1>1. CASE CreateRun \/ StartRun
  <2>1. /\ pc[Starter] \in {"new", "queued"} /\ active'
        /\ row' = Merge(NewRow("QUEUED"), row)
        /\ UNCHANGED <<ckpt, committed, copy, loop>>
    BY <1>1 DEF CreateRun, StartRun, worktree, local
  <2>2. /\ \/ pc'[Starter] = "queued"
           \/ pc'[Starter] = "read" /\ intent'[Starter] = "started"
        /\ \A u \in Threads \ {Starter} : pc'[u] = pc[u]
    BY <1>1, <1>s DEF Inv, TypeOK, CreateRun, StartRun, Goto, Record
  <2>3. ~Past(Starter)
    BY <2>1 DEF Past
  <2>4. ~Recorded
    BY <1>s, <2>3 DEF SealInv, Sealed
  <2>5. ~Recorded'
    BY <1>q, <2>1, <2>4 DEF Recorded
  <2>6. Flagged' /\ StarterYields'
    BY <1>q, <2>1, <2>2 DEF SealInv, Flagged, StarterYields
  <2>7. Turns'
    <3>1. ASSUME NEW r \in Reviewers
          PROVE  pc'[r] # "commit" /\ (pc'[r] # "new" => row'.cancelReq)
      BY <1>q, <1>s, <2>1, <2>2, <2>3 DEF SealInv, Turns
    <3> QED
      BY <2>1, <2>2, <3>1 DEF Turns
  <2> QED
    BY <2>5, <2>6, <2>7 DEF SealInv
<1>2. CASE Provision
  <2>1. /\ pc[Starter] = "provision"
        /\ UNCHANGED <<row, active, committed, copy, intent>>
        /\ UNCHANGED <<ckpt, loop>> \/
           (/\ ckpt' = NewCheckpoint("router", NewAgentState)
            /\ loop' = [loop EXCEPT ![Starter] =
                          [node |-> "router", vals |-> NewAgentState,
                           resume |-> FALSE]])
    BY <1>2 DEF Provision, worktree
  <2>2. /\ \A u \in Threads \ {Starter} : pc'[u] = pc[u]
        /\ \/ pc'[Starter] = "failed"
           \/ /\ pc'[Starter] = "node"
              /\ loop' = [loop EXCEPT ![Starter] =
                            [node |-> "router", vals |-> NewAgentState,
                             resume |-> FALSE]]
    BY <1>2, <1>s DEF Inv, TypeOK, Provision, Goto
  <2>3. ~Past(Starter)
    BY <2>1 DEF Past
  <2>4. ~Recorded
    BY <1>s, <2>3 DEF SealInv, Sealed
  <2>5. ~Recorded'
    BY <1>n, <1>s, <2>1, <2>4 DEF Inv, TypeOK, Recorded, NewCheckpoint
  <2>6. Flagged'
    BY <2>1 DEF SealInv, Flagged
  <2>7. StarterYields'
    BY <1>s, <2>2 DEF Inv, TypeOK, StarterYields
  <2>8. Turns'
    BY <1>s, <2>1, <2>2, <2>3 DEF SealInv, Turns
  <2> QED
    BY <2>5, <2>6, <2>7, <2>8 DEF SealInv
<1>3. ASSUME NEW t \in Reviewers, NEW d \in Decisions, ApiResume(t, d)
      PROVE  SealInv'
  <2>1. /\ UNCHANGED <<row, ckpt, active, committed, intent, copy, loop>>
        /\ pc'[t] = "guard" /\ pc[t] = "new" /\ row.status # "NONE"
        /\ \A u \in Threads \ {t} : pc'[u] = pc[u]
    BY <1>3 DEF Inv, TypeOK, ApiResume, Goto, worktree
  <2>2. ~active \/ row.cancelReq
    BY <1>3 DEF ApiResume, GetStatus, SealInv, Flagged, Inv, RowInv
  <2>3. ~Past(t)
    BY <2>1 DEF Past
  <2>4. ~Recorded'
    BY <2>1, <2>3 DEF SealInv, Sealed, Recorded
  <2>5. Flagged' /\ StarterYields'
    BY <1>s, <2>1 DEF SealInv, Flagged, StarterYields
  <2>6. (Past(Starter)' <=> Past(Starter)) /\ pc'[Starter] = pc[Starter]
    BY <1>s, <2>1 DEF Past
  <2>7. Turns'
    BY <2>1, <2>2, <2>6 DEF SealInv, Turns
  <2> QED
    BY <2>4, <2>5, <2>7 DEF SealInv
<1> QED
  BY <1>1, <1>2, <1>3

\* Cancellations and crashes.
LEMMA SealOutside == ASSUME Inv, SealInv, Cancel \/ Crash PROVE SealInv'
<1>s. Starter \in Threads
  OBVIOUS
<1>1. CASE Cancel
  <2>1. row \in Row /\ NewAgentState \in AgentState /\ NoDecision \in Decision
    BY NoValues DEF Inv, TypeOK
  <2>2. /\ row.cancelReq => row'.cancelReq
        /\ row'.status = "CANCELLING" => row.status = "CANCELLING" \/ row'.cancelReq
        /\ row'.commit = row.commit
        /\ row.status = "NONE" => row'.status = "NONE"
    BY <1>1, <2>1, RowOperators, SealedRows DEF Cancel
  <2>3. UNCHANGED <<ckpt, active, committed, pc, intent, copy, loop>>
    BY <1>1 DEF Cancel, worktree, local
  <2>4. /\ (Recorded' <=> Recorded) /\ (Sealed' <=> Sealed)
        /\ Past(Starter)' <=> Past(Starter)
    BY <2>2, <2>3 DEF Recorded, Sealed, Past
  <2> QED
    BY <2>2, <2>3, <2>4 DEF SealInv, Flagged, StarterYields, Turns
<1>2. CASE Crash
  <2>1. UNCHANGED <<row, ckpt, committed>>
    BY <1>2 DEF Crash, worktree
  <2>2. ASSUME NEW t \in Threads
        PROVE  /\ pc'[t] = IF pc[t] = "new" THEN "new" ELSE "done"
               /\ intent'[t] = "none" /\ copy'[t] = NewRow("NONE")
               /\ loop'[t].vals = NewAgentState
    BY <1>2 DEF Crash, NoLoop
  <2>3. Recorded' => Recorded
    BY <2>1, <2>2 DEF Recorded, NewRow, NewAgentState
  <2>4. Sealed => Sealed'
    BY <2>1, <2>2 DEF Sealed, Past
  <2>5. Flagged' /\ StarterYields'
    BY <1>s, <2>1, <2>2 DEF SealInv, Flagged, StarterYields, NewRow
  <2>6. Turns'
    BY <1>s, <2>1, <2>2 DEF SealInv, Turns, Past
  <2> QED
    BY <2>3, <2>4, <2>5, <2>6 DEF SealInv
<1> QED
  BY <1>1, <1>2

\* It holds before anybody has asked for the run.
LEMMA SealInit == Init => SealInv
<1> SUFFICES ASSUME Init PROVE SealInv
  OBVIOUS
<1>1. ASSUME NEW t \in Threads
      PROVE  /\ pc[t] = "new" /\ copy[t] = NewRow("NONE")
             /\ loop[t].vals = NewAgentState
  BY DEF Init, NoLoop
<1>2. row = NewRow("NONE") /\ ckpt.vals = NewAgentState
  BY DEF Init, NewCheckpoint
<1>3. ~Recorded
  BY <1>1, <1>2 DEF Recorded, NewRow, NewAgentState
<1> QED
  BY <1>1, <1>2, <1>3 DEF SealInv, Flagged, StarterYields, Turns, NewRow

\* Every step keeps it, if no two decisions are submitted.
LEMMA SealStep ==
  ASSUME \A r, q \in Reviewers : r = q
  PROVE  Inv /\ SealInv /\ [Next]_vars => SealInv'
<1> SUFFICES ASSUME Inv, SealInv, [Next]_vars PROVE SealInv'
  OBVIOUS
<1>1. CASE \/ CreateRun \/ StartRun \/ Provision
           \/ \E t \in Reviewers, d \in Decisions : ApiResume(t, d)
  BY <1>1, SealEntries
<1>2. CASE Cancel \/ Crash
  BY <1>2, SealOutside
<1>3. ASSUME NEW t \in Threads, Execute(t) PROVE SealInv'
  BY <1>3, SealSteps
<1>4. CASE UNCHANGED vars
  BY <1>4 DEF SealInv, Flagged, StarterYields, Turns, Recorded, Sealed, Past, vars,
              local, worktree
<1> QED
  BY <1>1, <1>2, <1>3, <1>4 DEF Next

(***************************************************************************)
(* With one decision at most, a run recorded as COMMITTED has its commit,  *)
(* whatever is cancelled and however often the process crashes.  (With two *)
(* it need not: see the run commit_discarded.)                             *)
(***************************************************************************)
THEOREM LifecycleCommitsAreTrue ==
  ASSUME \A r, q \in Reviewers : r = q
  PROVE  Spec => []CommittedStatusIsTrue
<1>1. Inv /\ SealInv /\ [Next]_vars => SealInv'
  BY SealStep
<1>2. SealInv => CommittedStatusIsTrue
  BY DEF SealInv, Recorded, Sealed, CommittedStatusIsTrue
<1> QED
  BY SealInit, <1>1, <1>2, LifecycleInvariant, PTL DEF Spec

-----------------------------------------------------------------------------
(* The refinement of CommitGate.                                           *)

Armed == {t \in Threads : pc[t] = "commit"}

\* A thread that moves between two places other than the commit arms nobody.
LEMMA SameArmed ==
  ASSUME TypeOK, NEW t \in Threads, pc[t] # "commit",
         NEW p \in Pcs \ {"commit"}, Goto(t, p)
  PROVE  Armed' = Armed
<1>1. pc'[t] # "commit" /\ \A u \in Threads \ {t} : pc'[u] = pc[u]
  BY Moves
<1> QED
  BY <1>1 DEF Armed

\* A step that arms nobody, commits nothing and keeps a cancellation is a
\* stutter of the gate, or its RequestCancel.
LEMMA QuietStep ==
  ASSUME Inv, Inv', Armed' = Armed, committed' = committed,
         row.cancelReq => row'.cancelReq
  PROVE  [Gate!Next]_(Gate!gateVars)
<1>1. (CancelRequested <=> row.cancelReq) /\ (CancelRequested' <=> row'.cancelReq)
  <2>1. CancelRequested <=> row.cancelReq
    BY FlagIsTheRow
  <2>2. CancelRequested' <=> row'.cancelReq
    BY DEF Inv, RowInv, CancelRequested
  <2> QED
    BY <2>1, <2>2
<1>2. CancelRequested \in BOOLEAN /\ CancelRequested' \in BOOLEAN
  BY DEF CancelRequested
<1>3. CASE row'.cancelReq /\ ~row.cancelReq
  BY <1>1, <1>2, <1>3 DEF Armed, Gate!Next, Gate!RequestCancel
<1>4. CASE row'.cancelReq <=> row.cancelReq
  BY <1>1, <1>2, <1>4 DEF Armed, Gate!gateVars
<1> QED
  BY <1>3, <1>4

\* No collector hook and no way a request ends withdraws a cancellation.
LEMMA HooksAreQuiet ==
  ASSUME Inv, Inv', NEW t \in Threads,
         \/ CollectorRead(t) \/ CollectorContinue(t) \/ CollectorReturn(t)
         \/ Derive(t) \/ UnwindCancelled(t) \/ UnwindFailed(t)
  PROVE  [Gate!Next]_(Gate!gateVars)
<1>1. PICK p \in Pcs \ {"commit"} : Goto(t, p)
  BY DEF CollectorRead, CollectorContinue, CollectorReturn, Derive,
         UnwindCancelled, UnwindFailed, Record, Return, Pcs
<1>2. pc[t] # "commit"
  BY DEF CollectorRead, CollectorContinue, CollectorReturn, Derive,
         UnwindCancelled, UnwindFailed
<1>3. Armed' = Armed
  BY <1>1, <1>2, SameArmed DEF Inv
<1>4. committed' = committed
  BY DEF CollectorRead, CollectorContinue, CollectorReturn, Derive,
         UnwindCancelled, UnwindFailed, worktree
<1>5. row.cancelReq => row'.cancelReq
  <2>1. CASE CollectorContinue(t) \/ CollectorReturn(t)
    BY <2>1, Upserts DEF CollectorContinue, CollectorReturn
  <2>2. CASE UnwindCancelled(t)
    <3>1. MarkCancelled(row).cancelReq = row.cancelReq
      BY RowOperators, NoValues DEF Inv, TypeOK
    <3> QED
      BY <2>2, <3>1 DEF UnwindCancelled
  <2>3. CASE CollectorRead(t) \/ Derive(t) \/ UnwindFailed(t)
    BY <2>3 DEF CollectorRead, Derive, UnwindFailed
  <2> QED
    BY <2>1, <2>2, <2>3
<1> QED
  BY <1>3, <1>4, <1>5, QuietStep

\* Neither does what a request does before, around and after its commit.
LEMMA ResumesAreQuiet ==
  ASSUME Inv, Inv', NEW t \in Threads,
         \/ \E d \in Decisions : ApiResume(t, d)
         \/ ResumeGuard(t) \/ Activate(t) \/ AcquireLock(t) \/ LockTimeout(t)
         \/ Pause(t) \/ PassDriftCheck(t)
         \/ NodeRaises(t) \/ NodeCancelled(t) \/ RefuseCommit(t) \/ SaveCommit(t)
  PROVE  [Gate!Next]_(Gate!gateVars)
<1>1. PICK p \in Pcs \ {"commit"} : Goto(t, p)
  BY DEF ApiResume, ResumeGuard, Activate, AcquireLock, LockTimeout, Pause,
         PassDriftCheck, NodeRaises, NodeCancelled, RefuseCommit, SaveCommit,
         Raise, Save, Record, Return, Pcs
<1>2. /\ pc[t] # "commit" /\ committed' = committed
      /\ row' = row
  BY DEF ApiResume, ResumeGuard, Activate, AcquireLock, LockTimeout, Pause,
         PassDriftCheck, NodeRaises, NodeCancelled, RefuseCommit, SaveCommit,
         Raise, worktree
<1>3. Armed' = Armed
  BY <1>1, <1>2, SameArmed DEF Inv
<1> QED
  BY <1>2, <1>3, QuietStep

\* Starting a run withdraws no cancellation; cancelling is the gate's own step.
LEMMA StarterAndCancelAreQuiet ==
  ASSUME Inv, Inv', CreateRun \/ StartRun \/ Provision \/ Cancel
  PROVE  [Gate!Next]_(Gate!gateVars)
<1>1. row.cancelReq => row'.cancelReq
  <2>1. CASE CreateRun \/ StartRun
    <3>1. row' = Merge(NewRow("QUEUED"), row)
      BY <2>1 DEF CreateRun, StartRun
    <3> QED
      BY <3>1, NoValues, RowOperators DEF Inv, TypeOK
  <2>2. CASE Cancel
    BY <2>2, NoValues, RowOperators DEF Inv, TypeOK, Cancel
  <2>3. CASE Provision
    BY <2>3 DEF Provision
  <2> QED
    BY <2>1, <2>2, <2>3
<1>2. Armed' = Armed
  <2>1. CASE CreateRun \/ StartRun \/ Provision
    <3>1. PICK p \in Pcs \ {"commit"} : Goto(Starter, p) /\ pc[Starter] # "commit"
      BY <2>1 DEF CreateRun, StartRun, Provision, Record, Pcs
    <3> QED
      BY <3>1, SameArmed DEF Inv
  <2>2. CASE Cancel
    BY <2>2 DEF Cancel, Armed
  <2> QED
    BY <2>1, <2>2
<1>3. committed' = committed
  BY DEF CreateRun, StartRun, Provision, Cancel, worktree
<1> QED
  BY <1>1, <1>2, <1>3, QuietStep

\* A node leaves the commit alone; cleanup may discard it.
LEMMA RunNodeRefines ==
  ASSUME Inv, Inv', NEW t \in Threads, RunNode(t)
  PROVE  [Gate!Next]_(Gate!gateVars)
<1>1. PICK p \in Pcs \ {"commit"} : Goto(t, p)
  BY DEF RunNode, Save, Pcs
<1>2. Armed' = Armed
  BY <1>1, SameArmed DEF Inv, RunNode
<1>3. row' = row
  BY DEF RunNode
<1>4. committed' = committed \/ committed' = FALSE
  BY DEF RunNode, CommittedAfter, Inv, TypeOK
<1>5. CASE committed' = committed
  BY <1>2, <1>3, <1>5, QuietStep
<1>6. CASE committed' = FALSE
  BY <1>2, <1>3, <1>6 DEF Armed, CancelRequested, Gate!Next, Gate!Discard
<1> QED
  BY <1>4, <1>5, <1>6

\* The final check arms a thread only of a run nobody has cancelled.
LEMMA FinalCheckRefines ==
  ASSUME Inv, Inv', NEW t \in Threads, FinalCheck(t)
  PROVE  [Gate!Next]_(Gate!gateVars)
<1>1. row' = row /\ committed' = committed
  BY DEF FinalCheck, Raise, worktree
<1>2. CASE CancelRequested
  <2>1. Goto(t, "cancelled") /\ "cancelled" \in Pcs \ {"commit"} /\ pc[t] # "commit"
    BY <1>2 DEF FinalCheck, Raise, Pcs
  <2>2. Armed' = Armed
    BY <2>1, SameArmed DEF Inv
  <2> QED
    BY <1>1, <2>2, QuietStep
<1>3. CASE ~CancelRequested
  <2>1. pc'[t] = "commit" /\ \A u \in Threads \ {t} : pc'[u] = pc[u]
    BY <1>3, Moves DEF Inv, FinalCheck, Pcs
  <2>2. Armed' = Armed \cup {t}
    BY <2>1 DEF Armed
  <2>3. Gate!Arm(t)
    BY <1>1, <1>3, <2>2 DEF Gate!Arm, Armed, CancelRequested
  <2> QED
    BY <2>3 DEF Gate!Next
<1> QED
  BY <1>2, <1>3

\* Only an armed thread commits, and its arming is spent whether it succeeds
\* or fails.
LEMMA CommitRefines ==
  ASSUME Inv, Inv', NEW t \in Threads, Commit(t)
  PROVE  [Gate!Next]_(Gate!gateVars)
<1>1. pc'[t] = "save" /\ \A u \in Threads \ {t} : pc'[u] = pc[u]
  BY Moves DEF Inv, Commit, Pcs
<1>2. Armed' = Armed \ {t} /\ t \in Armed
  BY <1>1 DEF Armed, Commit
<1>3. row' = row
  BY DEF Commit
<1>4. committed' = committed \/ committed' = TRUE
  BY DEF Inv, TypeOK, Commit
<1>5. CASE committed' = committed
  BY <1>2, <1>3, <1>5 DEF Armed, CancelRequested, Gate!Next, Gate!Disarm
<1>6. CASE committed' = TRUE
  BY <1>2, <1>3, <1>6 DEF Armed, CancelRequested, Gate!Next, Gate!Commit
<1> QED
  BY <1>4, <1>5, <1>6

\* A crash disarms every thread and keeps what is durable.
LEMMA CrashRefines == ASSUME Crash PROVE [Gate!Next]_(Gate!gateVars)
<1>1. Armed' = {}
  BY DEF Crash, Armed
<1>2. row' = row /\ committed' = committed
  BY DEF Crash, worktree
<1> QED
  BY <1>1, <1>2 DEF Armed, CancelRequested, Gate!Next, Gate!Crash

(***************************************************************************)
(* Cancelling is irrevocable and stops every commit that has not passed    *)
(* the final check: the life of a run implements CommitGate, for every     *)
(* number of resume requests and crashes.                                  *)
(***************************************************************************)
THEOREM LifecycleStopsCommits == Spec => CancelStopsCommit
<1>1. Init => Gate!Init
  BY DEF Init, NewRow, CancelRequested, Gate!Init
<1>2. Inv /\ Inv' /\ [Next]_vars => [Gate!Next]_(Gate!gateVars)
  <2> SUFFICES ASSUME Inv, Inv', [Next]_vars PROVE [Gate!Next]_(Gate!gateVars)
    OBVIOUS
  <2>1. CASE CreateRun \/ StartRun \/ Provision \/ Cancel
    BY <2>1, StarterAndCancelAreQuiet
  <2>2. CASE Crash
    BY <2>2, CrashRefines
  <2>3. ASSUME NEW t \in Threads, Execute(t) PROVE [Gate!Next]_(Gate!gateVars)
    BY <2>3, HooksAreQuiet, ResumesAreQuiet, RunNodeRefines, FinalCheckRefines,
       CommitRefines DEF Execute
  <2>4. ASSUME NEW t \in Reviewers, NEW d \in Decisions, ApiResume(t, d)
        PROVE  [Gate!Next]_(Gate!gateVars)
    BY <2>4, ResumesAreQuiet
  <2>5. CASE UNCHANGED vars
    BY <2>5 DEF vars, worktree, CancelRequested, Gate!gateVars
  <2> QED
    BY <2>1, <2>2, <2>3, <2>4, <2>5 DEF Next
<1> QED
  BY <1>1, <1>2, LifecycleInvariant, PTL DEF Spec, CancelStopsCommit, Gate!Spec

-----------------------------------------------------------------------------
(* Every thread returns: the bound on its steps descends.                  *)

\* Thread t made its step: nearer to its return, alone, and with nothing of
\* the walk left once it rests.
Nearer(t) ==
  /\ ThreadLeft(t)' \in 0..(ThreadLeft(t) - 1)
  /\ pc'[t] \in Resting => loop'[t] = NoLoop
  /\ \A u \in Threads \ {t} : pc'[u] = pc[u] /\ loop'[u] = loop[u]

\* A thread that has not started, or has returned, holds no loop.
RestInv == \A t \in Threads : pc[t] \in Resting => loop[t] = NoLoop

\* The bound is a natural number, and only a returned thread is at zero.
LEMMA ThreadLeftBounds ==
  ASSUME Inv, NEW t \in Threads
  PROVE  /\ MaxNodes \in Nat /\ ThreadLeft(t) \in Nat
         /\ pc[t] # "done" => ThreadLeft(t) > 0
         /\ pc[t] = "node" => NodesLeft(loop[t].node, loop[t].vals) \in Nat
<1>1. MaxNodes \in Nat
  BY MaxRevisionsAssumption DEF MaxNodes
<1>2. pc[t] = "node" => NodesLeft(loop[t].node, loop[t].vals) \in Nat
  BY <1>1, NodesLeftBounds DEF Inv, ThreadInv
<1>3. HookLeft(intent[t]) \in Nat /\ HookLeft(intent[t]) > 0
  BY <1>1 DEF HookLeft
<1>4. pc[t] \in Pcs
  BY DEF Inv, TypeOK
<1> QED
  BY <1>1, <1>2, <1>3, <1>4 DEF ThreadLeft, Pcs

\* Return is the last step, wherever it is taken from.
LEMMA ReturnIsLast ==
  ASSUME Inv, NEW t \in Threads, pc[t] # "done", Return(t)
  PROVE  Nearer(t)
<1>1. /\ pc'[t] = "done" /\ loop'[t] = NoLoop
      /\ \A u \in Threads \ {t} : pc'[u] = pc[u] /\ loop'[u] = loop[u]
  BY Leaves DEF Return, Inv, TypeOK
<1>2. ThreadLeft(t)' = 0
  BY <1>1 DEF ThreadLeft
<1> QED
  BY <1>1, <1>2, ThreadLeftBounds DEF Nearer

\* A step that only moves t, to a place with less to do.
LEMMA MoveIsNearer ==
  ASSUME Inv, NEW t \in Threads, NEW p \in Pcs \ Resting, Goto(t, p),
         \A u \in Threads \ {t} : loop'[u] = loop[u],
         ThreadLeft(t)' \in Nat, ThreadLeft(t)' < ThreadLeft(t)
  PROVE  Nearer(t)
<1>1. pc'[t] = p /\ \A u \in Threads \ {t} : pc'[u] = pc[u]
  BY Moves DEF Inv
<1> QED
  BY <1>1, ThreadLeftBounds DEF Nearer

\* What is left after a checkpoint is what is left of the walk.
LEMMA SaveLeaves ==
  ASSUME Inv, NEW t \in Threads, NEW n, NEW v, WalkInv(n, v), Save(t, n, v),
         ThreadLeft(t) > 5, ThreadLeft(t) > NodesLeft(n, v) + 8 \/ n = END
  PROVE  Nearer(t)
<1>1. /\ pc'[t] = IF n = END THEN "derive" ELSE "node"
      /\ loop'[t].node = n /\ loop'[t].vals = v
      /\ \A u \in Threads \ {t} : pc'[u] = pc[u] /\ loop'[u] = loop[u]
  BY DEF Save, Goto, Inv, TypeOK
<1>2. ThreadLeft(t)' = IF n = END THEN 5 ELSE NodesLeft(n, v) + 8
  BY <1>1 DEF ThreadLeft
<1>3. NodesLeft(n, v) \in Nat
  BY NodesLeftBounds, MaxRevisionsAssumption DEF MaxNodes
<1> QED
  BY <1>1, <1>2, <1>3, ThreadLeftBounds DEF Nearer, Resting

\* Starting the run.
LEMMA StartIsNearer ==
  ASSUME Inv, CreateRun \/ StartRun \/ Provision PROVE Nearer(Starter)
<1>s. Starter \in Threads /\ MaxNodes \in Nat
  BY ThreadLeftBounds
<1>1. CASE CreateRun
  <2>1. pc'[Starter] = "queued" /\ Goto(Starter, "queued") /\ UNCHANGED loop
    BY <1>1 DEF CreateRun, local, Inv, TypeOK, Goto
  <2>2. ThreadLeft(Starter) = MaxNodes + 15 /\ ThreadLeft(Starter)' = MaxNodes + 13
    BY <1>1, <1>s, <2>1 DEF CreateRun, ThreadLeft
  <2> QED
    BY <1>s, <2>1, <2>2, MoveIsNearer DEF Pcs, Resting
<1>2. CASE StartRun
  <2>1. /\ pc'[Starter] = "read" /\ intent'[Starter] = "started"
        /\ Goto(Starter, "read") /\ UNCHANGED loop
    BY <1>2 DEF StartRun, Record, Inv, TypeOK, Goto
  <2>2. ThreadLeft(Starter) = MaxNodes + 13 /\ ThreadLeft(Starter)' = MaxNodes + 12
    BY <1>2, <1>s, <2>1 DEF StartRun, ThreadLeft, HookLeft
  <2> QED
    BY <1>s, <2>1, <2>2, MoveIsNearer DEF Pcs, Resting
<1>3. CASE Provision
  <2>1. ThreadLeft(Starter) = MaxNodes + 9
    BY <1>3 DEF Provision, ThreadLeft
  <2>2. CASE Save(Starter, "router", NewAgentState)
    <3>1. NodesLeft("router", NewAgentState) = MaxNodes
      BY MaxRevisionsAssumption DEF NodesLeft, MaxNodes, NewAgentState
    <3> QED
      BY <1>s, <2>1, <2>2, <3>1, WalkStart, SaveLeaves
  <2>3. CASE Goto(Starter, "failed") /\ UNCHANGED loop
    <3>1. pc'[Starter] = "failed"
      BY <1>s, <2>3 DEF Inv, TypeOK, Goto
    <3>2. ThreadLeft(Starter)' = 3
      BY <3>1 DEF ThreadLeft
    <3> QED
      BY <1>s, <2>1, <2>3, <3>2, MoveIsNearer DEF Pcs, Resting
  <2> QED
    BY <1>3, <2>2, <2>3 DEF Provision, Save
<1> QED
  BY <1>1, <1>2, <1>3

\* The collector hooks, and what they are followed by.
LEMMA HookIsNearer ==
  ASSUME Inv, NEW t \in Threads,
         CollectorRead(t) \/ CollectorContinue(t) \/ CollectorReturn(t)
  PROVE  Nearer(t)
<1>s. MaxNodes \in Nat
  BY ThreadLeftBounds
<1>1. CASE CollectorRead(t)
  <2>1. /\ pc[t] = "read" /\ pc'[t] = "write" /\ Goto(t, "write")
        /\ UNCHANGED <<loop, intent>>
    BY <1>1 DEF CollectorRead, Inv, TypeOK, Goto
  <2>2. /\ ThreadLeft(t) = HookLeft(intent[t]) + 1
        /\ ThreadLeft(t)' = HookLeft(intent[t])
    BY <2>1 DEF ThreadLeft, HookLeft
  <2>3. HookLeft(intent[t]) \in Nat
    BY <1>s DEF HookLeft
  <2> QED
    BY <2>1, <2>2, <2>3, MoveIsNearer DEF Pcs, Resting
<1>2. CASE CollectorContinue(t)
  <2>1. PICK p \in {"lock", "activate", "read"} :
          /\ Goto(t, p) /\ pc'[t] = p /\ pc[t] = "write" /\ UNCHANGED loop
          /\ \/ intent[t] = "started" /\ p = "lock"
             \/ intent[t] = "decide" /\ p = "activate"
             \/ intent[t] = "fail_commit" /\ p = "read"
                /\ intent'[t] = "commit_failed"
    BY <1>2 DEF CollectorContinue, Inv, TypeOK, Goto
  <2>2. ThreadLeft(t)' \in Nat /\ ThreadLeft(t)' < ThreadLeft(t)
    BY <1>s, <2>1 DEF ThreadLeft, HookLeft
  <2> QED
    BY <2>1, <2>2, MoveIsNearer DEF Pcs, Resting
<1>3. CASE CollectorReturn(t)
  BY <1>3, ReturnIsLast DEF CollectorReturn
<1> QED
  BY <1>1, <1>2, <1>3

\* A resume request up to the lock.
LEMMA ResumeIsNearer ==
  ASSUME Inv, NEW t \in Threads,
         \/ \E d \in Decisions : ApiResume(t, d)
         \/ ResumeGuard(t) \/ Activate(t)
  PROVE  Nearer(t)
<1>s. MaxNodes \in Nat
  BY ThreadLeftBounds
<1>1. CASE \E d \in Decisions : ApiResume(t, d)
  <2>1. pc[t] = "new" /\ pc'[t] = "guard" /\ Goto(t, "guard") /\ UNCHANGED loop
    BY <1>1 DEF ApiResume, Inv, TypeOK, Goto
  <2>2. ThreadLeft(t) = MaxNodes + 15 /\ ThreadLeft(t)' = MaxNodes + 14
    BY <1>s, <2>1 DEF ThreadLeft
  <2> QED
    BY <1>s, <2>1, <2>2, MoveIsNearer DEF Pcs, Resting
<1>2. CASE ResumeGuard(t)
  <2>1. CASE Return(t)
    BY <1>2, <2>1, ReturnIsLast DEF ResumeGuard
  <2>2. CASE Record(t, "decide") /\ UNCHANGED loop
    <3>1. /\ pc[t] = "guard" /\ pc'[t] = "read" /\ intent'[t] = "decide"
          /\ Goto(t, "read")
      BY <1>2, <2>2 DEF ResumeGuard, Record, Inv, TypeOK, Goto
    <3>2. ThreadLeft(t) = MaxNodes + 14 /\ ThreadLeft(t)' = MaxNodes + 13
      BY <1>s, <3>1 DEF ThreadLeft, HookLeft
    <3> QED
      BY <1>s, <2>2, <3>1, <3>2, MoveIsNearer DEF Pcs, Resting
  <2> QED
    BY <1>2, <2>1, <2>2 DEF ResumeGuard
<1>3. CASE Activate(t)
  <2>1. pc[t] = "activate" /\ pc'[t] = "lock" /\ Goto(t, "lock") /\ UNCHANGED loop
    BY <1>3 DEF Activate, local, Inv, TypeOK, Goto
  <2>2. ThreadLeft(t) = MaxNodes + 11 /\ ThreadLeft(t)' = MaxNodes + 10
    BY <1>s, <2>1 DEF ThreadLeft
  <2> QED
    BY <1>s, <2>1, <2>2, MoveIsNearer DEF Pcs, Resting
<1> QED
  BY <1>1, <1>2, <1>3

\* The lock: a resumed walk continues no earlier than the router.
LEMMA LockIsNearer ==
  ASSUME Inv, NEW t \in Threads, AcquireLock(t) \/ LockTimeout(t)
  PROVE  Nearer(t)
<1>s. MaxNodes \in Nat
  BY ThreadLeftBounds
<1>0. pc[t] = "lock" /\ ThreadLeft(t) = MaxNodes + 10
  BY DEF AcquireLock, LockTimeout, ThreadLeft
<1>1. CASE LockTimeout(t)
  <2>1. pc'[t] = "failed" /\ Goto(t, "failed") /\ UNCHANGED loop
    BY <1>1 DEF LockTimeout, local, Inv, TypeOK, Goto
  <2>2. ThreadLeft(t)' = 3
    BY <2>1 DEF ThreadLeft
  <2> QED
    BY <1>s, <1>0, <2>1, <2>2, MoveIsNearer DEF Pcs, Resting
<1>2. CASE AcquireLock(t) /\ t = Starter
  <2>1. pc'[t] = "provision" /\ Goto(t, "provision") /\ UNCHANGED loop
    BY <1>2 DEF AcquireLock, Inv, TypeOK, Goto
  <2>2. ThreadLeft(t)' = MaxNodes + 9
    BY <1>s, <2>1 DEF ThreadLeft
  <2> QED
    BY <1>s, <1>0, <2>1, <2>2, MoveIsNearer DEF Pcs, Resting
<1>3. CASE AcquireLock(t) /\ t # Starter
  <2>1. WalkInv(ckpt.next, ckpt.vals)
    BY <1>0, <1>3 DEF Inv, ThreadInv, CkptInv
  <2>2. PICK p \in {"derive", "node"} :
          /\ Goto(t, p) /\ pc'[t] = p
          /\ loop'[t].node = ckpt.next /\ loop'[t].vals = ckpt.vals
          /\ \A u \in Threads \ {t} : loop'[u] = loop[u]
    BY <1>3 DEF AcquireLock, Inv, TypeOK, Goto
  <2>3. NodesLeft(ckpt.next, ckpt.vals) \in 0..MaxNodes
    BY <2>1, NodesLeftBounds
  <2>4. ThreadLeft(t)' \in Nat /\ ThreadLeft(t)' < ThreadLeft(t)
    BY <1>s, <1>0, <2>2, <2>3 DEF ThreadLeft
  <2> QED
    BY <2>2, <2>4, MoveIsNearer DEF Pcs, Resting
<1> QED
  BY <1>1, <1>2, <1>3

\* A node, its pause, its exception: the walk goes on, or the thread unwinds.
LEMMA NodeIsNearer ==
  ASSUME Inv, NEW t \in Threads,
         \/ RunNode(t) \/ Pause(t) \/ NodeRaises(t) \/ NodeCancelled(t)
         \/ RefuseCommit(t) \/ PassDriftCheck(t)
  PROVE  Nearer(t)
<1> DEFINE left == NodesLeft(loop[t].node, loop[t].vals)
<1>0. /\ pc[t] = "node" /\ left \in Nat /\ ThreadLeft(t) = left + 8
      /\ WalkInv(loop[t].node, loop[t].vals) /\ decision[t] \in Decision
  <2>1. pc[t] = "node"
    BY DEF RunNode, Pause, NodeRaises, NodeCancelled, RefuseCommit, PassDriftCheck
  <2> QED
    BY <2>1, ThreadLeftBounds DEF ThreadLeft, Inv, ThreadInv, TypeOK
<1>1. CASE RunNode(t)
  <2>1. PICK v \in NodeResults(loop[t].node, loop[t].vals, decision[t]) :
          Save(t, Successor(loop[t].node, v), v)
    BY <1>1 DEF RunNode
  <2>2. /\ WalkInv(Successor(loop[t].node, v), v)
        /\ NodesLeft(Successor(loop[t].node, v), v) \in 0..(left - 1)
    BY <1>0, NodeStep, NodesDescend
  <2> HIDE DEF left
  <2> QED
    BY <1>0, <2>1, <2>2, SaveLeaves
<1>2. CASE \/ Pause(t) \/ NodeRaises(t) \/ NodeCancelled(t)
  <2>1. PICK p \in {"derive", "failed", "cancelled"} :
          Goto(t, p) /\ pc'[t] = p /\ UNCHANGED loop
    BY <1>2 DEF Pause, NodeRaises, NodeCancelled, Raise, local, Inv, TypeOK, Goto
  <2>2. ThreadLeft(t)' \in {5, 3, 1}
    BY <2>1 DEF ThreadLeft
  <2> HIDE DEF left
  <2> QED
    BY <1>0, <2>1, <2>2, MoveIsNearer DEF Pcs, Resting
<1>3. CASE RefuseCommit(t)
  <2>1. PICK v \in CommitRefusals(loop[t].vals) : Save(t, END, v)
    BY <1>3 DEF RefuseCommit
  <2>2. WalkInv(END, v)
    BY <1>0, <1>3, <2>1, CommitStep DEF RefuseCommit
  <2> HIDE DEF left
  <2> QED
    BY <1>0, <2>1, <2>2, SaveLeaves
<1>4. CASE PassDriftCheck(t)
  <2>1. /\ loop[t].node = "git_commit" /\ pc'[t] = "final" /\ Goto(t, "final")
        /\ UNCHANGED loop
    BY <1>4 DEF PassDriftCheck, local, Inv, TypeOK, Goto
  <2>2. ThreadLeft(t) = 9 /\ ThreadLeft(t)' = 8
    BY <1>0, <2>1 DEF ThreadLeft, NodesLeft
  <2> QED
    BY <2>1, <2>2, MoveIsNearer DEF Pcs, Resting
<1> QED
  BY <1>1, <1>2, <1>3, <1>4

\* The commit and its checkpoint.
LEMMA CommitIsNearer ==
  ASSUME Inv, NEW t \in Threads, FinalCheck(t) \/ Commit(t) \/ SaveCommit(t)
  PROVE  Nearer(t)
<1>1. CASE FinalCheck(t)
  <2>1. PICK p \in {"cancelled", "commit"} :
          pc[t] = "final" /\ Goto(t, p) /\ pc'[t] = p /\ UNCHANGED loop
    BY <1>1 DEF FinalCheck, Raise, local, Inv, TypeOK, Goto
  <2>2. ThreadLeft(t) = 8 /\ ThreadLeft(t)' \in {1, 7}
    BY <2>1 DEF ThreadLeft
  <2> QED
    BY <2>1, <2>2, MoveIsNearer DEF Pcs, Resting
<1>2. CASE Commit(t)
  <2>1. /\ pc[t] = "commit" /\ Goto(t, "save") /\ pc'[t] = "save"
        /\ \A u \in Threads \ {t} : loop'[u] = loop[u]
    BY <1>2 DEF Commit, Inv, TypeOK, Goto
  <2>2. ThreadLeft(t) = 7 /\ ThreadLeft(t)' = 6
    BY <2>1 DEF ThreadLeft
  <2> QED
    BY <2>1, <2>2, MoveIsNearer DEF Pcs, Resting
<1>3. CASE SaveCommit(t)
  <2>1. ThreadLeft(t) = 6 /\ WalkInv(END, loop[t].vals)
    BY <1>3 DEF SaveCommit, ThreadLeft, Inv, ThreadInv
  <2> QED
    BY <1>3, <2>1, SaveLeaves DEF SaveCommit
<1> QED
  BY <1>1, <1>2, <1>3

\* How start_run and resume_run end.
LEMMA EndIsNearer ==
  ASSUME Inv, NEW t \in Threads, Derive(t) \/ UnwindCancelled(t) \/ UnwindFailed(t)
  PROVE  Nearer(t)
<1>1. ASSUME Return(t) PROVE Nearer(t)
  BY <1>1, ReturnIsLast DEF Derive, UnwindCancelled, UnwindFailed
<1>2. CASE Derive(t)
  <2>1. PICK i : /\ i = Outcome(t, DeriveStatus(ckpt))
                 /\ \/ Return(t)
                    \/ /\ Record(t, i)
                       /\ \A u \in Threads \ {t} : loop'[u] = loop[u]
    BY <1>2 DEF Derive, Inv, TypeOK
  <2>2. i \in {"completed", "requested", "fail_commit", "failed", "none"}
    BY <2>1 DEF Outcome
  <2>3. CASE /\ Record(t, i) /\ \A u \in Threads \ {t} : loop'[u] = loop[u]
    <3>1. pc'[t] = "read" /\ intent'[t] = i /\ Goto(t, "read")
      BY <2>3 DEF Record, Inv, TypeOK, Goto
    <3>2. ThreadLeft(t) = 5 /\ ThreadLeft(t)' \in {2, 4}
      BY <1>2, <2>2, <3>1 DEF Derive, ThreadLeft, HookLeft
    <3> QED
      BY <2>3, <3>1, <3>2, MoveIsNearer DEF Pcs, Resting
  <2> QED
    BY <1>1, <2>1, <2>3
<1>3. CASE UnwindFailed(t)
  <2>1. /\ pc[t] = "failed" /\ pc'[t] = "read" /\ intent'[t] = "failed"
        /\ Goto(t, "read") /\ \A u \in Threads \ {t} : loop'[u] = loop[u]
    BY <1>3 DEF UnwindFailed, Record, Inv, TypeOK, Goto
  <2>2. ThreadLeft(t) = 3 /\ ThreadLeft(t)' = 2
    BY <2>1 DEF ThreadLeft, HookLeft
  <2> QED
    BY <2>1, <2>2, MoveIsNearer DEF Pcs, Resting
<1> QED
  BY <1>1, <1>2, <1>3 DEF UnwindCancelled

\* A crash ends every thread that has begun and moves no other.
LEMMA CrashIsNearer ==
  ASSUME Inv, RestInv, Crash, NEW t \in Threads
  PROVE  /\ loop'[t] = NoLoop
         /\ <<pc[t], loop[t]>>' # <<pc[t], loop[t]>> =>
              ThreadLeft(t)' \in 0..(ThreadLeft(t) - 1)
<1>1. /\ pc'[t] = IF pc[t] = "new" THEN "new" ELSE "done"
      /\ loop'[t] = NoLoop
  BY DEF Crash
<1>2. CASE pc[t] \in Resting
  BY <1>1, <1>2 DEF RestInv, Resting
<1>3. CASE pc[t] \notin Resting
  <2>1. ThreadLeft(t)' = 0
    BY <1>1, <1>3 DEF ThreadLeft, Resting
  <2> QED
    BY <1>1, <1>3, <2>1, ThreadLeftBounds DEF Resting
<1> QED
  BY <1>1, <1>2, <1>3

\* Every step of the system moves one thread nearer, or all to their end.
LEMMA LifecycleDescends ==
  ASSUME Inv, RestInv, Next
  PROVE  /\ RestInv'
         /\ \A t \in Threads :
              <<pc[t], loop[t]>>' # <<pc[t], loop[t]>> =>
                ThreadLeft(t)' \in 0..(ThreadLeft(t) - 1)
<1>1. ASSUME NEW t \in Threads, Nearer(t)
      PROVE  /\ RestInv'
             /\ \A u \in Threads :
                  <<pc[u], loop[u]>>' # <<pc[u], loop[u]>> =>
                    ThreadLeft(u)' \in 0..(ThreadLeft(u) - 1)
  BY <1>1 DEF Nearer, RestInv
<1>2. CASE Cancel
  BY <1>2 DEF Cancel, local, RestInv
<1>3. CASE Crash
  BY <1>3, CrashIsNearer DEF RestInv
<1>4. CASE CreateRun \/ StartRun \/ Provision
  BY <1>1, <1>4, StartIsNearer
<1>5. ASSUME NEW t \in Threads, Execute(t) PROVE Nearer(t)
  BY <1>5, HookIsNearer, ResumeIsNearer, LockIsNearer, NodeIsNearer,
     CommitIsNearer, EndIsNearer DEF Execute
<1>6. ASSUME NEW t \in Reviewers, NEW d \in Decisions, ApiResume(t, d)
      PROVE  Nearer(t)
  BY <1>6, ResumeIsNearer
<1> QED
  BY <1>1, <1>2, <1>3, <1>4, <1>5, <1>6 DEF Next

(***************************************************************************)
(* No interleaving of resume requests, cancellations and crashes sets a    *)
(* thread back: each of its own steps brings it nearer to its return, for  *)
(* every revision budget and every number of requests.                     *)
(***************************************************************************)
THEOREM ThreadsAreFinite == Spec => ThreadsDescend
<1>1. Init => RestInv
  BY DEF Init, RestInv
<1>2. Inv /\ RestInv /\ [Next]_vars => RestInv'
  <2>1. CASE UNCHANGED vars
    BY <2>1 DEF vars, local, RestInv
  <2> QED
    BY <2>1, LifecycleDescends
<1>3. Inv /\ RestInv /\ [Next]_vars =>
        [\A t \in Threads :
           <<pc[t], loop[t]>>' # <<pc[t], loop[t]>> =>
             ThreadLeft(t)' \in 0..(ThreadLeft(t) - 1)]_vars
  BY LifecycleDescends
<1> QED
  BY <1>1, <1>2, <1>3, LifecycleInvariant, PTL DEF Spec, ThreadsDescend
=============================================================================
