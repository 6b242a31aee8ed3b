----------------------------- MODULE CommitGate -----------------------------
(***************************************************************************)
(* What cancelling a run promises, with everything but the promise left    *)
(* out: a cancellation request is irrevocable, and it stops every commit   *)
(* that has not yet passed the final check_cancelled of git_commit_node.   *)
(* An executor that passed that check is armed; only an armed executor     *)
(* commits, and it commits once per arming.                                *)
(***************************************************************************)
CONSTANT Executors

VARIABLES
  cancelled,   \* a cancellation has been recorded
  armed,       \* the executors between their final check and their commit
  committed    \* the run's branch holds a commit

gateVars == <<cancelled, armed, committed>>

Init == cancelled = FALSE /\ armed = {} /\ committed = FALSE

RequestCancel ==
  /\ cancelled' = TRUE
  /\ UNCHANGED <<armed, committed>>

Arm(e) ==
  /\ ~cancelled
  /\ armed' = armed \cup {e}
  /\ UNCHANGED <<cancelled, committed>>

Commit(e) ==
  /\ e \in armed
  /\ armed' = armed \ {e}
  /\ committed' = TRUE
  /\ UNCHANGED cancelled

Disarm(e) ==
  /\ armed' = armed \ {e}
  /\ UNCHANGED <<cancelled, committed>>

\* A branch that is cleaned up loses its commit.
Discard ==
  /\ committed' = FALSE
  /\ UNCHANGED <<cancelled, armed>>

Crash ==
  /\ armed' = {}
  /\ UNCHANGED <<cancelled, committed>>

Next ==
  \/ RequestCancel \/ Discard \/ Crash
  \/ \E e \in Executors : Arm(e) \/ Commit(e) \/ Disarm(e)

Spec == Init /\ [][Next]_gateVars
=============================================================================
