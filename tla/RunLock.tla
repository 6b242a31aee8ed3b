------------------------------ MODULE RunLock ------------------------------
(***************************************************************************)
(* What workspace_lock promises its callers, with both tiers, the re-entry *)
(* count, the lock file and its metadata left out: the workspace belongs   *)
(* to one run of one process at a time.  Any number of threads of that     *)
(* process may be inside for that run; the workspace changes hands only    *)
(* when nobody is inside; and a process that dies takes all its threads    *)
(* out at once.                                                            *)
(***************************************************************************)
CONSTANTS Threads, Processes, Runs, ProcOf, None

VARIABLE inside   \* the run each thread is inside for, or None

Init == inside = [t \in Threads |-> None]

Enter(t, r) ==
  /\ inside[t] = None
  /\ \A u \in Threads :
       inside[u] # None => inside[u] = r /\ ProcOf[u] = ProcOf[t]
  /\ inside' = [inside EXCEPT ![t] = r]

Leave(t) ==
  /\ inside[t] # None
  /\ inside' = [inside EXCEPT ![t] = None]

Die(p) ==
  inside' = [t \in Threads |-> IF ProcOf[t] = p THEN None ELSE inside[t]]

Next ==
  \/ \E t \in Threads, r \in Runs : Enter(t, r)
  \/ \E t \in Threads : Leave(t)
  \/ \E p \in Processes : Die(p)

Spec == Init /\ [][Next]_inside
=============================================================================
