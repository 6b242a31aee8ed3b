-------------------------- MODULE MCWorkspaceLock --------------------------
EXTENDS WorkspaceLock, TLC
CONSTANTS a1, a2, b1, A, B, r1, r2

\* Two threads in process A, one in process B.
TwoProcesses == a1 :> A @@ a2 :> A @@ b1 :> B
\* The two threads of process A alone.
OneProcess == a1 :> A @@ a2 :> A
RunSymmetry == Permutations(Runs)
=============================================================================
