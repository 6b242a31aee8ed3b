--------------------------- MODULE WorkspaceLock ---------------------------
(***************************************************************************)
(* WorkspaceLockManager for one resource key: the threads of several       *)
(* processes acquire and release the lock for the runs they execute.       *)
(*                                                                         *)
(* The lock has two tiers.  Within a process, an RLock kept in             *)
(* _thread_locks; across processes, a kernel lock on a lock file.  A run   *)
(* that already owns the resource re-enters by run id, with or without the *)
(* RLock.  The metadata in the lock file outlives its writer; recovery     *)
(* reads it and drops the process's RLock, so a process may come to use    *)
(* several RLock objects for one key.                                      *)
(***************************************************************************)
EXTENDS Naturals, FiniteSets

CONSTANTS
  Threads, Processes, Runs,
  ProcOf,            \* the process of each thread
  None,              \* no thread, process or run
  TelemetryMayFail,  \* on_workspace_lock_acquired may raise
  MaxDepth,          \* bound on the depth of an RLock a thread never released
  MaxLocks,          \* bound on the RLock objects a process creates
  MaxCrashes         \* bound on crashes of processes

ASSUME ThreadsAssumption == IsFiniteSet(Threads) /\ ProcOf \in [Threads -> Processes]
ASSUME NoneAssumption == None \notin Threads \cup Processes \cup Runs
ASSUME TelemetryAssumption == TelemetryMayFail \in BOOLEAN
ASSUME BoundsAssumption == MaxDepth \in Nat /\ MaxLocks \in Nat \ {0} /\ MaxCrashes \in Nat

Locks == 1..MaxLocks

VARIABLES
  pc,        \* where each thread is in acquire_lock or release_lock
  run,       \* the run it acquires, holds or releases for
  mine,      \* its local thread_lock: an RLock object of its process, or 0
  fdl,       \* the descriptor its release_lock has popped
  thread_lock,  \* per process, the entry of _thread_locks: an object, or 0
  made,      \* per process, the RLock objects created so far
  rlock,     \* per process and object, its holder and depth
  owner,     \* per process, the entry of _lock_owners; count 0 when absent
  fd,        \* per process, the entry of _open_fds
  flock,     \* the process whose descriptor holds the kernel lock
  meta,      \* the lock file's metadata: the run, and its writer, maybe dead
  terminal,  \* the runs with a terminal status
  crashes

vars == <<pc, run, mine, fdl, thread_lock, made, rlock, owner, fd, flock,
          meta, terminal, crashes>>

NoOwner == [run |-> None, count |-> 0]
Free == [holder |-> None, depth |-> 0]
Descriptors == {"none", "open", "closed"}
Pcs == {"idle", "check", "poll", "recheck", "os", "register", "recover",
        "evict", "unlock", "late", "held", "free_os", "free_thread"}

TypeOK ==
  /\ pc \in [Threads -> Pcs]
  /\ run \in [Threads -> Runs \cup {None}]
  /\ mine \in [Threads -> 0..MaxLocks] /\ fdl \in [Threads -> Descriptors]
  /\ thread_lock \in [Processes -> 0..MaxLocks]
  /\ made \in [Processes -> 0..MaxLocks]
  /\ rlock \in [Processes -> [Locks -> [holder : Threads \cup {None}, depth : Nat]]]
  /\ owner \in [Processes -> [run : Runs \cup {None}, count : Nat]]
  /\ fd \in [Processes -> Descriptors]
  /\ flock \in Processes \cup {None}
  /\ meta \in [run : Runs \cup {None}, writer : Processes \cup {None}, dead : BOOLEAN]
  /\ terminal \subseteq Runs /\ crashes \in 0..MaxCrashes

Init ==
  /\ pc = [t \in Threads |-> "idle"] /\ run = [t \in Threads |-> None]
  /\ mine = [t \in Threads |-> 0] /\ fdl = [t \in Threads |-> "none"]
  /\ thread_lock = [p \in Processes |-> 0] /\ made = [p \in Processes |-> 0]
  /\ rlock = [p \in Processes |-> [k \in Locks |-> Free]]
  /\ owner = [p \in Processes |-> NoOwner] /\ fd = [p \in Processes |-> "none"]
  /\ flock = None
  /\ meta = [run |-> None, writer |-> None, dead |-> FALSE]
  /\ terminal = {} /\ crashes = 0

Goto(t, p) == pc' = [pc EXCEPT ![t] = p]
files == <<flock, meta>>
world == <<terminal, crashes>>

-----------------------------------------------------------------------------
(* The RLock objects of process p.                                         *)

\* _get_thread_lock: the registered object k, or a new one.
GetThreadLock(p, k) ==
  IF thread_lock[p] # 0
    THEN k = thread_lock[p] /\ UNCHANGED <<thread_lock, made>>
    ELSE /\ k = made[p] + 1 /\ k \in Locks
         /\ thread_lock' = [thread_lock EXCEPT ![p] = k]
         /\ made' = [made EXCEPT ![p] = k]

Available(t, k) == rlock[ProcOf[t]][k].holder \in {t, None}

\* RLock.release: a thread that does not hold the object gets a RuntimeError.
Released(t, k) ==
  [rlock EXCEPT ![ProcOf[t]][k] =
     IF @.holder # t THEN @
     ELSE IF @.depth = 1 THEN Free
     ELSE [holder |-> t, depth |-> @.depth - 1]]

-----------------------------------------------------------------------------
(* acquire_lock.                                                           *)

\* Mutant: re-entrancy for any run of the process.
OwnsAnyRun(t) == owner[ProcOf[t]].count > 0
Owns(t) == owner[ProcOf[t]].count > 0 /\ owner[ProcOf[t]].run = run[t]

\* The thread leaves acquire_lock or release_lock.
Leave(t) ==
  /\ Goto(t, "idle")
  /\ run' = [run EXCEPT ![t] = None]
  /\ mine' = [mine EXCEPT ![t] = 0]
  /\ fdl' = [fdl EXCEPT ![t] = "none"]

Begin(t, r) ==
  /\ pc[t] = "idle"
  /\ \A k \in Locks : rlock[ProcOf[t]][k].holder = t
                        => rlock[ProcOf[t]][k].depth < MaxDepth
  /\ run' = [run EXCEPT ![t] = r]
  /\ \E k \in Locks :
       /\ GetThreadLock(ProcOf[t], k)
       /\ mine' = [mine EXCEPT ![t] = k]
  /\ Goto(t, "check")
  /\ UNCHANGED <<fdl, rlock, owner, fd, files, world>>

\* The two re-entrancy checks, before and after the RLock is taken.
Check(t, from, otherwise) ==
  /\ pc[t] = from
  /\ IF Owns(t)
       THEN /\ owner' = [owner EXCEPT ![ProcOf[t]].count = @ + 1]
            /\ Goto(t, "held")
       ELSE Goto(t, otherwise) /\ UNCHANGED owner
  /\ UNCHANGED <<run, mine, fdl, thread_lock, made, rlock, fd, files, world>>

Reenter(t) == Check(t, "check", "poll")
Recheck(t) == Check(t, "recheck", "os")

\* thread_lock.acquire with its short timeout.
TakeThreadLock(t) ==
  /\ pc[t] = "poll"
  /\ IF Available(t, mine[t])
       THEN /\ rlock' = [rlock EXCEPT ![ProcOf[t]][mine[t]] =
                           [holder |-> t, depth |-> @.depth + 1]]
            /\ Goto(t, "recheck")
       ELSE Goto(t, "late") /\ UNCHANGED rlock
  /\ UNCHANGED <<run, mine, fdl, thread_lock, made, owner, fd, files, world>>

\* Mutant: the kernel lock excludes other processes only (POSIX record locks).
TryOsLockPerProcess(t) ==
  /\ pc[t] = "os"
  /\ \/ /\ flock \in {None, ProcOf[t]}
        /\ flock' = ProcOf[t]
        /\ Goto(t, "register")
     \/ Goto(t, "recover") /\ UNCHANGED flock
  /\ UNCHANGED <<run, mine, fdl, thread_lock, made, rlock, owner, fd, meta,
                 world>>
\* os.open and _try_os_lock; os.open may fail.
TryOsLock(t) ==
  /\ pc[t] = "os"
  /\ \/ /\ flock = None
        /\ flock' = ProcOf[t]
        /\ Goto(t, "register")
     \/ Goto(t, "recover") /\ UNCHANGED flock
  /\ UNCHANGED <<run, mine, fdl, thread_lock, made, rlock, owner, fd, meta,
                 world>>

\* Writing the metadata may fail, unnoticed.  The owner is recorded; if the
\* telemetry then raises, the handler closes the descriptor and nothing else.
Register(t) ==
  /\ pc[t] = "register"
  /\ meta' \in {meta, [run |-> run[t], writer |-> ProcOf[t], dead |-> FALSE]}
  /\ owner' = [owner EXCEPT ![ProcOf[t]] = [run |-> run[t], count |-> 1]]
  /\ \/ /\ fd' = [fd EXCEPT ![ProcOf[t]] = "open"]
        /\ Goto(t, "held")
        /\ UNCHANGED flock
     \/ /\ TelemetryMayFail
        /\ fd' = [fd EXCEPT ![ProcOf[t]] = "closed"]
        /\ flock' = None
        /\ Goto(t, "recover")
  /\ UNCHANGED <<run, mine, fdl, thread_lock, made, rlock, world>>

\* _try_recover_stale_lock: a dead writer of a terminal run is stale ...
Recover(t) ==
  /\ pc[t] = "recover"
  /\ Goto(t, IF meta.dead /\ meta.run \in terminal THEN "evict" ELSE "unlock")
  /\ UNCHANGED <<run, mine, fdl, thread_lock, made, rlock, owner, fd, files,
                 world>>

\* ... and a process that records no owner forgets its descriptor and RLock.
Evict(t) ==
  /\ pc[t] = "evict"
  /\ IF owner[ProcOf[t]].count = 0 /\ made[ProcOf[t]] < MaxLocks
       THEN /\ thread_lock' = [thread_lock EXCEPT ![ProcOf[t]] = 0]
            /\ fd' = [fd EXCEPT ![ProcOf[t]] = "none"]
            /\ flock' = IF fd[ProcOf[t]] = "open" THEN None ELSE flock
       ELSE UNCHANGED <<thread_lock, fd, flock>>
  /\ Goto(t, "unlock")
  /\ UNCHANGED <<run, mine, fdl, made, rlock, owner, meta, world>>

Unlock(t) ==
  /\ pc[t] = "unlock"
  /\ rlock' = Released(t, mine[t])
  /\ Goto(t, "late")
  /\ UNCHANGED <<run, mine, fdl, thread_lock, made, owner, fd, files, world>>

\* Before the deadline the loop goes on; after it the acquisition fails.
TryAgain(t) ==
  /\ pc[t] = "late"
  /\ Goto(t, "poll")
  /\ UNCHANGED <<run, mine, fdl, thread_lock, made, rlock, owner, fd, files,
                 world>>

\* Mutant: the deadline is looked at only while the thread lock is free.
TimeOutWhenFree(t) ==
  /\ pc[t] = "late" /\ Available(t, mine[t])
  /\ Leave(t)
  /\ UNCHANGED <<thread_lock, made, rlock, owner, fd, files, world>>
TimeOut(t) ==
  /\ pc[t] = "late"
  /\ Leave(t)
  /\ UNCHANGED <<thread_lock, made, rlock, owner, fd, files, world>>

-----------------------------------------------------------------------------
(* release_lock.                                                           *)

\* Not held, or owned by another run (PermissionError): nothing changes.
ReleaseRefused(t) ==
  /\ pc[t] = "held" /\ ~Owns(t)
  /\ Leave(t)
  /\ UNCHANGED <<thread_lock, made, rlock, owner, fd, files, world>>

\* Mutant: a nested release forgets to count itself out.
ReleaseNestedUncounted(t) ==
  /\ pc[t] = "held" /\ Owns(t) /\ owner[ProcOf[t]].count > 1
  /\ Leave(t)
  /\ UNCHANGED <<thread_lock, made, rlock, owner, fd, files, world>>
ReleaseNested(t) ==
  /\ pc[t] = "held" /\ Owns(t) /\ owner[ProcOf[t]].count > 1
  /\ owner' = [owner EXCEPT ![ProcOf[t]].count = @ - 1]
  /\ Leave(t)
  /\ UNCHANGED <<thread_lock, made, rlock, fd, files, world>>

ReleaseLast(t) ==
  /\ pc[t] = "held" /\ Owns(t) /\ owner[ProcOf[t]].count = 1
  /\ owner' = [owner EXCEPT ![ProcOf[t]] = NoOwner]
  /\ fdl' = [fdl EXCEPT ![t] = fd[ProcOf[t]]]
  /\ fd' = [fd EXCEPT ![ProcOf[t]] = "none"]
  /\ Goto(t, "free_os")
  /\ UNCHANGED <<run, mine, thread_lock, made, rlock, files, world>>

\* Mutant: the descriptor is dropped without unlocking the file.
FreeOsLockSkipped(t) ==
  /\ pc[t] = "free_os"
  /\ Goto(t, "free_thread")
  /\ UNCHANGED <<run, mine, fdl, thread_lock, made, rlock, owner, fd, files,
                 world>>
FreeOsLock(t) ==
  /\ pc[t] = "free_os"
  /\ flock' = IF fdl[t] = "open" THEN None ELSE flock
  /\ Goto(t, "free_thread")
  /\ UNCHANGED <<run, mine, fdl, thread_lock, made, rlock, owner, fd, meta,
                 world>>

\* The RLock is looked up again, and a RuntimeError is swallowed.
FreeThreadLock(t) ==
  /\ pc[t] = "free_thread"
  /\ \E k \in Locks :
       /\ GetThreadLock(ProcOf[t], k)
       /\ rlock' = Released(t, k)
  /\ Leave(t)
  /\ UNCHANGED <<owner, fd, files, world>>

-----------------------------------------------------------------------------
\* A run reaches a terminal status: executed elsewhere, or cancelled.
EndRun(r) ==
  /\ terminal' = terminal \cup {r}
  /\ UNCHANGED <<pc, run, mine, fdl, thread_lock, made, rlock, owner, fd, files,
                 crashes>>

\* The kernel drops the locks of a dead process; the file stays.
Crash(p) ==
  /\ crashes < MaxCrashes
  /\ crashes' = crashes + 1
  /\ pc' = [t \in Threads |-> IF ProcOf[t] = p THEN "idle" ELSE pc[t]]
  /\ run' = [t \in Threads |-> IF ProcOf[t] = p THEN None ELSE run[t]]
  /\ mine' = [t \in Threads |-> IF ProcOf[t] = p THEN 0 ELSE mine[t]]
  /\ fdl' = [t \in Threads |-> IF ProcOf[t] = p THEN "none" ELSE fdl[t]]
  /\ thread_lock' = [thread_lock EXCEPT ![p] = 0]
  /\ made' = [made EXCEPT ![p] = 0]
  /\ rlock' = [rlock EXCEPT ![p] = [k \in Locks |-> Free]]
  /\ owner' = [owner EXCEPT ![p] = NoOwner]
  /\ fd' = [fd EXCEPT ![p] = "none"]
  /\ flock' = IF flock = p THEN None ELSE flock
  /\ meta' = IF meta.writer = p THEN [meta EXCEPT !.dead = TRUE] ELSE meta
  /\ UNCHANGED terminal

Acquiring(t) ==
  \/ Reenter(t) \/ TakeThreadLock(t) \/ Recheck(t) \/ TryOsLock(t)
  \/ Register(t) \/ Recover(t) \/ Evict(t) \/ Unlock(t) \/ TryAgain(t)

Releasing(t) ==
  \/ ReleaseRefused(t) \/ ReleaseNested(t) \/ ReleaseLast(t)
  \/ FreeOsLock(t) \/ FreeThreadLock(t)

Next ==
  \/ \E t \in Threads : Acquiring(t) \/ TimeOut(t) \/ Releasing(t)
  \/ \E t \in Threads, r \in Runs : Begin(t, r)
  \/ \E r \in Runs : EndRun(r)
  \/ \E p \in Processes : Crash(p)

\* Threads run, the deadline of an acquisition passes, and the context manager
\* releases what it acquired; nobody has to acquire.
Spec ==
  /\ Init /\ [][Next]_vars
  /\ \A t \in Threads :
       WF_vars(Acquiring(t)) /\ SF_vars(TimeOut(t)) /\ WF_vars(Releasing(t))

-----------------------------------------------------------------------------
Holders(p) == {t \in Threads : ProcOf[t] = p /\ pc[t] = "held"}

(***************************************************************************)
(* What the two tiers, the re-entry count and the recovery of stale locks  *)
(* add up to: threads enter, leave and die as RunLock lets them, the       *)
(* workspace never passing to another run or process while anyone of the   *)
(* former is inside.  It is this lock that RunLifecycle and                *)
(* SharedWorkspace rely on.                                                *)
(***************************************************************************)
Inside == [t \in Threads |-> IF pc[t] = "held" THEN run[t] ELSE None]
Lock == INSTANCE RunLock WITH inside <- Inside
ImplementsRunLock == Lock!Spec

(***************************************************************************)
(* "Same mutable resource -> same lock (serialized access)": two threads   *)
(* that both hold the workspace work for the same run, in one process.     *)
(***************************************************************************)
MutualExclusion ==
  \A t, u \in Threads : (pc[t] = "held" /\ pc[u] = "held")
    => run[t] = run[u] /\ ProcOf[t] = ProcOf[u]

(***************************************************************************)
(* The re-entrancy count is the number of threads inside, so that only the *)
(* last of them gives the lock back; and while it is positive the process  *)
(* does hold the kernel lock.                                              *)
(***************************************************************************)
CountIsHolders ==
  \A p \in Processes :
    /\ owner[p].count = Cardinality(Holders(p))
    /\ owner[p].count > 0 => flock = p /\ fd[p] = "open"

(***************************************************************************)
(* A kernel lock is never orphaned: as long as a process has it, one of    *)
(* its threads holds the workspace or is on its way in or out.             *)
(***************************************************************************)
KernelLockIsUsed ==
  flock # None =>
    \E t \in Threads :
      ProcOf[t] = flock /\ pc[t] \in {"register", "held", "free_os"}

(***************************************************************************)
(* Every acquisition ends, with the lock or with a timeout.                *)
(***************************************************************************)
AcquireReturns ==
  \A t \in Threads : pc[t] # "idle" ~> pc[t] \in {"held", "idle"}
=============================================================================
