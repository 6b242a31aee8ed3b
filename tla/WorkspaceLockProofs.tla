------------------------ MODULE WorkspaceLockProofs ------------------------
(***************************************************************************)
(* The safety of WorkspaceLock for any number of threads, processes, runs  *)
(* and crashes, provided the telemetry call inside acquire_lock does not   *)
(* raise; the types hold in any case.                                      *)
(*                                                                         *)
(* The inductive invariant names, at every moment, who is responsible for  *)
(* the kernel lock: the process whose _lock_owners entry is present, or    *)
(* the one thread that has locked the file and not yet recorded it, or has *)
(* removed the record and not yet unlocked the file (the custodian).  On   *)
(* it rests the refinement of RunLock.                                     *)
(***************************************************************************)
EXTENDS WorkspaceLock, FiniteSetTheorems, TLAPS

TypeInv ==
  /\ pc \in [Threads -> Pcs] /\ run \in [Threads -> Runs \cup {None}]
  /\ fdl \in [Threads -> Descriptors] /\ fd \in [Processes -> Descriptors]
  /\ owner \in [Processes -> [run : Runs \cup {None}, count : Nat]]
  /\ flock \in Processes \cup {None}

Custodian(t) == pc[t] = "register" \/ (pc[t] = "free_os" /\ fdl[t] = "open")

ProcessInv(p) ==
  /\ owner[p].count = Cardinality(Holders(p))
  /\ owner[p].count > 0 => flock = p /\ fd[p] = "open"
  /\ owner[p].count = 0 => fd[p] = "none"

ThreadInv(t) ==
  /\ pc[t] = "held" => owner[ProcOf[t]].run = run[t]
  /\ Custodian(t) =>
       /\ flock = ProcOf[t] /\ owner[ProcOf[t]].count = 0
       /\ \A u \in Threads : Custodian(u) => u = t

KernelInv ==
  flock # None =>
    \/ owner[flock].count > 0
    \/ \E t \in Threads : Custodian(t) /\ ProcOf[t] = flock

Inv ==
  /\ TypeInv /\ KernelInv
  /\ \A p \in Processes : ProcessInv(p)
  /\ \A t \in Threads : ThreadInv(t)

-----------------------------------------------------------------------------
(* Counting the threads inside.                                            *)

\* The threads of a process inside are finitely many, and there is one as soon
\* as their number is positive.
LEMMA HoldersFinite ==
  ASSUME NEW p \in Processes
  PROVE  /\ IsFiniteSet(Holders(p)) /\ Cardinality(Holders(p)) \in Nat
         /\ Cardinality(Holders(p)) > 0 <=> \E t \in Threads : t \in Holders(p)
<1>1. Holders(p) \subseteq Threads
  BY DEF Holders
<1>2. IsFiniteSet(Holders(p))
  BY <1>1, ThreadsAssumption, FS_Subset
<1>3. Cardinality(Holders(p)) \in Nat /\ (Cardinality(Holders(p)) = 0 <=> Holders(p) = {})
  BY <1>2, FS_CardinalityType, FS_EmptySet
<1> QED
  BY <1>1, <1>2, <1>3

\* A thread that comes inside raises its process's number by one, and no other.
LEMMA HoldersGrow ==
  ASSUME NEW t \in Threads, pc[t] # "held", pc'[t] = "held",
         \A u \in Threads \ {t} : pc'[u] = pc[u], NEW p \in Processes
  PROVE  Cardinality(Holders(p)') =
           IF p = ProcOf[t] THEN Cardinality(Holders(p)) + 1
                            ELSE Cardinality(Holders(p))
<1>1. CASE p = ProcOf[t]
  <2>1. Holders(p)' = Holders(p) \cup {t} /\ t \notin Holders(p)
    BY <1>1 DEF Holders
  <2> QED
    BY <1>1, <2>1, HoldersFinite, FS_AddElement
<1>2. CASE p # ProcOf[t]
  <2>1. Holders(p)' = Holders(p)
    BY <1>2 DEF Holders
  <2> QED
    BY <1>2, <2>1
<1> QED
  BY <1>1, <1>2

\* A thread that goes lowers it by one.
LEMMA HoldersShrink ==
  ASSUME NEW t \in Threads, pc[t] = "held", pc'[t] # "held",
         \A u \in Threads \ {t} : pc'[u] = pc[u], NEW p \in Processes
  PROVE  Cardinality(Holders(p)') =
           IF p = ProcOf[t] THEN Cardinality(Holders(p)) - 1
                            ELSE Cardinality(Holders(p))
<1>1. CASE p = ProcOf[t]
  <2>1. Holders(p)' = Holders(p) \ {t} /\ t \in Holders(p)
    BY <1>1 DEF Holders
  <2>2. Cardinality(Holders(p) \ {t}) = Cardinality(Holders(p)) - 1
    <3>1. IsFiniteSet(Holders(p))
      BY HoldersFinite
    <3> QED
      BY <2>1, <3>1, FS_RemoveElement
  <2> QED
    BY <1>1, <2>1, <2>2
<1>2. CASE p # ProcOf[t]
  <2>1. Holders(p)' = Holders(p)
    BY <1>2 DEF Holders
  <2> QED
    BY <1>2, <2>1
<1> QED
  BY <1>1, <1>2

-----------------------------------------------------------------------------
(* Every action keeps the invariant.                                       *)

\* The invariant holds when nobody has asked for the lock.
LEMMA InvInit == Init => Inv
<1> SUFFICES ASSUME Init PROVE Inv
  OBVIOUS
<1>1. TypeInv
  BY DEF Init, TypeInv, Pcs, Descriptors, NoOwner
<1>2. KernelInv
  BY DEF Init, KernelInv
<1>3. ASSUME NEW p \in Processes PROVE ProcessInv(p)
  <2>1. Holders(p) = {}
    BY DEF Init, Holders
  <2> QED
    BY <2>1, FS_EmptySet DEF Init, ProcessInv, NoOwner
<1>4. ASSUME NEW t \in Threads PROVE ThreadInv(t)
  BY <1>4 DEF Init, ThreadInv, Custodian
<1> QED
  BY <1>1, <1>2, <1>3, <1>4 DEF Inv

\* The places where a thread has nothing to do with the kernel lock.
Outside == Pcs \ {"held", "register", "free_os"}

\* A thread that moves between two such places disturbs nothing.
LEMMA Elsewhere ==
  ASSUME Inv, NEW t \in Threads, pc[t] \in Outside, pc'[t] \in Outside,
         pc' \in [Threads -> Pcs], run' \in [Threads -> Runs \cup {None}],
         fdl' \in [Threads -> Descriptors],
         \A u \in Threads \ {t} :
           pc'[u] = pc[u] /\ run'[u] = run[u] /\ fdl'[u] = fdl[u],
         UNCHANGED <<owner, fd, flock>>
  PROVE  Inv'
<1>1. TypeInv'
  BY DEF Inv, TypeInv
<1>2. \A u \in Threads : (Custodian(u)' <=> Custodian(u)) /\ ~Custodian(t)
  BY DEF Custodian, Outside
<1>3. KernelInv'
  BY <1>2 DEF Inv, KernelInv
<1>4. ASSUME NEW p \in Processes PROVE ProcessInv(p)'
  <2>1. Holders(p)' = Holders(p)
    BY DEF Holders, Outside
  <2> QED
    BY <2>1 DEF Inv, ProcessInv
<1>5. ASSUME NEW u \in Threads PROVE ThreadInv(u)'
  BY <1>2 DEF Inv, ThreadInv, Outside
<1> QED
  BY <1>1, <1>3, <1>4, <1>5 DEF Inv

\* The steps of acquire_lock and release_lock that stay outside.
LEMMA OutsideSteps ==
  ASSUME Inv, NEW t \in Threads,
         \/ \E r \in Runs : Begin(t, r)
         \/ TakeThreadLock(t) \/ Recover(t) \/ Unlock(t) \/ TryAgain(t)
         \/ TimeOut(t) \/ FreeThreadLock(t)
         \/ (Reenter(t) \/ Recheck(t)) /\ ~Owns(t)
         \/ TryOsLock(t) /\ UNCHANGED flock
  PROVE  Inv'
<1>1. /\ pc' \in [Threads -> Pcs] /\ pc[t] \in Outside /\ pc'[t] \in Outside
      /\ \A u \in Threads \ {t} : pc'[u] = pc[u]
  <2>1. PICK p \in Outside : Goto(t, p)
    <3>0. {"idle", "check", "poll", "recheck", "os", "recover", "evict", "unlock",
           "late"} \subseteq Outside
      BY DEF Outside, Pcs
    <3>1. CASE \/ \E r \in Runs : Begin(t, r)
               \/ TakeThreadLock(t) \/ Unlock(t) \/ TryAgain(t)
      BY <3>0, <3>1 DEF Begin, TakeThreadLock, Unlock, TryAgain
    <3>2. CASE Recover(t)
      BY <3>0, <3>2 DEF Recover
    <3>3. CASE TimeOut(t) \/ FreeThreadLock(t)
      BY <3>0, <3>3 DEF TimeOut, FreeThreadLock, Leave
    <3>4. CASE (Reenter(t) \/ Recheck(t)) /\ ~Owns(t)
      BY <3>0, <3>4 DEF Reenter, Recheck, Check
    <3>5. CASE TryOsLock(t) /\ UNCHANGED flock
      BY <3>0, <3>5, ThreadsAssumption, NoneAssumption DEF TryOsLock
    <3> QED
      BY <3>1, <3>2, <3>3, <3>4, <3>5
  <2>2. pc[t] \in Outside
    BY DEF Begin, TakeThreadLock, Recover, Unlock, TryAgain, TimeOut,
           FreeThreadLock, Reenter, Recheck, Check, TryOsLock, Outside, Pcs
  <2> QED
    BY <2>1, <2>2 DEF Inv, TypeInv, Goto, Outside
<1>2. /\ run' \in [Threads -> Runs \cup {None}]
      /\ \A u \in Threads \ {t} : run'[u] = run[u]
  BY DEF Inv, TypeInv, Begin, TakeThreadLock, Recover, Unlock, TryAgain,
         TimeOut, FreeThreadLock, Reenter, Recheck, Check, TryOsLock, Leave
<1>3. /\ fdl' \in [Threads -> Descriptors]
      /\ \A u \in Threads \ {t} : fdl'[u] = fdl[u]
  BY DEF Inv, TypeInv, Begin, TakeThreadLock, Recover, Unlock, TryAgain,
         TimeOut, FreeThreadLock, Reenter, Recheck, Check, TryOsLock, Leave,
         Descriptors
<1>4. UNCHANGED <<owner, fd, flock>>
  BY DEF Begin, TakeThreadLock, Recover, Unlock, TryAgain, TimeOut,
         FreeThreadLock, Reenter, Recheck, Check, TryOsLock, Leave, files
<1> QED
  BY <1>1, <1>2, <1>3, <1>4, Elsewhere

\* A run that already owns the resource comes in once more.
LEMMA ReenterStep ==
  ASSUME Inv, NEW t \in Threads, Reenter(t) \/ Recheck(t), Owns(t)
  PROVE  Inv'
<1> DEFINE q == ProcOf[t]
<1>0. q \in Processes
  BY ThreadsAssumption
<1>1. /\ pc' \in [Threads -> Pcs] /\ pc[t] \in Outside /\ pc'[t] = "held"
      /\ \A u \in Threads \ {t} : pc'[u] = pc[u]
  BY DEF Inv, TypeInv, Reenter, Recheck, Check, Goto, Outside, Pcs
<1>2. /\ owner' \in [Processes -> [run : Runs \cup {None}, count : Nat]]
      /\ owner'[q].run = owner[q].run /\ owner'[q].count = owner[q].count + 1
      /\ \A p \in Processes \ {q} : owner'[p] = owner[p]
  BY <1>0 DEF Inv, TypeInv, Reenter, Recheck, Check
<1>3. UNCHANGED <<run, fdl, fd, flock>>
  BY DEF Reenter, Recheck, Check, files
<1>4. owner[q].run = run[t] /\ owner[q].count > 0 /\ owner[q].count \in Nat
  BY <1>0 DEF Inv, TypeInv, Owns
<1>5. \A u \in Threads : Custodian(u)' <=> Custodian(u)
  BY <1>1, <1>3 DEF Custodian, Outside
<1>6. \A u \in Threads : Custodian(u) => ProcOf[u] # q
  BY <1>4 DEF Inv, ThreadInv
<1>7. TypeInv'
  BY <1>1, <1>2, <1>3 DEF Inv, TypeInv
<1>8. KernelInv'
  <2>1. \A p \in Processes : owner[p].count > 0 => owner'[p].count > 0
    BY <1>0, <1>2, <1>4
  <2>2. flock # None => flock \in Processes
    BY DEF Inv, TypeInv
  <2> QED
    BY <1>3, <1>5, <2>1, <2>2 DEF Inv, KernelInv
<1>9. ASSUME NEW p \in Processes PROVE ProcessInv(p)'
  <2>1. Cardinality(Holders(p)') =
          IF p = q THEN Cardinality(Holders(p)) + 1 ELSE Cardinality(Holders(p))
    BY <1>1, HoldersGrow DEF Outside
  <2>2. ProcessInv(p)
    BY DEF Inv
  <2> QED
    BY <1>2, <1>3, <1>4, <2>1, <2>2 DEF ProcessInv
<1>10. ASSUME NEW u \in Threads PROVE ThreadInv(u)'
  <2>1. ThreadInv(u) /\ ProcOf[u] \in Processes
    BY ThreadsAssumption DEF Inv
  <2>2. owner'[ProcOf[u]].run = owner[ProcOf[u]].run
    BY <1>2, <2>1
  <2>3. ProcOf[u] # q => owner'[ProcOf[u]] = owner[ProcOf[u]]
    BY <1>2, <2>1
  <2> QED
    BY <1>1, <1>3, <1>4, <1>5, <1>6, <2>1, <2>2, <2>3 DEF ThreadInv
<1> QED
  BY <1>7, <1>8, <1>9, <1>10 DEF Inv

\* The thread that locks the file becomes its custodian.
LEMMA LockFileStep ==
  ASSUME Inv, NEW t \in Threads, TryOsLock(t), flock = None, flock' = ProcOf[t],
         Goto(t, "register")
  PROVE  Inv'
<1>0. ProcOf[t] \in Processes /\ ProcOf[t] # None
  BY ThreadsAssumption, NoneAssumption
<1>1. /\ pc' \in [Threads -> Pcs] /\ pc[t] = "os" /\ pc'[t] = "register"
      /\ \A u \in Threads \ {t} : pc'[u] = pc[u]
  BY DEF Inv, TypeInv, TryOsLock, Goto, Pcs
<1>2. UNCHANGED <<run, fdl, owner, fd>>
  BY DEF TryOsLock
<1>3. \A u \in Threads : ~Custodian(u)
  <2>1. \A u \in Threads : ProcOf[u] # None
    BY ThreadsAssumption, NoneAssumption
  <2> QED
    BY <2>1 DEF Inv, ThreadInv
<1>4. \A u \in Threads : Custodian(u)' <=> u = t
  BY <1>1, <1>2, <1>3 DEF Custodian
<1>5. \A p \in Processes : owner[p].count = 0
  <2>1. \A p \in Processes : p # None /\ owner[p].count \in Nat
    BY NoneAssumption DEF Inv, TypeInv
  <2> QED
    BY <2>1 DEF Inv, ProcessInv
<1>6. TypeInv'
  BY <1>0, <1>1, <1>2 DEF Inv, TypeInv
<1>7. KernelInv'
  BY <1>4 DEF KernelInv
<1>8. ASSUME NEW p \in Processes PROVE ProcessInv(p)'
  <2>1. Holders(p)' = Holders(p)
    BY <1>1 DEF Holders
  <2> QED
    BY <1>2, <1>5, <2>1 DEF Inv, ProcessInv
<1>9. ASSUME NEW u \in Threads PROVE ThreadInv(u)'
  BY <1>0, <1>1, <1>2, <1>4, <1>5 DEF Inv, ThreadInv
<1> QED
  BY <1>6, <1>7, <1>8, <1>9 DEF Inv

\* The custodian that records the owner hands the kernel lock to the record.
LEMMA RegisterStep ==
  ASSUME ~TelemetryMayFail, Inv, NEW t \in Threads, Register(t)
  PROVE  Inv'
<1> DEFINE q == ProcOf[t]
<1>0. q \in Processes
  BY ThreadsAssumption
<1>1. /\ pc' \in [Threads -> Pcs] /\ pc[t] = "register" /\ pc'[t] = "held"
      /\ \A u \in Threads \ {t} : pc'[u] = pc[u]
  BY DEF Inv, TypeInv, Register, Goto, Pcs
<1>2. /\ owner' \in [Processes -> [run : Runs \cup {None}, count : Nat]]
      /\ owner'[q] = [run |-> run[t], count |-> 1]
      /\ \A p \in Processes \ {q} : owner'[p] = owner[p]
  BY <1>0 DEF Inv, TypeInv, Register
<1>3. /\ fd' \in [Processes -> Descriptors] /\ fd'[q] = "open"
      /\ \A p \in Processes \ {q} : fd'[p] = fd[p]
  BY <1>0 DEF Inv, TypeInv, Register, Descriptors
<1>4. UNCHANGED <<run, fdl, flock>>
  BY DEF Register
<1>5. /\ flock = q /\ owner[q].count = 0
      /\ \A u \in Threads : Custodian(u) => u = t
  BY <1>1 DEF Inv, ThreadInv, Custodian
<1>6. \A u \in Threads : ~Custodian(u)'
  BY <1>1, <1>4, <1>5 DEF Custodian
<1>7. TypeInv'
  BY <1>1, <1>2, <1>3, <1>4 DEF Inv, TypeInv
<1>8. KernelInv'
  BY <1>2, <1>4, <1>5 DEF KernelInv
<1>9. ASSUME NEW p \in Processes PROVE ProcessInv(p)'
  <2>1. Cardinality(Holders(p)') =
          IF p = q THEN Cardinality(Holders(p)) + 1 ELSE Cardinality(Holders(p))
    BY <1>1, HoldersGrow
  <2>2. ProcessInv(p)
    BY DEF Inv
  <2> QED
    BY <1>2, <1>3, <1>4, <1>5, <2>1, <2>2 DEF ProcessInv
<1>10. ASSUME NEW u \in Threads PROVE ThreadInv(u)'
  <2>1. pc[u] = "held" => ProcOf[u] # q
    <3>1. ProcessInv(q)
      BY <1>0 DEF Inv
    <3>2. Holders(q) = {}
      BY <1>0, <1>5, <3>1, HoldersFinite DEF ProcessInv, Holders
    <3> QED
      BY <3>2 DEF Holders
  <2>2. ThreadInv(u) /\ ProcOf[u] \in Processes
    BY ThreadsAssumption DEF Inv
  <2> QED
    BY <1>1, <1>2, <1>4, <1>6, <2>1, <2>2 DEF ThreadInv
<1> QED
  BY <1>7, <1>8, <1>9, <1>10 DEF Inv

\* A process without an owner has no descriptor left to close.
LEMMA EvictStep == ASSUME Inv, NEW t \in Threads, Evict(t) PROVE Inv'
<1> DEFINE q == ProcOf[t]
<1>0. q \in Processes
  BY ThreadsAssumption
<1>1. /\ pc' \in [Threads -> Pcs] /\ pc[t] \in Outside /\ pc'[t] \in Outside
      /\ \A u \in Threads \ {t} : pc'[u] = pc[u]
  BY DEF Inv, TypeInv, Evict, Goto, Outside, Pcs
<1>2. UNCHANGED <<owner, fd, flock>>
  <2>1. CASE owner[q].count = 0
    <3>1. fd[q] = "none"
      BY <1>0, <2>1 DEF Inv, ProcessInv
    <3>2. [fd EXCEPT ![q] = "none"] = fd
      BY <1>0, <3>1 DEF Inv, TypeInv
    <3> QED
      BY <3>1, <3>2 DEF Evict
  <2>2. CASE owner[q].count # 0
    BY <2>2 DEF Evict
  <2> QED
    BY <2>1, <2>2
<1>3. UNCHANGED <<run, fdl>>
  BY DEF Evict
<1> QED
  BY <1>1, <1>2, <1>3, Elsewhere DEF Inv, TypeInv

\* A thread inside belongs to the owner's run, so release_lock never refuses it.
LEMMA HolderOwns ==
  ASSUME Inv, NEW t \in Threads, pc[t] = "held"
  PROVE  Owns(t) /\ owner[ProcOf[t]].count \in Nat \ {0}
<1>1. ProcOf[t] \in Processes /\ t \in Holders(ProcOf[t])
  BY ThreadsAssumption DEF Holders
<1>2. ProcessInv(ProcOf[t]) /\ ThreadInv(t)
  BY <1>1 DEF Inv
<1>3. Cardinality(Holders(ProcOf[t])) > 0 /\ Cardinality(Holders(ProcOf[t])) \in Nat
  BY <1>1, HoldersFinite
<1> QED
  BY <1>2, <1>3 DEF ProcessInv, ThreadInv, Owns

\* One of several threads inside leaves.
LEMMA NestedStep == ASSUME Inv, NEW t \in Threads, ReleaseNested(t) PROVE Inv'
<1> DEFINE q == ProcOf[t]
<1>0. q \in Processes
  BY ThreadsAssumption
<1>1. /\ pc' \in [Threads -> Pcs] /\ pc[t] = "held" /\ pc'[t] = "idle"
      /\ \A u \in Threads \ {t} : pc'[u] = pc[u]
  BY DEF Inv, TypeInv, ReleaseNested, Leave, Goto, Pcs
<1>2. /\ run' \in [Threads -> Runs \cup {None}]
      /\ fdl' \in [Threads -> Descriptors]
      /\ \A u \in Threads \ {t} : run'[u] = run[u] /\ fdl'[u] = fdl[u]
  BY DEF Inv, TypeInv, ReleaseNested, Leave, Descriptors
<1>3. owner[q].count > 1 /\ owner[q].count \in Nat
  BY <1>0 DEF Inv, TypeInv, ReleaseNested
<1>4. /\ owner' \in [Processes -> [run : Runs \cup {None}, count : Nat]]
      /\ owner'[q].run = owner[q].run /\ owner'[q].count = owner[q].count - 1
      /\ \A p \in Processes \ {q} : owner'[p] = owner[p]
  BY <1>0, <1>3 DEF Inv, TypeInv, ReleaseNested
<1>5. UNCHANGED <<fd, flock>>
  BY DEF ReleaseNested, files
<1>6. \A u \in Threads : Custodian(u)' <=> Custodian(u)
  BY <1>1, <1>2 DEF Custodian
<1>7. \A u \in Threads : Custodian(u) => ProcOf[u] # q
  BY <1>3 DEF Inv, ThreadInv
<1>8. TypeInv'
  BY <1>1, <1>2, <1>4, <1>5 DEF Inv, TypeInv
<1>9. KernelInv'
  <2>1. \A p \in Processes : owner[p].count > 0 => owner'[p].count > 0
    BY <1>0, <1>3, <1>4
  <2>2. flock # None => flock \in Processes
    BY DEF Inv, TypeInv
  <2> QED
    BY <1>5, <1>6, <2>1, <2>2 DEF Inv, KernelInv
<1>10. ASSUME NEW p \in Processes PROVE ProcessInv(p)'
  <2>1. Cardinality(Holders(p)') =
          IF p = q THEN Cardinality(Holders(p)) - 1 ELSE Cardinality(Holders(p))
    BY <1>1, HoldersShrink
  <2>2. ProcessInv(p)
    BY DEF Inv
  <2> QED
    BY <1>3, <1>4, <1>5, <2>1, <2>2 DEF ProcessInv
<1>11. ASSUME NEW u \in Threads PROVE ThreadInv(u)'
  <2>1. ThreadInv(u) /\ ProcOf[u] \in Processes
    BY ThreadsAssumption DEF Inv
  <2>2. owner'[ProcOf[u]].run = owner[ProcOf[u]].run
    BY <1>4, <2>1
  <2>3. ProcOf[u] # q => owner'[ProcOf[u]] = owner[ProcOf[u]]
    BY <1>4, <2>1
  <2> QED
    BY <1>1, <1>2, <1>5, <1>6, <1>7, <2>1, <2>2, <2>3 DEF ThreadInv
<1> QED
  BY <1>8, <1>9, <1>10, <1>11 DEF Inv

\* The last thread inside takes the record away and becomes the custodian.
LEMMA LastStep == ASSUME Inv, NEW t \in Threads, ReleaseLast(t) PROVE Inv'
<1> DEFINE q == ProcOf[t]
<1>0. q \in Processes
  BY ThreadsAssumption
<1>1. /\ pc' \in [Threads -> Pcs] /\ pc[t] = "held" /\ pc'[t] = "free_os"
      /\ \A u \in Threads \ {t} : pc'[u] = pc[u]
  BY DEF Inv, TypeInv, ReleaseLast, Goto, Pcs
<1>2. owner[q].count = 1 /\ flock = q /\ fd[q] = "open"
  BY <1>0 DEF Inv, ProcessInv, ReleaseLast
<1>3. /\ fdl' \in [Threads -> Descriptors] /\ fdl'[t] = "open"
      /\ \A u \in Threads \ {t} : fdl'[u] = fdl[u]
  BY <1>2 DEF Inv, TypeInv, ReleaseLast, Descriptors
<1>4. /\ owner' \in [Processes -> [run : Runs \cup {None}, count : Nat]]
      /\ owner'[q].count = 0
      /\ \A p \in Processes \ {q} : owner'[p] = owner[p]
  BY <1>0 DEF Inv, TypeInv, ReleaseLast, NoOwner
<1>5. /\ fd' \in [Processes -> Descriptors] /\ fd'[q] = "none"
      /\ \A p \in Processes \ {q} : fd'[p] = fd[p]
  BY <1>0 DEF Inv, TypeInv, ReleaseLast, Descriptors
<1>6. UNCHANGED <<run, flock>>
  BY DEF ReleaseLast, files
<1>7. \A u \in Threads : ~Custodian(u)
  BY <1>2 DEF Inv, ThreadInv
<1>8. \A u \in Threads : Custodian(u)' <=> u = t
  BY <1>1, <1>3, <1>7 DEF Custodian
<1>9. TypeInv'
  BY <1>1, <1>3, <1>4, <1>5, <1>6 DEF Inv, TypeInv
<1>10. KernelInv'
  BY <1>2, <1>6, <1>8 DEF KernelInv
<1>11. ASSUME NEW p \in Processes PROVE ProcessInv(p)'
  <2>1. Cardinality(Holders(p)') =
          IF p = q THEN Cardinality(Holders(p)) - 1 ELSE Cardinality(Holders(p))
    BY <1>1, HoldersShrink
  <2>2. ProcessInv(p)
    BY DEF Inv
  <2> QED
    BY <1>2, <1>4, <1>5, <1>6, <2>1, <2>2 DEF ProcessInv
<1>12. ASSUME NEW u \in Threads PROVE ThreadInv(u)'
  <2>1. pc'[u] = "held" => ProcOf[u] # q
    <3>1. Holders(q)' = Holders(q) \ {t} /\ t \in Holders(q)
      BY <1>0, <1>1 DEF Holders
    <3>2. Cardinality(Holders(q)') = 0
      <4>1. Cardinality(Holders(q)) = 1
        BY <1>0, <1>2 DEF Inv, ProcessInv
      <4>2. Cardinality(Holders(q)') = Cardinality(Holders(q)) - 1
        BY <1>0, <1>1, HoldersShrink
      <4> QED
        BY <4>1, <4>2
    <3>3. IsFiniteSet(Holders(q)')
      BY <1>0, <3>1, HoldersFinite, FS_RemoveElement
    <3>4. Holders(q)' = {}
      BY <3>2, <3>3, FS_EmptySet
    <3> QED
      BY <3>4 DEF Holders
  <2>2. ThreadInv(u) /\ ProcOf[u] \in Processes
    BY ThreadsAssumption DEF Inv
  <2> QED
    BY <1>1, <1>2, <1>4, <1>6, <1>8, <2>1, <2>2 DEF ThreadInv
<1> QED
  BY <1>9, <1>10, <1>11, <1>12 DEF Inv

\* The custodian unlocks the file.
LEMMA FreeOsStep == ASSUME Inv, NEW t \in Threads, FreeOsLock(t) PROVE Inv'
<1>1. /\ pc' \in [Threads -> Pcs] /\ pc[t] = "free_os" /\ pc'[t] = "free_thread"
      /\ \A u \in Threads \ {t} : pc'[u] = pc[u]
  BY DEF Inv, TypeInv, FreeOsLock, Goto, Pcs
<1>2. UNCHANGED <<run, fdl, owner, fd>>
  BY DEF FreeOsLock
<1>3. \A p \in Processes : Holders(p)' = Holders(p)
  BY <1>1 DEF Holders
<1>4. CASE fdl[t] = "open"
  <2>1. flock' = None
    BY <1>4 DEF FreeOsLock
  <2>2. /\ flock = ProcOf[t] /\ owner[ProcOf[t]].count = 0
        /\ \A u \in Threads : Custodian(u) => u = t
    BY <1>1, <1>4 DEF Inv, ThreadInv, Custodian
  <2>3. \A u \in Threads : ~Custodian(u)'
    BY <1>1, <1>2, <2>2 DEF Custodian
  <2>4. TypeInv' /\ KernelInv'
    BY <1>1, <1>2, <2>1 DEF Inv, TypeInv, KernelInv
  <2>5. ASSUME NEW p \in Processes PROVE ProcessInv(p)'
    <3>1. owner[p].count \in Nat /\ ProcessInv(p)
      BY DEF Inv, TypeInv
    <3>2. owner[p].count = 0
      BY <2>2, <3>1 DEF ProcessInv
    <3> QED
      BY <1>2, <1>3, <3>1, <3>2 DEF ProcessInv
  <2>6. ASSUME NEW u \in Threads PROVE ThreadInv(u)'
    BY <1>1, <1>2, <2>3 DEF Inv, ThreadInv
  <2> QED
    BY <2>4, <2>5, <2>6 DEF Inv
<1>5. CASE fdl[t] # "open"
  <2>1. flock' = flock
    BY <1>5 DEF FreeOsLock
  <2>2. \A u \in Threads : Custodian(u)' <=> Custodian(u)
    BY <1>1, <1>2, <1>5 DEF Custodian
  <2>3. TypeInv' /\ KernelInv'
    BY <1>1, <1>2, <2>1, <2>2 DEF Inv, TypeInv, KernelInv
  <2>4. ASSUME NEW p \in Processes PROVE ProcessInv(p)'
    BY <1>2, <1>3, <2>1 DEF Inv, ProcessInv
  <2>5. ASSUME NEW u \in Threads PROVE ThreadInv(u)'
    BY <1>1, <1>2, <2>1, <2>2 DEF Inv, ThreadInv
  <2> QED
    BY <2>3, <2>4, <2>5 DEF Inv
<1> QED
  BY <1>4, <1>5

\* A dead process leaves neither holders nor custodians nor the kernel lock.
LEMMA CrashStep == ASSUME Inv, NEW q \in Processes, Crash(q) PROVE Inv'
<1>1. /\ pc' \in [Threads -> Pcs]
      /\ \A u \in Threads : pc'[u] = IF ProcOf[u] = q THEN "idle" ELSE pc[u]
  BY DEF Inv, TypeInv, Crash, Pcs
<1>2. /\ run' \in [Threads -> Runs \cup {None}]
      /\ fdl' \in [Threads -> Descriptors]
      /\ \A u \in Threads : ProcOf[u] # q => run'[u] = run[u] /\ fdl'[u] = fdl[u]
  BY DEF Inv, TypeInv, Crash, Descriptors
<1>3. /\ owner' \in [Processes -> [run : Runs \cup {None}, count : Nat]]
      /\ owner'[q].count = 0
      /\ \A p \in Processes \ {q} : owner'[p] = owner[p]
  BY DEF Inv, TypeInv, Crash, NoOwner
<1>4. /\ fd' \in [Processes -> Descriptors] /\ fd'[q] = "none"
      /\ \A p \in Processes \ {q} : fd'[p] = fd[p]
  BY DEF Inv, TypeInv, Crash, Descriptors
<1>5. /\ flock' \in Processes \cup {None}
      /\ flock # q => flock' = flock
      /\ flock = q => flock' = None
  BY DEF Inv, TypeInv, Crash
<1>6. \A u \in Threads : Custodian(u)' <=> Custodian(u) /\ ProcOf[u] # q
  BY <1>1, <1>2 DEF Custodian
<1>7. TypeInv'
  BY <1>1, <1>2, <1>3, <1>4, <1>5 DEF Inv, TypeInv
<1>8. KernelInv'
  <2> SUFFICES ASSUME flock' # None
               PROVE  \/ owner'[flock'].count > 0
                      \/ \E u \in Threads : Custodian(u)' /\ ProcOf[u] = flock'
    BY DEF KernelInv
  <2>1. flock' = flock /\ flock # q /\ flock \in Processes
    BY <1>5 DEF Inv, TypeInv
  <2> QED
    BY <1>3, <1>6, <2>1 DEF Inv, KernelInv
<1>9. ASSUME NEW p \in Processes PROVE ProcessInv(p)'
  <2>1. CASE p = q
    <3>1. Holders(p)' = {}
      BY <1>1, <2>1 DEF Holders
    <3> QED
      BY <1>3, <1>4, <2>1, <3>1, FS_EmptySet DEF ProcessInv
  <2>2. CASE p # q
    <3>1. Holders(p)' = Holders(p)
      BY <1>1, <2>2 DEF Holders
    <3> QED
      BY <1>3, <1>4, <1>5, <2>2, <3>1 DEF Inv, ProcessInv
  <2> QED
    BY <2>1, <2>2
<1>10. ASSUME NEW u \in Threads PROVE ThreadInv(u)'
  <2>1. ThreadInv(u) /\ ProcOf[u] \in Processes
    BY ThreadsAssumption DEF Inv
  <2>2. ProcOf[u] # q => owner'[ProcOf[u]] = owner[ProcOf[u]]
    BY <1>3, <2>1
  <2> QED
    BY <1>1, <1>2, <1>5, <1>6, <2>1, <2>2 DEF ThreadInv
<1> QED
  BY <1>7, <1>8, <1>9, <1>10 DEF Inv

\* Every step keeps the invariant when the telemetry does not raise.
LEMMA InvStep == ASSUME ~TelemetryMayFail PROVE Inv /\ [Next]_vars => Inv'
<1> SUFFICES ASSUME Inv, [Next]_vars PROVE Inv'
  OBVIOUS
<1>1. ASSUME NEW t \in Threads, Acquiring(t) PROVE Inv'
  <2>1. CASE TakeThreadLock(t) \/ Recover(t) \/ Unlock(t) \/ TryAgain(t)
    BY <2>1, OutsideSteps
  <2>2. CASE Reenter(t) \/ Recheck(t)
    BY <2>2, OutsideSteps, ReenterStep
  <2>3. CASE TryOsLock(t)
    <3>1. CASE flock = None /\ flock' = ProcOf[t] /\ Goto(t, "register")
      BY <2>3, <3>1, LockFileStep
    <3>2. CASE UNCHANGED flock
      BY <2>3, <3>2, OutsideSteps
    <3> QED
      BY <2>3, <3>1, <3>2 DEF TryOsLock
  <2>4. CASE Register(t)
    BY <2>4, RegisterStep
  <2>5. CASE Evict(t)
    BY <2>5, EvictStep
  <2> QED
    BY <1>1, <2>1, <2>2, <2>3, <2>4, <2>5 DEF Acquiring
<1>2. ASSUME NEW t \in Threads, Releasing(t) PROVE Inv'
  <2>1. CASE ReleaseRefused(t)
    BY <2>1, HolderOwns DEF ReleaseRefused
  <2>2. CASE ReleaseNested(t)
    BY <2>2, NestedStep
  <2>3. CASE ReleaseLast(t)
    BY <2>3, LastStep
  <2>4. CASE FreeOsLock(t)
    BY <2>4, FreeOsStep
  <2>5. CASE FreeThreadLock(t)
    BY <2>5, OutsideSteps
  <2> QED
    BY <1>2, <2>1, <2>2, <2>3, <2>4, <2>5 DEF Releasing
<1>3. ASSUME NEW t \in Threads, TimeOut(t) \/ \E r \in Runs : Begin(t, r)
      PROVE  Inv'
  BY <1>3, OutsideSteps
<1>4. CASE \E r \in Runs : EndRun(r)
  BY <1>4 DEF EndRun, files, Inv, TypeInv, KernelInv, ProcessInv, ThreadInv,
              Custodian, Holders
<1>5. CASE \E p \in Processes : Crash(p)
  BY <1>5, CrashStep
<1>6. CASE UNCHANGED vars
  BY <1>6 DEF vars, Inv, TypeInv, KernelInv, ProcessInv, ThreadInv, Custodian,
              Holders
<1> QED
  BY <1>1, <1>2, <1>3, <1>4, <1>5, <1>6 DEF Next

-----------------------------------------------------------------------------
(* The theorems.                                                           *)

\* The invariant holds of every behaviour whose telemetry does not raise.
THEOREM LockInvariant == ASSUME ~TelemetryMayFail PROVE Spec => []Inv
  BY InvInit, InvStep, PTL DEF Spec

(***************************************************************************)
(* Two threads inside work for the same run in the same process, for any   *)
(* number of threads, processes, runs and crashes, stale recoveries        *)
(* included, provided the telemetry does not raise.                        *)
(***************************************************************************)
THEOREM LockExcludes == ASSUME ~TelemetryMayFail PROVE Spec => []MutualExclusion
<1>1. Inv => MutualExclusion
  <2> SUFFICES ASSUME Inv, NEW t \in Threads, NEW u \in Threads,
                      pc[t] = "held", pc[u] = "held"
               PROVE  run[t] = run[u] /\ ProcOf[t] = ProcOf[u]
    BY DEF MutualExclusion
  <2>1. Owns(t) /\ Owns(u)
    BY HolderOwns
  <2>2. ProcOf[t] \in Processes /\ ProcOf[u] \in Processes
    BY ThreadsAssumption
  <2>3. flock = ProcOf[t] /\ flock = ProcOf[u]
    BY <2>1, <2>2 DEF Inv, ProcessInv, Owns
  <2> QED
    BY <2>1, <2>3 DEF Owns
<1> QED
  BY <1>1, LockInvariant, PTL

(***************************************************************************)
(* The re-entrancy count is the number of threads inside, and the kernel   *)
(* lock is held while it is positive.                                      *)
(***************************************************************************)
THEOREM LockCounts == ASSUME ~TelemetryMayFail PROVE Spec => []CountIsHolders
<1>1. Inv => CountIsHolders
  BY DEF Inv, ProcessInv, CountIsHolders
<1> QED
  BY <1>1, LockInvariant, PTL

(***************************************************************************)
(* No process keeps the kernel lock without a thread that uses it.         *)
(***************************************************************************)
THEOREM LockIsUsed == ASSUME ~TelemetryMayFail PROVE Spec => []KernelLockIsUsed
<1>1. Inv => KernelLockIsUsed
  <2> SUFFICES ASSUME Inv, flock # None
               PROVE  \E t \in Threads : /\ ProcOf[t] = flock
                                         /\ pc[t] \in {"register", "held", "free_os"}
    BY DEF KernelLockIsUsed
  <2>1. CASE owner[flock].count > 0
    <3>1. flock \in Processes
      BY DEF Inv, TypeInv
    <3>2. \E t \in Threads : t \in Holders(flock)
      BY <2>1, <3>1, HoldersFinite DEF Inv, ProcessInv
    <3> QED
      BY <3>2 DEF Holders
  <2>2. CASE \E t \in Threads : Custodian(t) /\ ProcOf[t] = flock
    BY <2>2 DEF Custodian
  <2> QED
    BY <2>1, <2>2 DEF Inv, KernelInv
<1> QED
  BY <1>1, LockInvariant, PTL

-----------------------------------------------------------------------------
(* WorkspaceLock implements RunLock.  A thread is inside while its pc is   *)
(* "held"; only four kinds of step change who is.                          *)

\* A thread that is anywhere in acquire_lock or release_lock has a run.
Working == \A t \in Threads : pc[t] # "idle" => run[t] \in Runs

\* Begin names the run, and no later step but the last changes it.
LEMMA WorkingStep == Inv /\ Working /\ [Next]_vars => Working'
<1> SUFFICES ASSUME Inv, Working, [Next]_vars, NEW u \in Threads, pc'[u] # "idle"
             PROVE  run'[u] \in Runs
  BY DEF Working
<1>0. pc \in [Threads -> Pcs] /\ run \in [Threads -> Runs \cup {None}]
  BY DEF Inv, TypeInv
<1>1. ASSUME NEW t \in Threads, Acquiring(t) \/ ReleaseLast(t) \/ FreeOsLock(t)
      PROVE  run'[u] \in Runs
  <2>1. run' = run /\ pc[t] # "idle" /\ \A v \in Threads \ {t} : pc'[v] = pc[v]
    BY <1>0, <1>1 DEF Acquiring, Reenter, Recheck, Check, TakeThreadLock, TryOsLock,
       Register, Recover, Evict, Unlock, TryAgain, ReleaseLast, FreeOsLock, Goto
  <2> QED
    BY <2>1 DEF Working
<1>2. ASSUME NEW t \in Threads,
             TimeOut(t) \/ ReleaseRefused(t) \/ ReleaseNested(t) \/ FreeThreadLock(t)
      PROVE  run'[u] \in Runs
  <2>1. Leave(t)
    BY <1>2 DEF TimeOut, ReleaseRefused, ReleaseNested, FreeThreadLock
  <2> QED
    BY <1>0, <2>1 DEF Leave, Goto, Working
<1>3. ASSUME NEW t \in Threads, NEW r \in Runs, Begin(t, r) PROVE run'[u] \in Runs
  BY <1>0, <1>3 DEF Begin, Goto, Working
<1>4. ASSUME NEW r \in Runs, EndRun(r) PROVE run'[u] \in Runs
  BY <1>4 DEF EndRun, Working
<1>5. ASSUME NEW p \in Processes, Crash(p) PROVE run'[u] \in Runs
  BY <1>5 DEF Crash, Working
<1>6. CASE UNCHANGED vars
  BY <1>6 DEF vars, Working
<1> QED
  BY <1>1, <1>2, <1>3, <1>4, <1>5, <1>6 DEF Next, Releasing

\* Two threads inside work for one run in one process, and the process has
\* the kernel lock.
LEMMA InsideTogether ==
  ASSUME Inv, NEW t \in Threads, pc[t] = "held"
  PROVE  /\ owner[ProcOf[t]].run = run[t] /\ owner[ProcOf[t]].count > 0
         /\ flock = ProcOf[t]
<1>1. ProcOf[t] \in Processes
  BY ThreadsAssumption
<1>2. Owns(t)
  BY HolderOwns
<1> QED
  BY <1>1, <1>2 DEF Owns, Inv, ProcessInv

\* A step that lets nobody in and nobody out.
LEMMA NobodyMoves ==
  ASSUME \A t \in Threads :
           /\ pc'[t] = "held" <=> pc[t] = "held"
           /\ pc[t] = "held" => run'[t] = run[t]
  PROVE  UNCHANGED Inside
  BY DEF Inside

\* The steps on the way in and on the way out.
LEMMA OnTheWay ==
  ASSUME Inv, NEW t \in Threads,
         \/ \E r \in Runs : Begin(t, r)
         \/ TakeThreadLock(t) \/ TryOsLock(t) \/ Recover(t) \/ Evict(t)
         \/ Unlock(t) \/ TryAgain(t) \/ TimeOut(t)
         \/ (Reenter(t) \/ Recheck(t)) /\ ~Owns(t)
         \/ FreeOsLock(t) \/ FreeThreadLock(t)
  PROVE  UNCHANGED Inside
<1>0. pc \in [Threads -> Pcs] /\ run \in [Threads -> Runs \cup {None}]
  BY DEF Inv, TypeInv
<1>1. pc[t] # "held"
  BY DEF Begin, TakeThreadLock, TryOsLock, Recover, Evict, Unlock, TryAgain, TimeOut,
         Reenter, Recheck, Check, FreeOsLock, FreeThreadLock
<1>2. PICK p \in Pcs \ {"held"} : Goto(t, p)
  <2>0. {"idle", "check", "poll", "recheck", "os", "register", "recover", "evict",
         "unlock", "late", "free_thread"} \subseteq Pcs \ {"held"}
    BY DEF Pcs
  <2>1. CASE \/ \E r \in Runs : Begin(t, r)
             \/ TakeThreadLock(t) \/ Unlock(t) \/ TryAgain(t) \/ Evict(t)
             \/ FreeOsLock(t)
    BY <2>0, <2>1 DEF Begin, TakeThreadLock, Unlock, TryAgain, Evict, FreeOsLock
  <2>2. CASE Recover(t) \/ TryOsLock(t)
    BY <2>0, <2>2 DEF Recover, TryOsLock
  <2>3. CASE TimeOut(t) \/ FreeThreadLock(t)
    BY <2>0, <2>3 DEF TimeOut, FreeThreadLock, Leave
  <2>4. CASE (Reenter(t) \/ Recheck(t)) /\ ~Owns(t)
    BY <2>0, <2>4 DEF Reenter, Recheck, Check
  <2> QED
    BY <2>1, <2>2, <2>3, <2>4
<1>3. \A u \in Threads \ {t} : run'[u] = run[u]
  BY <1>0 DEF Begin, TakeThreadLock, TryOsLock, Recover, Evict, Unlock, TryAgain,
              TimeOut, Leave, Reenter, Recheck, Check, FreeOsLock, FreeThreadLock
<1> QED
  BY <1>0, <1>1, <1>2, <1>3, NobodyMoves DEF Goto

\* A thread comes inside when nobody is, or when its run is inside already in its
\* own process.
LEMMA ComesIn ==
  ASSUME Inv, Working, NEW t \in Threads, ~TelemetryMayFail,
         Register(t) \/ ((Reenter(t) \/ Recheck(t)) /\ Owns(t))
  PROVE  Lock!Enter(t, run[t]) /\ run[t] \in Runs
<1>0. /\ pc \in [Threads -> Pcs] /\ ProcOf[t] \in Processes
      /\ pc[t] # "held" /\ pc[t] # "idle"
  BY ThreadsAssumption DEF Inv, TypeInv, Register, Reenter, Recheck, Check
<1>1. Goto(t, "held") /\ run' = run
  BY DEF Register, Reenter, Recheck, Check
<1>2. ASSUME NEW u \in Threads, pc[u] = "held"
      PROVE  run[u] = run[t] /\ ProcOf[u] = ProcOf[t]
  <2>1. CASE Register(t)
    <3>1. flock = ProcOf[t] /\ owner[ProcOf[t]].count = 0
      BY <2>1 DEF Register, Inv, ThreadInv, Custodian
    <3> QED
      BY <1>2, <3>1, InsideTogether
  <2>2. CASE Owns(t)
    <3>1. flock = ProcOf[t] /\ owner[ProcOf[t]].run = run[t]
      BY <1>0, <2>2 DEF Owns, Inv, ProcessInv
    <3> QED
      BY <1>2, <3>1, InsideTogether
  <2> QED
    BY <2>1, <2>2
<1>3. Inside[t] = None /\ \A u \in Threads : Inside[u] # None => pc[u] = "held"
  BY <1>0 DEF Inside
<1>4. \A u \in Threads : Inside[u] # None => Inside[u] = run[t] /\ ProcOf[u] = ProcOf[t]
  BY <1>2, <1>3 DEF Inside
<1>5. Inside' = [Inside EXCEPT ![t] = run[t]]
  BY <1>0, <1>1 DEF Inside, Goto
<1>6. run[t] \in Runs
  BY <1>0 DEF Working
<1> QED
  BY <1>3, <1>4, <1>5, <1>6 DEF Lock!Enter

\* A thread that releases goes out alone.
LEMMA GoesOut ==
  ASSUME Inv, Working, NEW t \in Threads, ReleaseNested(t) \/ ReleaseLast(t)
  PROVE  Lock!Leave(t)
<1>0. /\ pc \in [Threads -> Pcs] /\ run \in [Threads -> Runs \cup {None}]
      /\ pc[t] = "held"
  BY DEF Inv, TypeInv, ReleaseNested, ReleaseLast
<1>1. /\ pc'[t] # "held" /\ \A u \in Threads \ {t} : pc'[u] = pc[u] /\ run'[u] = run[u]
  BY <1>0 DEF ReleaseNested, ReleaseLast, Leave, Goto
<1>2. Inside[t] # None
  BY <1>0, NoneAssumption DEF Inside, Working
<1>3. Inside' = [Inside EXCEPT ![t] = None]
  BY <1>1 DEF Inside
<1> QED
  BY <1>2, <1>3 DEF Lock!Leave

\* Every step of the lock manager is a step of the lock, or shows nothing.
LEMMA LockSimulates ==
  ASSUME ~TelemetryMayFail
  PROVE  Inv /\ Working /\ [Next]_vars => [Lock!Next]_Inside
<1> SUFFICES ASSUME Inv, Working, [Next]_vars PROVE Lock!Next \/ UNCHANGED Inside
  OBVIOUS
<1>1. ASSUME NEW t \in Threads, Acquiring(t) PROVE Lock!Next \/ UNCHANGED Inside
  <2>1. CASE Register(t) \/ ((Reenter(t) \/ Recheck(t)) /\ Owns(t))
    BY <2>1, ComesIn DEF Lock!Next
  <2> QED
    BY <1>1, <2>1, OnTheWay DEF Acquiring
<1>2. ASSUME NEW t \in Threads, Releasing(t) PROVE Lock!Next \/ UNCHANGED Inside
  <2>1. CASE ReleaseRefused(t)
    BY <2>1, HolderOwns DEF ReleaseRefused
  <2>2. CASE ReleaseNested(t) \/ ReleaseLast(t)
    BY <2>2, GoesOut DEF Lock!Next
  <2> QED
    BY <1>2, <2>1, <2>2, OnTheWay DEF Releasing
<1>3. ASSUME NEW t \in Threads, TimeOut(t) \/ \E r \in Runs : Begin(t, r)
      PROVE  UNCHANGED Inside
  BY <1>3, OnTheWay
<1>4. ASSUME NEW p \in Processes, Crash(p) PROVE Lock!Next
  <2>1. Inside' = [t \in Threads |-> IF ProcOf[t] = p THEN None ELSE Inside[t]]
    BY <1>4 DEF Crash, Inside
  <2> QED
    BY <2>1 DEF Lock!Next, Lock!Die
<1>5. CASE (\E r \in Runs : EndRun(r)) \/ UNCHANGED vars
  BY <1>5 DEF EndRun, vars, Inside
<1> QED
  BY <1>1, <1>2, <1>3, <1>4, <1>5 DEF Next

(***************************************************************************)
(* WorkspaceLock implements RunLock: with the RLocks, the lock file, the   *)
(* re-entry count and the recovery of stale locks, for any number of       *)
(* threads, processes, runs and crashes, the workspace passes from one run *)
(* or process to another only when nobody is inside, provided the          *)
(* telemetry does not raise.                                               *)
(***************************************************************************)
THEOREM LockImplementsRunLock ==
  ASSUME ~TelemetryMayFail PROVE Spec => ImplementsRunLock
<1>1. Init => Working /\ Lock!Init
  BY DEF Init, Working, Lock!Init, Inside
<1>2. Inv /\ Working /\ [Next]_vars => Working'
  BY WorkingStep
<1>3. Inv /\ Working /\ [Next]_vars => [Lock!Next]_Inside
  BY LockSimulates
<1> QED
  BY <1>1, <1>2, <1>3, LockInvariant, PTL DEF Spec, ImplementsRunLock, Lock!Spec

-----------------------------------------------------------------------------
(* Types.  They hold even when the telemetry raises; the only delicate one *)
(* is the depth of an RLock, which is positive while the lock is held.     *)

\* An RLock that is held has been taken at least once.
HeldIsDeep ==
  \A p \in Processes, k \in Locks :
    rlock[p][k].holder # None => rlock[p][k].depth > 0

ObjectsTyped ==
  /\ thread_lock \in [Processes -> 0..MaxLocks]
  /\ made \in [Processes -> 0..MaxLocks]

RLocks == [Processes -> [Locks -> [holder : Threads \cup {None}, depth : Nat]]]

Typed == TypeOK /\ HeldIsDeep

\* _get_thread_lock returns an object, and keeps the tables typed.
LEMMA ObjectTyped ==
  ASSUME Typed, NEW p \in Processes, NEW k \in Locks, GetThreadLock(p, k)
  PROVE  ObjectsTyped'
<1>0. ObjectsTyped /\ k \in 0..MaxLocks
  BY BoundsAssumption DEF Typed, TypeOK, ObjectsTyped, Locks
<1>1. CASE thread_lock[p] # 0
  BY <1>0, <1>1 DEF GetThreadLock, ObjectsTyped
<1>2. CASE thread_lock[p] = 0
  BY <1>0, <1>2 DEF GetThreadLock, ObjectsTyped
<1> QED
  BY <1>1, <1>2

\* RLock.release keeps the objects typed: a holder has a depth to give back.
LEMMA ReleasedTyped ==
  ASSUME Typed, NEW t \in Threads, NEW k, rlock' = Released(t, k)
  PROVE  rlock' \in RLocks /\ HeldIsDeep'
<1> DEFINE q == ProcOf[t]
<1>0. q \in Processes /\ rlock \in RLocks /\ t # None
  BY ThreadsAssumption, NoneAssumption DEF Typed, TypeOK, RLocks
<1>1. CASE k \notin Locks
  <2>1. rlock' = rlock
    BY <1>0, <1>1 DEF Released, RLocks
  <2> QED
    BY <1>0, <2>1 DEF Typed, HeldIsDeep
<1>2. CASE k \in Locks
  <2> DEFINE o == rlock[q][k]
             n == IF o.holder # t THEN o
                  ELSE IF o.depth = 1 THEN Free
                  ELSE [holder |-> t, depth |-> o.depth - 1]
  <2>1. o \in [holder : Threads \cup {None}, depth : Nat]
        /\ (o.holder # None => o.depth > 0)
    BY <1>0, <1>2 DEF RLocks, Typed, HeldIsDeep
  <2>2. n \in [holder : Threads \cup {None}, depth : Nat]
        /\ (n.holder # None => n.depth > 0)
    BY <2>1, <1>0 DEF Free
  <2>3. rlock' = [rlock EXCEPT ![q][k] = n]
    BY DEF Released
  <2>4. /\ rlock'[q][k] = n
        /\ \A p \in Processes, j \in Locks :
             p # q \/ j # k => rlock'[p][j] = rlock[p][j]
    <3> HIDE DEF n, q
    <3> QED
      BY <2>3, <1>0, <1>2 DEF RLocks
  <2>5. rlock' \in RLocks
    <3> HIDE DEF n, q
    <3> QED
      BY <2>3, <2>2, <1>0, <1>2 DEF RLocks
  <2> QED
    <3> HIDE DEF n, q
    <3> QED
      BY <2>2, <2>4, <2>5 DEF Typed, HeldIsDeep
<1> QED
  BY <1>1, <1>2

\* The types hold initially.
LEMMA TypedInit == Init => Typed
  BY NoneAssumption, BoundsAssumption
  DEF Init, Typed, TypeOK, HeldIsDeep, Pcs, Descriptors, NoOwner, Free, Locks

\* The state of the threads themselves.
ThreadsTyped ==
  /\ pc \in [Threads -> Pcs] /\ run \in [Threads -> Runs \cup {None}]
  /\ mine \in [Threads -> 0..MaxLocks] /\ fdl \in [Threads -> Descriptors]

\* What the processes and the kernel record.
RecordsTyped ==
  /\ owner \in [Processes -> [run : Runs \cup {None}, count : Nat]]
  /\ fd \in [Processes -> Descriptors] /\ flock \in Processes \cup {None}
  /\ meta \in [run : Runs \cup {None}, writer : Processes \cup {None}, dead : BOOLEAN]
  /\ terminal \subseteq Runs /\ crashes \in 0..MaxCrashes

\* The types, in the parts that the actions disturb.
LEMMA Parts ==
  Typed <=> /\ ThreadsTyped /\ ObjectsTyped /\ RecordsTyped
            /\ rlock \in RLocks /\ HeldIsDeep
  BY DEF Typed, TypeOK, ThreadsTyped, ObjectsTyped, RecordsTyped, RLocks

\* The same, of the next state.
LEMMA PartsNext ==
  (ThreadsTyped /\ ObjectsTyped /\ RecordsTyped /\ rlock \in RLocks /\ HeldIsDeep)'
    => Typed'
  BY DEF Typed, TypeOK, ThreadsTyped, ObjectsTyped, RecordsTyped, RLocks

\* Leaving acquire_lock or release_lock, and moving within them.
LEMMA LeaveTyped ==
  ASSUME Typed, NEW t \in Threads, Leave(t) PROVE ThreadsTyped'
  BY BoundsAssumption DEF Typed, TypeOK, Leave, Goto, ThreadsTyped, Pcs, Descriptors

LEMMA GotoTyped ==
  ASSUME Typed, NEW t \in Threads, NEW p \in Pcs, Goto(t, p),
         UNCHANGED <<run, mine, fdl>>
  PROVE  ThreadsTyped'
  BY DEF Typed, TypeOK, Goto, ThreadsTyped

\* The steps of acquire_lock.
LEMMA AcquiringTyped ==
  ASSUME Typed, NEW t \in Threads, Acquiring(t) \/ TimeOut(t) PROVE Typed'
<1>0. /\ ProcOf[t] \in Processes /\ t # None
      /\ ThreadsTyped /\ ObjectsTyped /\ RecordsTyped /\ rlock \in RLocks
      /\ HeldIsDeep
  BY ThreadsAssumption, NoneAssumption, Parts
<1>1. CASE Reenter(t) \/ Recheck(t)
  <2>1. ThreadsTyped'
    BY <1>1, GotoTyped DEF Reenter, Recheck, Check, Pcs
  <2>2. RecordsTyped'
    BY <1>0, <1>1 DEF Reenter, Recheck, Check, RecordsTyped, files, world
  <2>3. UNCHANGED <<thread_lock, made, rlock>>
    BY <1>1 DEF Reenter, Recheck, Check
  <2> QED
    BY <1>0, <2>1, <2>2, <2>3, PartsNext DEF ObjectsTyped, HeldIsDeep, RLocks
<1>2. CASE TakeThreadLock(t)
  <2>1. ThreadsTyped'
    BY <1>2, GotoTyped DEF TakeThreadLock, Pcs
  <2>2. RecordsTyped' /\ ObjectsTyped'
    BY <1>0, <1>2 DEF TakeThreadLock, RecordsTyped, ObjectsTyped, files, world
  <2>3. rlock' \in RLocks /\ HeldIsDeep'
    <3>1. CASE mine[t] \in Locks
      <4> DEFINE q == ProcOf[t]
                 k == mine[t]
                 n == [holder |-> t, depth |-> rlock[q][k].depth + 1]
      <4>1. n \in [holder : Threads \cup {None}, depth : Nat] /\ n.depth > 0
        BY <1>0, <3>1 DEF RLocks
      <4>2. rlock' = rlock \/ rlock' = [rlock EXCEPT ![q][k] = n]
        BY <1>2 DEF TakeThreadLock
      <4> HIDE DEF n, q, k
      <4>3. CASE rlock' = [rlock EXCEPT ![q][k] = n]
        <5>1. q \in Processes /\ k \in Locks
          BY <1>0, <3>1 DEF q, k
        <5>2. rlock' \in RLocks
          BY <4>1, <4>3, <5>1, <1>0 DEF RLocks
        <5>3. /\ rlock'[q][k] = n
              /\ \A p \in Processes, j \in Locks :
                   p # q \/ j # k => rlock'[p][j] = rlock[p][j]
          BY <4>3, <5>1, <1>0 DEF RLocks
        <5> QED
          BY <4>1, <5>2, <5>3, <1>0 DEF HeldIsDeep, RLocks
      <4>4. CASE rlock' = rlock
        BY <4>4, <1>0 DEF HeldIsDeep, RLocks
      <4> QED
        BY <4>2, <4>3, <4>4
    <3>2. CASE mine[t] \notin Locks
      <4>1. rlock' = rlock
        BY <1>0, <1>2, <3>2 DEF TakeThreadLock, RLocks
      <4> QED
        BY <4>1, <1>0 DEF HeldIsDeep, RLocks
    <3> QED
      BY <3>1, <3>2
  <2> QED
    BY <2>1, <2>2, <2>3, PartsNext
<1>3. CASE TryOsLock(t) \/ Register(t) \/ Recover(t) \/ TryAgain(t)
  <2>1. ThreadsTyped'
    BY <1>3, GotoTyped DEF TryOsLock, Register, Recover, TryAgain, Pcs
  <2>2. RecordsTyped'
    <3>1. CASE Register(t)
      <4>1. run[t] \in Runs \cup {None}
        BY <1>0 DEF ThreadsTyped
      <4>2. /\ owner' = [owner EXCEPT ![ProcOf[t]] = [run |-> run[t], count |-> 1]]
            /\ meta' \in {meta, [run |-> run[t], writer |-> ProcOf[t], dead |-> FALSE]}
            /\ fd' = [fd EXCEPT ![ProcOf[t]] = "open"]
               \/ fd' = [fd EXCEPT ![ProcOf[t]] = "closed"]
            /\ flock' \in {flock, None} /\ UNCHANGED <<terminal, crashes>>
        BY <3>1 DEF Register, world
      <4> QED
        <5>1. owner' \in [Processes -> [run : Runs \cup {None}, count : Nat]]
          BY <1>0, <4>1, <4>2 DEF RecordsTyped
        <5>2. meta' \in [run : Runs \cup {None}, writer : Processes \cup {None},
                         dead : BOOLEAN]
          <6>1. [run |-> run[t], writer |-> ProcOf[t], dead |-> FALSE]
                  \in [run : Runs \cup {None}, writer : Processes \cup {None},
                      dead : BOOLEAN]
            BY <1>0, <4>1
          <6> QED
            BY <1>0, <4>2, <6>1 DEF RecordsTyped
        <5>3. fd' \in [Processes -> Descriptors] /\ flock' \in Processes \cup {None}
          BY <1>0, <4>2 DEF RecordsTyped, Descriptors
        <5> QED
          BY <1>0, <4>2, <5>1, <5>2, <5>3 DEF RecordsTyped
    <3>2. CASE TryOsLock(t) \/ Recover(t) \/ TryAgain(t)
      BY <1>0, <3>2 DEF TryOsLock, Recover, TryAgain, RecordsTyped, files, world
    <3> QED
      BY <1>3, <3>1, <3>2
  <2>3. UNCHANGED <<thread_lock, made, rlock>>
    BY <1>3 DEF TryOsLock, Register, Recover, TryAgain
  <2> QED
    BY <1>0, <2>1, <2>2, <2>3, PartsNext DEF ObjectsTyped, HeldIsDeep, RLocks
<1>4. CASE Evict(t)
  <2>1. ThreadsTyped'
    BY <1>4, GotoTyped DEF Evict, Pcs
  <2>2. RecordsTyped' /\ ObjectsTyped'
    <3>1. /\ fd' = fd \/ fd' = [fd EXCEPT ![ProcOf[t]] = "none"]
          /\ thread_lock' = thread_lock
             \/ thread_lock' = [thread_lock EXCEPT ![ProcOf[t]] = 0]
          /\ flock' \in {flock, None}
          /\ UNCHANGED <<made, owner, meta, terminal, crashes>>
      BY <1>4 DEF Evict, world
    <3> QED
      BY <1>0, <3>1, BoundsAssumption DEF RecordsTyped, ObjectsTyped, Descriptors
  <2>3. UNCHANGED rlock
    BY <1>4 DEF Evict
  <2> QED
    BY <1>0, <2>1, <2>2, <2>3, PartsNext DEF HeldIsDeep, RLocks
<1>5. CASE Unlock(t)
  <2>1. ThreadsTyped'
    BY <1>5, GotoTyped DEF Unlock, Pcs
  <2>2. RecordsTyped' /\ ObjectsTyped'
    BY <1>0, <1>5 DEF Unlock, RecordsTyped, ObjectsTyped, files, world
  <2>3. rlock' \in RLocks /\ HeldIsDeep'
    BY <1>5, ReleasedTyped DEF Unlock
  <2> QED
    BY <2>1, <2>2, <2>3, PartsNext
<1>6. CASE TimeOut(t)
  <2>1. ThreadsTyped'
    BY <1>6, LeaveTyped DEF TimeOut
  <2>2. UNCHANGED <<thread_lock, made, rlock, owner, fd, flock, meta, terminal,
                    crashes>>
    BY <1>6 DEF TimeOut, files, world
  <2> QED
    BY <1>0, <2>1, <2>2, PartsNext DEF ObjectsTyped, RecordsTyped, HeldIsDeep, RLocks
<1> QED
  BY <1>1, <1>2, <1>3, <1>4, <1>5, <1>6 DEF Acquiring

\* The steps of release_lock.
LEMMA ReleasingTyped ==
  ASSUME Typed, NEW t \in Threads, Releasing(t) PROVE Typed'
<1>0. /\ ProcOf[t] \in Processes /\ t # None
      /\ ThreadsTyped /\ ObjectsTyped /\ RecordsTyped /\ rlock \in RLocks
      /\ HeldIsDeep
  BY ThreadsAssumption, NoneAssumption, Parts
<1>1. CASE ReleaseRefused(t) \/ ReleaseNested(t)
  <2>1. ThreadsTyped'
    BY <1>1, LeaveTyped DEF ReleaseRefused, ReleaseNested
  <2>2. RecordsTyped'
    BY <1>0, <1>1 DEF ReleaseRefused, ReleaseNested, RecordsTyped, files, world
  <2>3. UNCHANGED <<thread_lock, made, rlock>>
    BY <1>1 DEF ReleaseRefused, ReleaseNested
  <2> QED
    BY <1>0, <2>1, <2>2, <2>3, PartsNext DEF ObjectsTyped, HeldIsDeep, RLocks
<1>2. CASE ReleaseLast(t) \/ FreeOsLock(t)
  <2>1. ThreadsTyped'
    BY <1>0, <1>2 DEF ReleaseLast, FreeOsLock, ThreadsTyped, RecordsTyped, Goto,
                      Pcs
  <2>2. RecordsTyped'
    BY <1>0, <1>2 DEF ReleaseLast, FreeOsLock, RecordsTyped, Descriptors, NoOwner,
                      files, world
  <2>3. UNCHANGED <<thread_lock, made, rlock>>
    BY <1>2 DEF ReleaseLast, FreeOsLock
  <2> QED
    BY <1>0, <2>1, <2>2, <2>3, PartsNext DEF ObjectsTyped, HeldIsDeep, RLocks
<1>3. CASE FreeThreadLock(t)
  <2>1. ThreadsTyped'
    BY <1>3, LeaveTyped DEF FreeThreadLock
  <2>2. RecordsTyped'
    BY <1>0, <1>3 DEF FreeThreadLock, RecordsTyped, files, world
  <2>3. ObjectsTyped'
    BY <1>0, <1>3, ObjectTyped DEF FreeThreadLock
  <2>4. rlock' \in RLocks /\ HeldIsDeep'
    BY <1>3, ReleasedTyped DEF FreeThreadLock
  <2> QED
    BY <2>1, <2>2, <2>3, <2>4, PartsNext
<1> QED
  BY <1>1, <1>2, <1>3 DEF Releasing

\* The beginning of an acquisition, the end of a run, the death of a process.
LEMMA OthersTyped ==
  ASSUME Typed,
         \/ \E t \in Threads, r \in Runs : Begin(t, r)
         \/ \E r \in Runs : EndRun(r)
         \/ \E p \in Processes : Crash(p)
         \/ UNCHANGED vars
  PROVE  Typed'
<1>0. /\ ThreadsTyped /\ ObjectsTyped /\ RecordsTyped /\ rlock \in RLocks
      /\ HeldIsDeep
  BY Parts
<1>1. ASSUME NEW t \in Threads, NEW r \in Runs, Begin(t, r) PROVE Typed'
  <2>0. ProcOf[t] \in Processes
    BY ThreadsAssumption
  <2>1. PICK k \in Locks :
          GetThreadLock(ProcOf[t], k) /\ mine' = [mine EXCEPT ![t] = k]
    BY <1>1 DEF Begin
  <2>2. ThreadsTyped'
    BY <1>0, <1>1, <2>1, BoundsAssumption DEF Begin, Goto, ThreadsTyped, Pcs, Locks
  <2>3. ObjectsTyped'
    BY <2>0, <2>1, ObjectTyped
  <2>4. UNCHANGED <<rlock, owner, fd, flock, meta, terminal, crashes>>
    BY <1>1 DEF Begin, files, world
  <2> QED
    BY <1>0, <2>2, <2>3, <2>4, PartsNext DEF RecordsTyped, HeldIsDeep, RLocks
<1>2. ASSUME NEW r \in Runs, EndRun(r) PROVE Typed'
  BY <1>0, <1>2, PartsNext DEF EndRun, files, ThreadsTyped, ObjectsTyped, RecordsTyped,
                           HeldIsDeep, RLocks
<1>3. ASSUME NEW p \in Processes, Crash(p) PROVE Typed'
  <2>1. ThreadsTyped' /\ ObjectsTyped'
    BY <1>0, <1>3, BoundsAssumption DEF Crash, ThreadsTyped, ObjectsTyped, Pcs,
                                        Descriptors
  <2>2. RecordsTyped'
    <3>1. /\ owner' = [owner EXCEPT ![p] = NoOwner]
          /\ fd' = [fd EXCEPT ![p] = "none"] /\ flock' \in {flock, None}
          /\ crashes < MaxCrashes /\ crashes' = crashes + 1
          /\ UNCHANGED terminal
      BY <1>3 DEF Crash
    <3>2. meta' = meta \/ meta' = [meta EXCEPT !.dead = TRUE]
      BY <1>3 DEF Crash
    <3>3. meta' \in [run : Runs \cup {None}, writer : Processes \cup {None},
                     dead : BOOLEAN]
      BY <1>0, <3>2 DEF RecordsTyped
    <3> QED
      BY <1>0, <3>1, <3>3, BoundsAssumption DEF RecordsTyped, Descriptors, NoOwner
  <2>3. rlock' \in RLocks
    BY <1>0, <1>3 DEF Crash, RLocks, Free
  <2>4. HeldIsDeep'
    BY <1>0, <1>3 DEF Crash, RLocks, Free, HeldIsDeep
  <2> QED
    BY <2>1, <2>2, <2>3, <2>4, PartsNext
<1>4. CASE UNCHANGED vars
  BY <1>0, <1>4, PartsNext DEF vars, ThreadsTyped, ObjectsTyped, RecordsTyped,
                              HeldIsDeep, RLocks
<1> QED
  BY <1>1, <1>2, <1>3, <1>4

(***************************************************************************)
(* The tables of the managers, the RLock objects, the kernel lock and the  *)
(* metadata are well typed, whether or not the telemetry raises: no object *)
(* is released more often than it was taken.                               *)
(***************************************************************************)
THEOREM LockTyped == Spec => []TypeOK
<1>1. Typed /\ [Next]_vars => Typed'
  BY AcquiringTyped, ReleasingTyped, OthersTyped DEF Next
<1>2. Typed => TypeOK
  BY DEF Typed
<1> QED
  BY TypedInit, <1>1, <1>2, PTL DEF Spec
=============================================================================
