-------------------------- MODULE PublishPRProofs --------------------------
(***************************************************************************)
(* The safety of PublishPR for any number of clients, repositories, bases, *)
(* pull requests and faults.                                               *)
(*                                                                         *)
(* The inductive invariant says that the numbers a request, a reply and    *)
(* the row carry are those of pull requests that exist, and match what was *)
(* asked for; that a faultless request about to push or to create found    *)
(* nothing when it looked, so what matches now is younger than it; and     *)
(* that one that was refused has something to find.                        *)
(***************************************************************************)
EXTENDS PublishPR, WellFoundedInduction, TLAPS

\* An answer names an existing pull request, and a new one the one asked for.
ReplyInv(c) ==
  /\ reply[c].kind \in Success => reply[c].pr \in DOMAIN prs
  /\ reply[c].kind = "published" => reply[c].pr \in Matching(ask[c])
  /\ reply[c].kind \in Success => c \in faulted \/ row.pr # 0

\* What a request carries.
FoundInv(c) ==
  /\ pc[c] \in {"read", "record"} => found[c] \in Matching(ask[c])
  /\ pc[c] = "record" => copy[c].pr = found[c]
  /\ pc[c] # "idle" => reply[c] = NoReply

\* What a request without a fault of its own knows.
KnowsInv(c) ==
  /\ began[c] <= Len(prs)
  /\ pc[c] = "create" => pushed
  /\ pc[c] \in {"push", "create"} =>
       c \in faulted \/ \A n \in Matching(ask[c]) : n > began[c]
  /\ pc[c] = "recover" /\ ask[c].repo = Origin =>
       c \in faulted \/ Matching(ask[c]) # {}
  /\ reply[c].kind = "failed" => c \in faulted \/ ask[c].repo # Origin

Inv ==
  /\ TypeOK
  /\ row.pr \in DOMAIN prs \cup {0} /\ hook.pr \in DOMAIN prs \cup {0}
  /\ \A c \in Clients : ReplyInv(c) /\ FoundInv(c) /\ KnowsInv(c)

-----------------------------------------------------------------------------
(* The maximum of a bounded set, and what a lookup returns.                *)

\* A bounded set of numbers has a greatest element, which Max returns.
LEMMA MaxOfBounded ==
  ASSUME NEW S \in SUBSET Nat, S # {}, NEW b \in Nat, \A x \in S : x <= b
  PROVE  Max(S) \in S /\ \A x \in S : x <= Max(S)
<1> DEFINE Less == {ss \in Nat \X Nat : ss[1] < ss[2]}
           Bounds == {u \in Nat : \A x \in S : x <= u}
<1>1. IsWellFoundedOn(Less, Nat)
  BY NatLessThanWellFounded DEF OpToRel
<1>2. Bounds \subseteq Nat /\ b \in Bounds
  OBVIOUS
<1> HIDE DEF Less, Bounds
<1>3. PICK m \in Bounds : \A y \in Bounds : ~ (<<y, m>> \in Less)
  BY <1>1, <1>2, WFMin
<1>4. m \in Nat /\ \A x \in S : x <= m
  BY DEF Bounds
<1>5. m \in S
  <2>1. SUFFICES ASSUME m \notin S PROVE FALSE
    OBVIOUS
  <2>2. \A x \in S : x < m
    BY <1>4, <2>1
  <2>3. m > 0
    <3>1. PICK x \in S : TRUE
      OBVIOUS
    <3>2. x \in Nat /\ x < m
      BY <2>2, <3>1
    <3> QED
      BY <1>4, <3>2
  <2>4. m - 1 \in Bounds
    BY <1>4, <2>2, <2>3 DEF Bounds
  <2>5. <<m - 1, m>> \in Less
    BY <1>4, <2>3 DEF Less
  <2> QED
    BY <1>3, <2>4, <2>5
<1>6. \E x \in S : \A y \in S : x >= y
  BY <1>4, <1>5
<1>7. Max(S) \in S /\ \A y \in S : Max(S) >= y
  BY <1>6 DEF Max
<1> QED
  BY <1>7

\* The pull requests that match are numbers of pull requests.
LEMMA MatchingNumbers ==
  ASSUME prs \in Seq(PR), NEW a
  PROVE  Matching(a) \subseteq 1..Len(prs) /\ 0 \notin Matching(a)
BY DEF Matching

\* A lookup finds a match, and 0 only if there is none.
LEMMA LookupFinds ==
  ASSUME prs \in Seq(PR), NEW a
  PROVE  /\ Find(a) \in Matching(a) \cup {0} /\ Find(a) \in Nat
         /\ Find(a) = 0 <=> Matching(a) = {}
<1>1. Matching(a) \subseteq 1..Len(prs) /\ 0 \notin Matching(a) /\ Len(prs) \in Nat
  BY MatchingNumbers
<1> DEFINE S == Matching(a) \cup {0}
<1>2. S \in SUBSET Nat /\ S # {} /\ \A x \in S : x <= Len(prs)
  BY <1>1
<1>3. Max(S) \in S /\ \A x \in S : x <= Max(S)
  <2> HIDE DEF S
  <2> QED BY <1>1, <1>2, MaxOfBounded
<1>4. Find(a) \in S /\ \A x \in S : x <= Find(a)
  BY <1>3 DEF Find
<1>5. Find(a) \in Nat
  BY <1>2, <1>4
<1>6. ASSUME NEW x \in Matching(a) PROVE Find(a) # 0
  <2>1. x \in Nat /\ x >= 1 /\ x <= Find(a)
    BY <1>1, <1>4
  <2> QED
    BY <1>5, <2>1
<1> QED
  BY <1>1, <1>4, <1>5, <1>6

-----------------------------------------------------------------------------
(* What may become of the pull requests.                                   *)

\* Nothing, or one more is opened, or one is closed.
Grown == \E a \in Asks : prs' = Append(prs, [repo |-> a.repo, base |-> a.base, open |-> TRUE])
Closed == \E n \in DOMAIN prs : prs' = [prs EXCEPT ![n].open = FALSE]
PRsMove == prs' = prs \/ Grown \/ Closed

\* What matches stays, and only the new pull request may match in addition.
LEMMA MatchesStay ==
  ASSUME prs \in Seq(PR), PRsMove, NEW a
  PROVE  /\ prs' \in Seq(PR) /\ Len(prs') >= Len(prs)
         /\ DOMAIN prs \subseteq DOMAIN prs'
         /\ Matching(a) \subseteq Matching(a)'
         /\ \A n \in Matching(a)' : n \in Matching(a) \/ n = Len(prs) + 1
<1>1. CASE prs' = prs
  BY <1>1 DEF Matching
<1>2. CASE Grown
  <2>1. PICK b \in Asks :
           prs' = Append(prs, [repo |-> b.repo, base |-> b.base, open |-> TRUE])
    BY <1>2 DEF Grown
  <2>2. [repo |-> b.repo, base |-> b.base, open |-> TRUE] \in PR
    BY DEF Asks, PR
  <2>3. /\ prs' \in Seq(PR) /\ Len(prs') = Len(prs) + 1
        /\ \A n \in 1..Len(prs) : prs'[n] = prs[n]
    BY <2>1, <2>2
  <2> QED
    BY <2>3 DEF Matching
<1>3. CASE Closed
  <2>1. PICK m \in DOMAIN prs : prs' = [prs EXCEPT ![m].open = FALSE]
    BY <1>3 DEF Closed
  <2>2. prs[m] \in PR /\ [prs[m] EXCEPT !.open = FALSE] \in PR
    <3>1. prs[m] \in PR
      BY <2>1
    <3> QED
      BY <3>1 DEF PR
  <2>3. prs' \in Seq(PR) /\ Len(prs') = Len(prs)
    BY <2>1, <2>2
  <2>4. \A n \in 1..Len(prs) : prs'[n].repo = prs[n].repo /\ prs'[n].base = prs[n].base
    BY <2>1, <2>2 DEF PR
  <2> QED
    BY <2>3, <2>4 DEF Matching
<1> QED
  BY <1>1, <1>2, <1>3 DEF PRsMove

\* Every step moves the pull requests in one of these ways, and asks nothing anew.
LEMMA StepMovesPRs ==
  ASSUME TypeOK, [Next]_vars PROVE PRsMove /\ ask' = ask
<1>1. ASSUME NEW c \in Clients, Create(c) PROVE PRsMove /\ ask' = ask
  <2>1. ask[c] \in Asks
    BY DEF TypeOK
  <2> QED
    BY <1>1, <2>1 DEF Create, PRsMove, Grown
<1>2. CASE HumanOpens
  <2>1. PICK b \in Bases :
           prs' = Append(prs, [repo |-> Origin, base |-> b, open |-> TRUE])
    BY <1>2 DEF HumanOpens
  <2>2. [repo |-> Origin, base |-> b] \in Asks
    BY RepoAssumption DEF Asks
  <2>3. Grown
    <3> DEFINE a == [repo |-> Origin, base |-> b]
    <3>1. prs' = Append(prs, [repo |-> a.repo, base |-> a.base, open |-> TRUE])
      BY <2>1
    <3> QED
      BY <2>2, <3>1 DEF Grown
  <2> QED
    BY <1>2, <2>3 DEF HumanOpens, PRsMove, requests
<1>3. CASE HumanCloses
  BY <1>3 DEF HumanCloses, PRsMove, Closed, requests
<1>4. CASE EndRun \/ ReadOutcomeRow \/ WriteOutcomeRow \/ Cancel \/ Crash \/ UNCHANGED vars
  BY <1>4 DEF EndRun, ReadOutcomeRow, WriteOutcomeRow, Cancel, Crash, PRsMove,
              requests, vars
<1>5. ASSUME NEW c \in Clients,
             \/ Begin(c) \/ CheckRow(c) \/ LookUp(c) \/ Push(c) \/ Recover(c)
             \/ ReadRow(c) \/ Record(c)
      PROVE  PRsMove /\ ask' = ask
  BY <1>5 DEF Begin, CheckRow, LookUp, Push, Recover, ReadRow, Record, PRsMove
<1> QED
  BY <1>1, <1>2, <1>3, <1>4, <1>5 DEF Next, Request

-----------------------------------------------------------------------------
(* Types.                                                                  *)

\* An upsert leaves a row.
LEMMA MergeType ==
  ASSUME NEW r \in Row, NEW old \in Row PROVE Merge(r, old) \in Row
BY DEF Merge, Row

\* The initial state is well typed.
LEMMA TypeInit == Init => TypeOK
<1> SUFFICES ASSUME Init PROVE TypeOK
  OBVIOUS
<1>1. NewRow \in Row /\ NoReply \in Reply
  BY DEF NewRow, Row, NoReply, Reply
<1>2. ask \in [Clients -> Asks] /\ faults \in 0..MaxFaults /\ prs \in Seq(PR)
  BY RepoAssumption, BoundsAssumption DEF Init, Asks
<1> QED
  BY <1>1, <1>2 DEF Init, TypeOK

\* The locals of a request: what its going on and its end make of them.
LEMMA StepType ==
  ASSUME TypeOK, NEW c \in Clients, NEW n \in Nat, NEW r \in Row,
         NEW p \in {"row", "find", "push", "create", "recover", "read", "record"},
         Step(c, p, n, r)
  PROVE  /\ pc' \in [Clients -> {"idle", "row", "find", "push", "create",
                                 "recover", "read", "record"}]
         /\ copy' \in [Clients -> Row] /\ found' \in [Clients -> Nat]
         /\ reply' \in [Clients -> Reply] /\ began' \in [Clients -> Nat]
BY DEF TypeOK, Step

\* The same for a request that keeps its locals,
LEMMA GotoType ==
  ASSUME TypeOK, NEW c \in Clients,
         NEW p \in {"row", "find", "push", "create", "recover", "read", "record"},
         Goto(c, p)
  PROVE  /\ pc' \in [Clients -> {"idle", "row", "find", "push", "create",
                                 "recover", "read", "record"}]
         /\ copy' \in [Clients -> Row] /\ found' \in [Clients -> Nat]
         /\ reply' \in [Clients -> Reply] /\ began' \in [Clients -> Nat]
BY StepType DEF Goto, TypeOK

\* and for one that ends.
LEMMA AnswerType ==
  ASSUME TypeOK, NEW c \in Clients, NEW n \in Nat,
         NEW k \in {"refused", "failed", "already_published", "published"},
         Answer(c, k, n)
  PROVE  /\ pc' \in [Clients -> {"idle", "row", "find", "push", "create",
                                 "recover", "read", "record"}]
         /\ copy' \in [Clients -> Row] /\ found' \in [Clients -> Nat]
         /\ reply' \in [Clients -> Reply] /\ began' \in [Clients -> Nat]
<1>1. NewRow \in Row /\ [kind |-> k, pr |-> n] \in Reply
  BY DEF NewRow, Row, Reply, Success
<1> QED
  BY <1>1 DEF TypeOK, Answer

\* The types that every step keeps the same way.
LEMMA FaultType ==
  ASSUME TypeOK, NEW c \in Clients, Fault(c) \/ NoFault
  PROVE  faults' \in 0..MaxFaults /\ faulted' \subseteq Clients
BY BoundsAssumption DEF TypeOK, Fault, NoFault

\* Every step keeps the types.
LEMMA TypeStep == Inv /\ [Next]_vars => TypeOK'
<1> SUFFICES ASSUME Inv, [Next]_vars PROVE TypeOK'
  OBVIOUS
<1>0. TypeOK /\ prs \in Seq(PR)
  BY DEF Inv, TypeOK
<1>1. prs' \in Seq(PR) /\ ask' \in [Clients -> Asks]
  <2>1. PRsMove /\ ask' = ask
    BY <1>0, StepMovesPRs
  <2> QED
    BY <1>0, <2>1, MatchesStay DEF TypeOK
<1>2. ASSUME NEW c \in Clients, Begin(c) PROVE TypeOK'
  <2>1. CASE Answer(c, "refused", 0)
    BY <1>0, <1>1, <1>2, <2>1, AnswerType DEF Begin, TypeOK, run
  <2>2. CASE /\ pc' = [pc EXCEPT ![c] = "row"]
             /\ began' = [began EXCEPT ![c] = Len(prs)]
             /\ reply' = [reply EXCEPT ![c] = NoReply]
             /\ UNCHANGED <<found, copy>>
    <3>1. NoReply \in Reply /\ Len(prs) \in Nat
      BY <1>0 DEF NoReply, Reply
    <3> QED
      BY <1>0, <1>1, <1>2, <2>2, <3>1 DEF Begin, TypeOK, run
  <2> QED
    BY <1>2, <2>1, <2>2 DEF Begin
<1>3. ASSUME NEW c \in Clients, CheckRow(c) PROVE TypeOK'
  <2>1. row.pr \in Nat
    BY <1>0 DEF TypeOK, Row
  <2> QED
    BY <1>0, <1>1, <1>3, <2>1, AnswerType, GotoType DEF CheckRow, NoFault, TypeOK, run
<1>4. ASSUME NEW c \in Clients, LookUp(c) PROVE TypeOK'
  <2>1. Find(ask[c]) \in Nat /\ copy[c] \in Row
    BY <1>0, LookupFinds DEF TypeOK
  <2>2. faults' \in 0..MaxFaults /\ faulted' \subseteq Clients
    BY <1>0, <1>4, FaultType DEF LookUp
  <2>3. CASE Step(c, "read", Find(ask[c]), copy[c])
    BY <1>0, <1>1, <1>4, <2>1, <2>2, <2>3, StepType DEF LookUp, TypeOK, run
  <2>4. CASE NothingFound(c)
    BY <1>0, <1>1, <1>4, <2>2, <2>4, GotoType, AnswerType
       DEF NothingFound, LookUp, TypeOK, run
  <2> QED
    BY <1>4, <2>3, <2>4 DEF LookUp
<1>5. ASSUME NEW c \in Clients, Push(c) PROVE TypeOK'
  <2>1. faults' \in 0..MaxFaults /\ faulted' \subseteq Clients
    BY <1>0, <1>5, FaultType DEF Push
  <2> QED
    BY <1>0, <1>1, <1>5, <2>1, GotoType, AnswerType DEF Push, TypeOK, run
<1>6. ASSUME NEW c \in Clients, Create(c) PROVE TypeOK'
  <2>1. faults' \in 0..MaxFaults /\ faulted' \subseteq Clients
    BY <1>0, <1>6, FaultType DEF Create
  <2>2. CASE \E n \in Nat : Step(c, "read", n, copy[c])
    <3>1. copy[c] \in Row
      BY <1>0 DEF TypeOK
    <3> QED
      BY <1>0, <1>1, <1>6, <2>1, <2>2, <3>1, StepType DEF Create, TypeOK, run
  <2>3. CASE Goto(c, "recover") \/ Answer(c, "failed", 0)
    BY <1>0, <1>1, <1>6, <2>1, <2>3, GotoType, AnswerType DEF Create, TypeOK, run
  <2>4. Len(Append(prs, [repo |-> ask[c].repo, base |-> ask[c].base, open |-> TRUE]))
          \in Nat
    BY <1>0
  <2> QED
    BY <1>6, <2>2, <2>3, <2>4 DEF Create
<1>7. ASSUME NEW c \in Clients, Recover(c) PROVE TypeOK'
  <2>1. Find(ask[c]) \in Nat /\ copy[c] \in Row
    BY <1>0, LookupFinds DEF TypeOK
  <2>2. faults' \in 0..MaxFaults /\ faulted' \subseteq Clients
    BY <1>0, <1>7, FaultType DEF Recover
  <2> QED
    BY <1>0, <1>1, <1>7, <2>1, <2>2, StepType, AnswerType DEF Recover, TypeOK, run
<1>8. ASSUME NEW c \in Clients, ReadRow(c) PROVE TypeOK'
  <2>1. found[c] \in Nat /\ [status |-> row.status, pr |-> found[c]] \in Row
    BY <1>0 DEF TypeOK, Row
  <2> QED
    BY <1>0, <1>1, <1>8, <2>1, StepType DEF ReadRow, NoFault, TypeOK, run
<1>9. ASSUME NEW c \in Clients, Record(c) PROVE TypeOK'
  <2>1. faults' \in 0..MaxFaults /\ faulted' \subseteq Clients
    BY <1>0, <1>9, FaultType DEF Record
  <2>2. row' \in Row /\ found[c] \in Nat
    BY <1>0, <1>9, MergeType DEF Record, TypeOK
  <2> QED
    BY <1>0, <1>1, <1>9, <2>1, <2>2, AnswerType DEF Record, TypeOK, run
<1>10. CASE EndRun \/ ReadOutcomeRow \/ WriteOutcomeRow \/ Cancel
  <2>1. row' \in Row /\ hook' \in Row
    BY <1>0, <1>10, MergeType DEF EndRun, ReadOutcomeRow, WriteOutcomeRow, Cancel, TypeOK,
                                 Row, NewRow, run
  <2> QED
    BY <1>0, <1>1, <1>10, <2>1 DEF EndRun, ReadOutcomeRow, WriteOutcomeRow, Cancel, TypeOK,
                                   run, requests, history
<1>11. CASE HumanOpens \/ HumanCloses \/ UNCHANGED vars
  BY <1>0, <1>1, <1>11 DEF HumanOpens, HumanCloses, vars, TypeOK, run, requests, history
<1>12. CASE Crash
  <2>1. NewRow \in Row /\ [kind |-> "failed", pr |-> 0] \in Reply
    BY DEF NewRow, Row, Reply
  <2>2. faults' \in 0..MaxFaults
    BY <1>0, <1>12, BoundsAssumption DEF Crash, TypeOK
  <2> QED
    BY <1>0, <1>1, <1>12, <2>1, <2>2 DEF Crash, TypeOK
<1> QED
  BY <1>2, <1>3, <1>4, <1>5, <1>6, <1>7, <1>8, <1>9, <1>10, <1>11, <1>12 DEF Next, Request

-----------------------------------------------------------------------------
(* The invariant.                                                          *)

\* The invariant holds initially.
LEMMA InvInit == Init => Inv
<1> SUFFICES ASSUME Init PROVE Inv
  OBVIOUS
<1>1. TypeOK
  BY TypeInit
<1>2. ASSUME NEW c \in Clients PROVE ReplyInv(c) /\ FoundInv(c) /\ KnowsInv(c)
  BY DEF Init, ReplyInv, FoundInv, KnowsInv, NoReply, Success
<1> QED
  BY <1>1, <1>2 DEF Init, Inv, NewRow

\* A row that has a number keeps one, a branch that is pushed stays, and the
\* numbers in the row and in the hook's copy are those of pull requests.
LEMMA RowKeepsNumber ==
  ASSUME Inv, [Next]_vars
  PROVE  /\ row.pr # 0 => row'.pr # 0
         /\ pushed => pushed'
         /\ row'.pr \in DOMAIN prs' \cup {0} /\ hook'.pr \in DOMAIN prs' \cup {0}
<1>0. /\ TypeOK /\ row \in Row /\ hook \in Row /\ DOMAIN prs \subseteq DOMAIN prs'
      /\ row.pr \in DOMAIN prs \cup {0} /\ hook.pr \in DOMAIN prs \cup {0}
  BY StepMovesPRs, MatchesStay DEF Inv, TypeOK
<1>1. ASSUME NEW c \in Clients, Record(c)
      PROVE  /\ row.pr # 0 => row'.pr # 0
             /\ row'.pr \in DOMAIN prs' \cup {0}
  <2>1. found[c] \in DOMAIN prs /\ copy[c].pr = found[c]
    BY <1>1 DEF Record, Inv, FoundInv, Matching
  <2> QED
    BY <1>0, <1>1, <2>1 DEF Record, Merge
<1>2. CASE EndRun \/ ReadOutcomeRow \/ WriteOutcomeRow \/ Cancel
  BY <1>0, <1>2 DEF EndRun, ReadOutcomeRow, WriteOutcomeRow, Cancel, Merge, Row, NewRow,
                    run
<1>3. CASE HumanOpens \/ HumanCloses \/ Crash \/ UNCHANGED vars
  <2>1. row' = row /\ pushed' = pushed /\ hook' \in {hook, NewRow}
    BY <1>3 DEF HumanOpens, HumanCloses, Crash, run, vars
  <2> QED
    BY <1>0, <2>1 DEF NewRow
<1>4. ASSUME NEW c \in Clients,
             \/ Begin(c) \/ CheckRow(c) \/ LookUp(c) \/ Push(c) \/ Create(c)
             \/ Recover(c) \/ ReadRow(c) \/ Record(c)
      PROVE  (row' = row \/ Record(c)) /\ hook' = hook /\ (pushed => pushed')
  <2>1. CASE Push(c)
    BY <1>0, <2>1 DEF Push, run, TypeOK
  <2>2. CASE Begin(c) \/ CheckRow(c) \/ LookUp(c) \/ Create(c) \/ Recover(c) \/ ReadRow(c)
    BY <2>2 DEF Begin, CheckRow, LookUp, Create, Recover, ReadRow, run
  <2>3. CASE Record(c)
    BY <2>3 DEF Record, run
  <2> QED
    BY <1>4, <2>1, <2>2, <2>3
<1> QED
  BY <1>0, <1>1, <1>2, <1>3, <1>4 DEF Next, Request

LocalsStay(c) ==
  /\ pc'[c] = pc[c] /\ found'[c] = found[c] /\ copy'[c] = copy[c]
  /\ reply'[c] = reply[c] /\ began'[c] = began[c]
  /\ c \in faulted <=> c \in faulted'

\* What others do leaves a client's part of the invariant alone.
LEMMA Bystander ==
  ASSUME Inv, [Next]_vars, NEW c \in Clients, LocalsStay(c)
  PROVE  ReplyInv(c)' /\ FoundInv(c)' /\ KnowsInv(c)'
<1>1. ReplyInv(c) /\ FoundInv(c) /\ KnowsInv(c) /\ prs \in Seq(PR) /\ began[c] \in Nat
  BY DEF Inv, TypeOK
<1>2. PRsMove /\ ask' = ask
  BY StepMovesPRs DEF Inv
<1>3. /\ Len(prs') >= Len(prs) /\ DOMAIN prs \subseteq DOMAIN prs' /\ prs' \in Seq(PR)
      /\ Matching(ask[c]) \subseteq Matching(ask[c])'
      /\ \A n \in Matching(ask[c])' : n \in Matching(ask[c]) \/ n = Len(prs) + 1
  BY <1>1, <1>2, MatchesStay
<1>4. /\ row.pr # 0 => row'.pr # 0
      /\ pushed => pushed'
  BY RowKeepsNumber
<1>5. ReplyInv(c)'
  BY <1>1, <1>2, <1>3, <1>4 DEF ReplyInv, LocalsStay
<1>6. FoundInv(c)'
  BY <1>1, <1>2, <1>3 DEF FoundInv, LocalsStay
<1>7. KnowsInv(c)'
  BY <1>1, <1>2, <1>3, <1>4 DEF KnowsInv, LocalsStay
<1> QED
  BY <1>5, <1>6, <1>7

\* A client's own step: where it leads, its part of the invariant holds again.
LEMMA BeginKeeps ==
  ASSUME Inv, [Next]_vars, NEW c \in Clients, Begin(c)
  PROVE  ReplyInv(c)' /\ FoundInv(c)' /\ KnowsInv(c)'
<1>1. TypeOK /\ prs \in Seq(PR) /\ prs' = prs
  BY DEF Inv, TypeOK, Begin
<1>2. Matching(ask[c]) \subseteq 1..Len(prs)
  BY <1>1, MatchingNumbers
<1>3. CASE Answer(c, "refused", 0)
  BY <1>1, <1>3 DEF Answer, ReplyInv, FoundInv, KnowsInv, Success, NoReply, TypeOK
<1>4. CASE /\ pc' = [pc EXCEPT ![c] = "row"]
           /\ began' = [began EXCEPT ![c] = Len(prs)]
           /\ reply' = [reply EXCEPT ![c] = NoReply]
  BY <1>1, <1>4 DEF ReplyInv, FoundInv, KnowsInv, Success, NoReply, TypeOK
<1> QED
  BY <1>3, <1>4 DEF Begin

\* An answer that names no pull request says nothing; a failure needs a reason.
LEMMA AnswerKeeps ==
  ASSUME Inv, NEW c \in Clients, TypeOK',
         \/ Answer(c, "refused", 0)
         \/ Answer(c, "failed", 0) /\ (c \in faulted' \/ ask'[c].repo # Origin)
  PROVE  ReplyInv(c)' /\ FoundInv(c)' /\ KnowsInv(c)'
<1>1. TypeOK /\ prs' \in Seq(PR)
  BY DEF Inv, TypeOK
<1>2. pc'[c] = "idle" /\ began'[c] = 0 /\ reply'[c].kind \in {"refused", "failed"}
      /\ (reply'[c].kind = "failed" => c \in faulted' \/ ask'[c].repo # Origin)
  BY <1>1 DEF Answer, TypeOK
<1> QED
  BY <1>1, <1>2 DEF ReplyInv, FoundInv, KnowsInv, Success

\* A request that goes on to p with what it found.
LEMMA StepKeeps ==
  ASSUME Inv, [Next]_vars, TypeOK', NEW c \in Clients, NEW n \in Nat, NEW r \in Row,
         NEW p \in {"find", "push", "create", "recover", "read", "record"},
         pc[c] # "idle", Step(c, p, n, r), faulted \subseteq faulted',
         p \in {"read", "record"} => n \in Matching(ask[c])',
         p = "record" => r.pr = n,
         p = "create" => pushed',
         p \in {"push", "create"} =>
           c \in faulted' \/ \A m \in Matching(ask[c])' : m > began[c],
         p = "recover" /\ ask[c].repo = Origin =>
           c \in faulted' \/ Matching(ask[c])' # {}
  PROVE  ReplyInv(c)' /\ FoundInv(c)' /\ KnowsInv(c)'
<1>1. TypeOK /\ FoundInv(c) /\ KnowsInv(c) /\ prs \in Seq(PR)
  BY DEF Inv, TypeOK
<1>2. ask' = ask /\ Len(prs') >= Len(prs) /\ prs' \in Seq(PR)
  BY <1>1, StepMovesPRs, MatchesStay
<1>3. /\ pc'[c] = p /\ found'[c] = n /\ copy'[c] = r
      /\ reply'[c] = NoReply /\ began'[c] = began[c]
  BY <1>1 DEF Step, TypeOK, FoundInv
<1>4. ReplyInv(c)' /\ FoundInv(c)'
  BY <1>1, <1>2, <1>3 DEF ReplyInv, FoundInv, Success, NoReply
<1>5. KnowsInv(c)'
  BY <1>1, <1>2, <1>3 DEF KnowsInv, NoReply, TypeOK
<1> QED
  BY <1>4, <1>5

\* A step of one client leaves the locals of another alone.
LEMMA OthersStay ==
  ASSUME TypeOK, NEW c \in Clients, NEW d \in Clients, c # d,
         \/ Begin(c)
         \/ Request(c)
  PROVE  LocalsStay(d)
<1>1. ASSUME NEW p, NEW n, NEW r, Step(c, p, n, r)
      PROVE  /\ pc'[d] = pc[d] /\ found'[d] = found[d] /\ copy'[d] = copy[d]
             /\ reply'[d] = reply[d] /\ began'[d] = began[d]
  BY <1>1 DEF Step, TypeOK
<1>2. ASSUME NEW k, NEW n, Answer(c, k, n)
      PROVE  /\ pc'[d] = pc[d] /\ found'[d] = found[d] /\ copy'[d] = copy[d]
             /\ reply'[d] = reply[d] /\ began'[d] = began[d]
  BY <1>2 DEF Answer, TypeOK
<1>3. CASE Begin(c)
  BY <1>2, <1>3 DEF Begin, LocalsStay, TypeOK
<1>4. Fault(c) \/ NoFault => (d \in faulted <=> d \in faulted')
  BY DEF Fault, NoFault
<1>5. CASE CheckRow(c)
  BY <1>1, <1>2, <1>4, <1>5 DEF CheckRow, Goto, LocalsStay
<1>6. CASE LookUp(c)
  BY <1>1, <1>2, <1>4, <1>6 DEF LookUp, NothingFound, Goto, LocalsStay
<1>7. CASE Push(c)
  BY <1>1, <1>2, <1>4, <1>7 DEF Push, Goto, LocalsStay
<1>8. CASE Create(c)
  BY <1>1, <1>2, <1>4, <1>8 DEF Create, Goto, LocalsStay
<1>9. CASE Recover(c)
  BY <1>1, <1>2, <1>4, <1>9 DEF Recover, LocalsStay
<1>10. CASE ReadRow(c)
  BY <1>1, <1>4, <1>10 DEF ReadRow, LocalsStay
<1>11. CASE Record(c)
  BY <1>2, <1>4, <1>11 DEF Record, LocalsStay
<1> QED
  BY <1>3, <1>5, <1>6, <1>7, <1>8, <1>9, <1>10, <1>11 DEF Request

\* Every step of a request keeps the client's part of the invariant.
LEMMA RequestKeeps ==
  ASSUME Inv, [Next]_vars, TypeOK', NEW c \in Clients, Request(c)
  PROVE  ReplyInv(c)' /\ FoundInv(c)' /\ KnowsInv(c)'
<1>1. /\ TypeOK /\ FoundInv(c) /\ KnowsInv(c) /\ ReplyInv(c) /\ prs \in Seq(PR)
      /\ found[c] \in Nat /\ copy[c] \in Row /\ pc[c] # "idle" /\ ask' = ask
  BY StepMovesPRs DEF Inv, TypeOK, Request, CheckRow, LookUp, Push, Create, Recover,
                      ReadRow, Record
<1>2. /\ Find(ask[c]) \in Matching(ask[c]) \cup {0} /\ Find(ask[c]) \in Nat
      /\ Find(ask[c]) = 0 <=> Matching(ask[c]) = {}
  BY <1>1, LookupFinds
<1>3. prs' = prs => Matching(ask[c])' = Matching(ask[c])
  BY <1>1 DEF Matching
<1>4. Fault(c) => c \in faulted'
  BY DEF Fault
<1>5. CASE CheckRow(c)
  <2>1. CASE Answer(c, "refused", 0)
    BY <2>1, AnswerKeeps
  <2>2. CASE Goto(c, "find")
    BY <1>1, <1>5, <2>2, StepKeeps DEF CheckRow, Goto, NoFault
  <2>3. CASE row.pr # 0 /\ Answer(c, "already_published", row.pr)
    <3>1. row.pr \in DOMAIN prs
      BY <2>3 DEF Inv
    <3>2. /\ pc'[c] = "idle" /\ began'[c] = 0
          /\ reply'[c] = [kind |-> "already_published", pr |-> row.pr]
      BY <1>1, <2>3 DEF Answer, TypeOK
    <3> QED
      BY <1>1, <1>5, <2>3, <3>1, <3>2 DEF CheckRow, ReplyInv, FoundInv, KnowsInv, Success
  <2> QED
    BY <1>5, <2>1, <2>2, <2>3 DEF CheckRow
<1>6. CASE LookUp(c)
  <2>1. prs' = prs
    BY <1>6 DEF LookUp
  <2>2. CASE Find(ask[c]) # 0 /\ NoFault /\ Step(c, "read", Find(ask[c]), copy[c])
    BY <1>1, <1>2, <1>3, <2>1, <2>2, StepKeeps DEF NoFault
  <2>3. CASE NothingFound(c) /\ ((Find(ask[c]) = 0 /\ NoFault) \/ Fault(c))
    <3>1. CASE Answer(c, "refused", 0)
      BY <3>1, AnswerKeeps
    <3>2. CASE Goto(c, "push")
      <4>1. faulted \subseteq faulted'
        BY <2>3 DEF Fault, NoFault
      <4>2. c \in faulted' \/ Matching(ask[c])' = {}
        BY <1>2, <1>3, <1>4, <2>1, <2>3
      <4> QED
        BY <1>1, <3>2, <4>1, <4>2, StepKeeps DEF Goto
    <3> QED
      BY <2>3, <3>1, <3>2 DEF NothingFound
  <2> QED
    BY <1>6, <2>2, <2>3 DEF LookUp
<1>7. CASE Push(c)
  <2>1. CASE Goto(c, "create") /\ NoFault /\ pushed' = TRUE
    <3>1. c \in faulted' \/ \A m \in Matching(ask[c])' : m > began[c]
      BY <1>1, <1>3, <1>7, <2>1 DEF Push, KnowsInv, NoFault
    <3> QED
      BY <1>1, <1>7, <2>1, <3>1, StepKeeps DEF Goto, NoFault
  <2>2. CASE Fault(c) /\ Answer(c, "failed", 0)
    BY <1>4, <2>2, AnswerKeeps
  <2> QED
    BY <1>7, <2>1, <2>2 DEF Push
<1>8. CASE Create(c)
  <2> DEFINE opened == Append(prs, [repo |-> ask[c].repo, base |-> ask[c].base,
                                    open |-> TRUE])
  <2>1. CASE prs' = opened /\ Step(c, "read", Len(opened), copy[c]) /\ NoFault
    <3>1. [repo |-> ask[c].repo, base |-> ask[c].base, open |-> TRUE] \in PR
      BY <1>1 DEF TypeOK, Asks, PR
    <3>2. /\ Len(opened) \in Nat /\ Len(opened) \in DOMAIN opened
          /\ opened[Len(opened)] = [repo |-> ask[c].repo, base |-> ask[c].base,
                                    open |-> TRUE]
      BY <1>1, <3>1
    <3>3. Len(opened) \in Matching(ask[c])'
      BY <1>1, <2>1, <3>2 DEF Matching
    <3> QED
      BY <1>1, <2>1, <3>2, <3>3, StepKeeps DEF NoFault
  <2>2. CASE ~Acceptable(ask[c]) /\ Goto(c, "recover") /\ NoFault /\ UNCHANGED prs
    <3>1. ask[c].repo = Origin => Matching(ask[c])' # {}
      BY <1>1, <1>3, <1>8, <2>2 DEF Create, Acceptable, KnowsInv
    <3> QED
      BY <1>1, <2>2, <3>1, StepKeeps DEF Goto, NoFault
  <2>3. CASE Fault(c) /\ Goto(c, "recover")
    BY <1>1, <1>4, <2>3, StepKeeps DEF Goto, Fault
  <2>4. CASE Fault(c) /\ Answer(c, "failed", 0)
    BY <1>4, <2>4, AnswerKeeps
  <2> QED
    BY <1>8, <2>1, <2>2, <2>3, <2>4 DEF Create
<1>9. CASE Recover(c)
  <2>1. prs' = prs
    BY <1>9 DEF Recover
  <2>2. CASE Find(ask[c]) # 0 /\ NoFault /\ Step(c, "read", Find(ask[c]), copy[c])
    BY <1>1, <1>2, <1>3, <2>1, <2>2, StepKeeps DEF NoFault
  <2>3. CASE Find(ask[c]) = 0 /\ NoFault /\ Answer(c, "failed", 0)
    <3>1. c \in faulted' \/ ask'[c].repo # Origin
      BY <1>1, <1>2, <1>9, <2>3 DEF Recover, KnowsInv, NoFault
    <3> QED
      BY <2>3, <3>1, AnswerKeeps
  <2>4. CASE Fault(c) /\ Answer(c, "failed", 0)
    BY <1>4, <2>4, AnswerKeeps
  <2> QED
    BY <1>9, <2>2, <2>3, <2>4 DEF Recover
<1>10. CASE ReadRow(c)
  <2>1. [status |-> row.status, pr |-> found[c]] \in Row
    BY <1>1 DEF TypeOK, Row
  <2>2. found[c] \in Matching(ask[c])'
    BY <1>1, <1>3, <1>10 DEF ReadRow, FoundInv
  <2> QED
    BY <1>1, <1>10, <2>1, <2>2, StepKeeps DEF ReadRow, NoFault
<1>11. CASE Record(c)
  <2>1. found[c] \in Matching(ask[c]) /\ copy[c].pr = found[c] /\ prs' = prs
    BY <1>1, <1>11 DEF Record, FoundInv
  <2>2. found[c] \in DOMAIN prs /\ found[c] # 0
    BY <1>1, <2>1, MatchingNumbers DEF Matching
  <2>3. c \in faulted' \/ row'.pr # 0
    BY <1>4, <1>11, <2>1, <2>2 DEF Record, Merge
  <2>4. /\ pc'[c] = "idle" /\ began'[c] = 0
        /\ reply'[c] = [kind |-> "published", pr |-> found[c]]
    BY <1>1, <1>11 DEF Record, Answer, TypeOK
  <2> QED
    BY <1>1, <1>3, <2>1, <2>2, <2>3, <2>4 DEF ReplyInv, FoundInv, KnowsInv, Success
<1> QED
  BY <1>5, <1>6, <1>7, <1>8, <1>9, <1>10, <1>11 DEF Request

\* A crash leaves failed answers to faulted clients, and no request.
LEMMA CrashKeeps ==
  ASSUME Inv, NEW c \in Clients, Crash
  PROVE  ReplyInv(c)' /\ FoundInv(c)' /\ KnowsInv(c)'
<1>1. /\ TypeOK /\ FoundInv(c) /\ KnowsInv(c) /\ ReplyInv(c) /\ prs \in Seq(PR)
      /\ prs' = prs /\ ask' = ask /\ row' = row
  BY DEF Inv, TypeOK, Crash
<1>2. Matching(ask[c])' = Matching(ask[c])
  BY <1>1 DEF Matching
<1>3. pc'[c] = "idle" /\ began'[c] = 0 /\ faulted \subseteq faulted'
  BY DEF Crash
<1>4. CASE reply'[c] = reply[c]
  BY <1>1, <1>2, <1>3, <1>4 DEF ReplyInv, FoundInv, KnowsInv
<1>5. CASE reply'[c].kind = "failed" /\ c \in faulted'
  BY <1>1, <1>3, <1>5 DEF ReplyInv, FoundInv, KnowsInv, Success
<1> QED
  BY <1>4, <1>5 DEF Crash

\* The invariant is inductive.
LEMMA InvStep == Inv /\ [Next]_vars => Inv'
<1> SUFFICES ASSUME Inv, [Next]_vars PROVE Inv'
  OBVIOUS
<1>1. TypeOK /\ TypeOK'
  BY TypeStep DEF Inv
<1>2. ASSUME NEW d \in Clients PROVE ReplyInv(d)' /\ FoundInv(d)' /\ KnowsInv(d)'
  <2>1. CASE \E c \in Clients : Begin(c) \/ Request(c)
    BY <1>1, <2>1, OthersStay, Bystander, BeginKeeps, RequestKeeps
  <2>2. CASE Crash
    BY <2>2, CrashKeeps
  <2>3. CASE EndRun \/ ReadOutcomeRow \/ WriteOutcomeRow \/ Cancel \/ HumanOpens
             \/ HumanCloses \/ UNCHANGED vars
    <3>1. UNCHANGED <<requests, history>>
      BY <2>3 DEF EndRun, ReadOutcomeRow, WriteOutcomeRow, Cancel, HumanOpens,
                  HumanCloses, vars
    <3>2. LocalsStay(d)
      BY <3>1 DEF LocalsStay, requests, history
    <3> QED
      BY <3>2, Bystander
  <2> QED
    BY <2>1, <2>2, <2>3 DEF Next
<1> QED
  BY <1>1, <1>2, RowKeepsNumber DEF Inv

-----------------------------------------------------------------------------
(* The theorems.                                                           *)

(***************************************************************************)
(* The inductive invariant, for any number of clients, people's pull       *)
(* requests, lost answers and crashes.                                     *)
(***************************************************************************)
THEOREM PublishInvariant == Spec => []Inv
  BY InvInit, InvStep, PTL DEF Spec

(***************************************************************************)
(* A publish request none of whose own calls failed does not fail.         *)
(***************************************************************************)
THEOREM FaultlessNeverFails == Spec => []FaultlessSucceeds
<1>1. Inv => FaultlessSucceeds
  BY DEF Inv, KnowsInv, FaultlessSucceeds
<1> QED
  BY <1>1, PublishInvariant, PTL

(***************************************************************************)
(* Every success names an existing pull request, "published" one that was  *)
(* asked for, and the row has a number from then on.                       *)
(***************************************************************************)
THEOREM AnswersAreRecorded == Spec => []RecordedAnswers
<1>1. Inv => RecordedAnswers
  BY DEF Inv, ReplyInv, RecordedAnswers
<1> QED
  BY <1>1, PublishInvariant, PTL

(***************************************************************************)
(* A request whose earlier calls were answered opens a pull request only   *)
(* if none from the branch to that base existed when it began.             *)
(***************************************************************************)
THEOREM RetriesDoNotOpen == Spec => RetriesOpenNothing
<1> DEFINE A == \A c \in Clients : pc[c] = "create" /\ Len(prs') > Len(prs) /\ pc'[c] # pc[c] =>
                  c \in faulted \/ \A n \in Matching(ask[c]) : n > began[c]
<1>1. Inv => A
  BY DEF Inv, KnowsInv
<1>2. Spec => [][A]_vars
  <2> HIDE DEF A
  <2> QED
    BY <1>1, PublishInvariant, PTL
<1> QED
  BY <1>2 DEF RetriesOpenNothing
=============================================================================
