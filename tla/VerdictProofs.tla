--------------------------- MODULE VerdictProofs ---------------------------
(***************************************************************************)
(* What Verdict and ProviderFallback promise, for every set of candidates, *)
(* every revision budget and every environment of the model calls.         *)
(*                                                                         *)
(* The inductive invariant says what each check that is done has told of   *)
(* the candidate, that only a vetted candidate is prepared, that only a    *)
(* diff with changes waits for a reviewer, and who the reviewer can be; of *)
(* a model call, which providers its attempts used and why it went on.     *)
(***************************************************************************)
EXTENDS Verdict, TLAPS

\* The first n attempts of a call: who was asked, and why it went on.
AttemptInv(n) ==
  /\ settings \in Envs /\ Len(tried) = n /\ tried[1] = settings.primary
  /\ n > 1 => /\ settings.enabled /\ errors[1] \in Eligible
              /\ tried[2] \in settings.keys \ {settings.primary}
  /\ n > 2 => /\ errors[2] = "RateLimit"
              /\ tried[3] \in settings.keys \ {settings.primary, tried[2]}

Attempt == CASE at = "primary" -> 1 [] at = "fallback" -> 2 [] OTHER -> 3
Failing == stage \in {"rescue", "failed"}

CallInv ==
  /\ CallTypeOK
  /\ at = "idle" => Idle
  /\ Running => /\ AttemptInv(Attempt) /\ unstarted = {}
                /\ Len(errors) = IF Failing THEN Attempt ELSE Attempt - 1
  /\ at \in {"returned", "raised"} => \E n \in 1..3 : AttemptInv(n)
  /\ GivesUpForAReason

-----------------------------------------------------------------------------
(* Selecting a fallback.                                                   *)

\* A fallback has a key, is not the primary provider and is not excluded; with
\* fallbacks enabled, there is none only if no such provider is left.
LEMMA FallbackSelects ==
  ASSUME settings \in Envs, NEW x \in SUBSET Providers
  PROVE  /\ Fallback(x) # NoProvider =>
              /\ settings.enabled /\ Fallback(x) \in Providers
              /\ Fallback(x) \in settings.keys \ (x \cup {settings.primary})
         /\ settings.enabled /\ Fallback(x) = NoProvider =>
              settings.keys \subseteq x \cup {settings.primary}
<1>1. settings.primary \in Providers /\ settings.keys \subseteq Providers
  BY DEF Envs
<1>2. ASSUME NEW S \in SUBSET (Providers \ {settings.primary})
      PROVE  /\ Preferred(S) # NoProvider => Preferred(S) \in S
             /\ Preferred(S) = NoProvider => S = {}
  BY <1>1, NoProviderAssumption DEF Preferred, FallbackOrder, Providers
<1>3. Usable(x) \subseteq Providers \ {settings.primary}
      /\ Usable(x) = settings.keys \ (x \cup {settings.primary})
  BY <1>1 DEF Usable
<1>4. CASE x = {} /\ settings.enabled /\ settings.explicit \in Usable({})
  BY <1>1, <1>3, <1>4, NoProviderAssumption DEF Fallback
<1>5. CASE ~(x = {} /\ settings.explicit \in Usable({})) /\ settings.enabled
  <2>1. Fallback(x) = Preferred(Usable(x))
    BY <1>5 DEF Fallback
  <2> DEFINE S == Usable(x)
  <2>2. S \in SUBSET (Providers \ {settings.primary})
    BY <1>3
  <2>3. /\ Preferred(S) # NoProvider => Preferred(S) \in S
        /\ Preferred(S) = NoProvider => S = {}
    BY <1>2, <2>2
  <2> QED
    BY <1>1, <1>3, <1>5, <2>1, <2>2, <2>3
<1>6. CASE ~settings.enabled
  BY <1>6 DEF Fallback
<1> QED
  BY <1>4, <1>5, <1>6

-----------------------------------------------------------------------------
(* A call.                                                                 *)

\* A call starts with its primary provider.
LEMMA InvokeKeeps == CallInv /\ Invoke => CallInv'
<1> SUFFICES ASSUME CallInv, Invoke PROVE CallInv'
  OBVIOUS
<1>1. settings' \in Envs /\ settings'.primary \in Providers
  BY DEF Invoke, Envs
<1>2. /\ at' = "primary" /\ tried' = <<settings'.primary>> /\ stage' = "structured"
      /\ errors' = <<>> /\ unstarted' = {}
  BY DEF Invoke, CallInv, Idle
<1>3. CallTypeOK'
  BY <1>1, <1>2 DEF CallTypeOK
<1>4. AttemptInv(1)'
  BY <1>1, <1>2 DEF AttemptInv
<1> QED
  BY <1>2, <1>3, <1>4 DEF CallInv, Running, Attempt, Failing, GivesUpForAReason

\* What a request within an attempt can do to it.
LEMMA RequestKeeps ==
  ASSUME CallInv, Running, ~Failing \/ stage = "rescue",
         \/ Return
         \/ \E s \in {"direct", "convert"} : ~Failing /\ GoTo(s)
         \/ stage = "rescue" /\ GoTo("failed")
         \/ ~Failing /\ \E e \in Errors : Fail(e)
  PROVE  CallInv'
<1>1. /\ CallTypeOK /\ AttemptInv(Attempt) /\ unstarted = {}
      /\ Len(errors) = IF Failing THEN Attempt ELSE Attempt - 1
      /\ Attempt \in 1..3
  BY DEF CallInv, Attempt
<1>2. CASE Return
  <2>1. \A n \in 1..3 : AttemptInv(n) => AttemptInv(n)'
    BY <1>2 DEF Return, AttemptInv
  <2>2. CallTypeOK'
    BY <1>1, <1>2 DEF Return, CallTypeOK
  <2>3. \E n \in 1..3 : AttemptInv(n)'
    BY <1>1, <2>1
  <2> QED
    BY <1>2, <2>2, <2>3 DEF Return, CallInv, Running, GivesUpForAReason
<1>3. CASE \E s \in {"direct", "convert", "failed"} : GoTo(s) /\ (s = "failed" <=> Failing)
  <2>1. \A n \in 1..3 : AttemptInv(n) => AttemptInv(n)'
    BY <1>3 DEF GoTo, AttemptInv
  <2>2. CallTypeOK' /\ Attempt' = Attempt /\ Running' /\ Failing' = Failing
    BY <1>1, <1>3 DEF GoTo, CallTypeOK, Attempt, Running, Failing
  <2>3. AttemptInv(Attempt)' /\ errors' = errors /\ unstarted' = {} /\ at' = at
    BY <1>1, <1>3, <2>1, <2>2 DEF GoTo, AttemptInv
  <2> QED
    BY <1>1, <2>2, <2>3 DEF CallInv, Running, GivesUpForAReason
<1>4. ASSUME ~Failing, NEW e \in Errors, Fail(e) PROVE CallInv'
  <2>1. /\ errors' = Append(errors, e) /\ errors \in Seq(Errors)
        /\ Len(errors) = Attempt - 1
    BY <1>1, <1>4 DEF Fail, CallTypeOK
  <2>2. /\ errors' \in Seq(Errors) /\ Len(errors') = Attempt
        /\ \A i \in 1..(Attempt - 1) : errors'[i] = errors[i]
    BY <1>1, <2>1
  <2>3. CallTypeOK' /\ Attempt' = Attempt /\ Running' /\ Failing'
    BY <1>1, <1>4, <2>2 DEF Fail, CallTypeOK, Attempt, Running, Failing
  <2>4. /\ settings' = settings /\ tried' = tried /\ unstarted' = unstarted /\ at' = at
    BY <1>4 DEF Fail
  <2>5. AttemptInv(Attempt)'
    BY <1>1, <2>2, <2>3, <2>4 DEF AttemptInv
  <2> QED
    BY <1>1, <2>2, <2>3, <2>4, <2>5 DEF CallInv, Running, GivesUpForAReason
<1> QED
  BY <1>2, <1>3, <1>4 DEF Failing

\* The next attempt asks a provider of its own, for a reason.
LEMMA SwitchKeeps ==
  ASSUME CallInv, NEW a, NEW p, at \in {"primary", "fallback"}, stage = "failed",
         at = "primary" => a = "fallback" /\ errors[1] \in Eligible /\ p = Fallback({}),
         at = "fallback" => a = "second" /\ errors[2] = "RateLimit"
                            /\ p = Fallback({tried[2]}),
         p # NoProvider, Switch(a, p)
  PROVE  CallInv'
<1>1. /\ CallTypeOK /\ AttemptInv(Attempt) /\ unstarted = {} /\ Attempt \in 1..2
      /\ Len(errors) = Attempt /\ Len(tried) = Attempt
  BY DEF CallInv, Running, Failing, Attempt, AttemptInv
<1>2. /\ settings.enabled /\ p \in Providers
      /\ at = "primary" => p \in settings.keys \ {settings.primary}
      /\ at = "fallback" => p \in settings.keys \ {settings.primary, tried[2]}
  <2>1. settings \in Envs /\ (at = "fallback" => tried[2] \in Providers)
    BY <1>1 DEF AttemptInv, Attempt, Envs
  <2>2. CASE at = "primary"
    BY <2>1, <2>2, FallbackSelects
  <2>3. CASE at = "fallback"
    BY <2>1, <2>3, FallbackSelects
  <2> QED
    BY <2>2, <2>3
<1>3. CASE Raise({p})
  <2>1. \A n \in 1..3 : AttemptInv(n) => AttemptInv(n)'
    BY <1>3 DEF Raise, AttemptInv
  <2>2. CallTypeOK'
    BY <1>1, <1>2, <1>3 DEF Raise, CallTypeOK
  <2>3. \E n \in 1..3 : AttemptInv(n)'
    BY <1>1, <2>1
  <2> QED
    BY <1>3, <2>2, <2>3 DEF Raise, CallInv, Running, GivesUpForAReason
<1>4. CASE /\ at' = a /\ stage' = "structured" /\ tried' = Append(tried, p)
           /\ UNCHANGED <<settings, errors, unstarted>>
  <2>1. tried \in Seq(Providers)
    BY <1>1 DEF CallTypeOK
  <2>2. /\ tried' \in Seq(Providers) /\ Len(tried') = Attempt + 1
        /\ tried'[Attempt + 1] = p /\ \A i \in 1..Attempt : tried'[i] = tried[i]
    BY <1>1, <1>2, <1>4, <2>1
  <2>3. /\ Attempt' = Attempt + 1 /\ Running' /\ ~Failing' /\ CallTypeOK'
    BY <1>1, <1>4, <2>2 DEF Attempt, Running, Failing, CallTypeOK
  <2>4. AttemptInv(Attempt)'
    <3>1. CASE at = "primary"
      <4>1. Attempt = 1 /\ Attempt' = 2
        BY <2>3, <3>1 DEF Attempt
      <4> QED
        BY <1>1, <1>2, <1>4, <2>2, <3>1, <4>1 DEF AttemptInv
    <3>2. CASE at = "fallback"
      <4>1. Attempt = 2 /\ Attempt' = 3
        BY <2>3, <3>2 DEF Attempt
      <4> QED
        BY <1>1, <1>2, <1>4, <2>2, <3>2, <4>1 DEF AttemptInv
    <3> QED
      BY <3>1, <3>2
  <2> QED
    BY <1>1, <1>4, <2>3, <2>4 DEF CallInv, Running, GivesUpForAReason, AttemptInv, Attempt,
                                  Failing
<1> QED
  BY <1>3, <1>4 DEF Switch

\* A call that gives up has a reason.
LEMMA GiveUpKeeps ==
  ASSUME CallInv, Running, stage = "failed", Raise({}),
         at = "primary" => ~(errors[1] \in Eligible /\ Fallback({}) # NoProvider),
         at = "fallback" => ~(errors[2] = "RateLimit" /\ Fallback({tried[2]}) # NoProvider)
  PROVE  CallInv'
<1>1. /\ CallTypeOK /\ AttemptInv(Attempt) /\ unstarted = {} /\ Attempt \in 1..3
      /\ Len(errors) = Attempt /\ Len(tried) = Attempt /\ settings \in Envs
  BY DEF CallInv, Failing, Attempt, AttemptInv
<1>2. \A n \in 1..3 : AttemptInv(n) => AttemptInv(n)'
  BY DEF Raise, AttemptInv
<1>3. CallTypeOK' /\ \E n \in 1..3 : AttemptInv(n)'
  BY <1>1, <1>2 DEF Raise, CallTypeOK
<1>4. at' = "raised" /\ UNCHANGED <<settings, tried, errors>>
  BY DEF Raise
<1>5. ASSUME settings.enabled
      PROVE  /\ errors[1] \in Eligible => Len(tried) > 1 \/ settings.keys = {settings.primary}
             /\ Len(errors) = 2 /\ errors[2] = "RateLimit" =>
                  settings.keys \subseteq Range(tried)
  <2>1. CASE at = "primary"
    <3>1. errors[1] \in Eligible => settings.keys \subseteq {settings.primary}
      BY <1>1, <1>5, <2>1, FallbackSelects
    <3>2. settings.primary \in settings.keys
      BY <1>1 DEF Envs
    <3> QED
      BY <1>1, <2>1, <3>1, <3>2 DEF Attempt
  <2>2. CASE at = "fallback"
    <3>1. tried[2] \in Providers
      BY <1>1, <2>2 DEF AttemptInv, Attempt, Envs
    <3>2. errors[2] = "RateLimit" => settings.keys \subseteq {tried[2], settings.primary}
      BY <1>1, <1>5, <2>2, <3>1, FallbackSelects
    <3>3. tried \in Seq(Providers) /\ Len(tried) = 2 /\ tried[1] = settings.primary
      BY <1>1, <2>2 DEF CallTypeOK, AttemptInv, Attempt
    <3>4. {tried[1], tried[2]} \subseteq Range(tried)
      BY <3>3 DEF Range
    <3> QED
      BY <3>2, <3>3, <3>4
  <2>3. CASE at = "second"
    BY <1>1, <2>3 DEF Attempt
  <2> QED
    BY <2>1, <2>2, <2>3 DEF Running
<1> QED
  BY <1>3, <1>4, <1>5 DEF CallInv, Running, GivesUpForAReason

\* Every step of a call keeps the call's part of the invariant.
LEMMA CallKeeps == CallInv /\ CallStep => CallInv'
<1> SUFFICES ASSUME CallInv, CallStep PROVE CallInv'
  OBVIOUS
<1>1. CASE Structured \/ Direct \/ Convert \/ Rescue
  BY <1>1, RequestKeeps DEF Structured, Direct, Convert, Rescue, Failing
<1>2. CASE PrimaryFailed
  BY <1>2, SwitchKeeps, GiveUpKeeps DEF PrimaryFailed, Running
<1>3. CASE FallbackFailed
  BY <1>3, SwitchKeeps, GiveUpKeeps DEF FallbackFailed, Running
<1>4. CASE SecondFailed
  BY <1>4, GiveUpKeeps DEF SecondFailed, Running
<1> QED
  BY <1>1, <1>2, <1>3, <1>4, InvokeKeeps DEF CallStep

\* What the parts of the invariant say of every state.
LEMMA Bounded == CallInv => FallbackIsBounded
<1> SUFFICES ASSUME CallInv PROVE FallbackIsBounded
  OBVIOUS
<1>1. tried \in Seq(Providers)
  BY DEF CallInv, CallTypeOK
<1>2. CASE at = "idle"
  BY <1>2 DEF CallInv, Idle, FallbackIsBounded, IsInjective, Range
<1>3. CASE at # "idle"
  <2>1. PICK n \in 1..3 : AttemptInv(n)
    <3>1. Attempt \in 1..3
      BY DEF Attempt
    <3> QED
      BY <1>3, <3>1 DEF CallInv, CallTypeOK, Running
  <2>2. settings.primary \in settings.keys
    BY <2>1 DEF AttemptInv, Envs
  <2>3. DOMAIN tried = 1..n /\ Len(tried) = n
    BY <1>1, <2>1 DEF AttemptInv
  <2>4. IsInjective(tried)
    BY <2>1, <2>3 DEF AttemptInv, IsInjective
  <2>5. Range(tried) \subseteq settings.keys
    BY <2>1, <2>2, <2>3 DEF AttemptInv, Range
  <2> QED
    BY <2>1, <2>3, <2>4, <2>5 DEF FallbackIsBounded, AttemptInv
<1> QED
  BY <1>2, <1>3

-----------------------------------------------------------------------------
(* From a candidate to a commit.                                           *)

\* What a check that is done has told of the candidate.
AstInv ==
  step \in {"scope", "security", "pytest", "lint", "typecheck", "judge"} =>
    checks["ast"] = Verdict(\E f \in candidate : ~Applies(f))

ScopeInv ==
  step \in {"security", "pytest", "lint", "typecheck", "judge"} =>
    checks["scope"] =
      Verdict(request # "empty" /\ \E f \in candidate : OutOfScope(f))

SecurityInv ==
  step \in {"pytest", "lint", "typecheck", "judge"} =>
    checks["security"] = Verdict(\E f \in candidate : f.dangerous)

RestInv ==
  /\ step \in {"lint", "typecheck", "judge"} => checks["pytest"] # "none"
  /\ step \in {"typecheck", "judge"} => checks["lint"] # "none"
  /\ step = "judge" => checks["typecheck"] # "none"

\* The first candidate is what the developer wrote.
FirstInv == revisions = 0 => \A f \in candidate : Written(f)

\* What the judge lets through.
Vetted ==
  /\ \A f \in candidate :
       /\ Applies(f) /\ ~f.dangerous
       /\ f.wrapper => /\ revisions > 0
                       /\ f.py \/ request = "empty" \/ ~Compared(f)
       /\ request = "additive" /\ f.shrinks => f.py \/ ~Compared(f)
  /\ \A n \in CheckNames : checks[n] \notin {"none", "FAIL"}
  /\ review.status # "FAIL" /\ ~review.high

RunInv ==
  /\ step \in {"prepare", "policy", "gate", "approved"} => Vetted
  /\ step \in {"gate", "approved"} => ~diff.noOp /\ decision \in {"ALLOW", "REVIEW"}
  /\ reviewer # "none" => step \in {"approved", "rejected"} /\ CanApproveChanges(reviewer)

Inv == TypeOK /\ CallInv /\ AstInv /\ ScopeInv /\ SecurityInv /\ RestInv /\ FirstInv
       /\ RunInv

\* A candidate that fails no check and whose review has no weight is vetted.
LEMMA JudgeVets ==
  ASSUME Inv, step = "judge", Passes PROVE Vetted
<1>1. \A n \in CheckNames : checks[n] # "FAIL"
  BY DEF Passes
<1>2. \A f \in candidate :
        Applies(f) /\ (request = "empty" \/ ~OutOfScope(f)) /\ ~f.dangerous
  BY <1>1 DEF Inv, AstInv, ScopeInv, SecurityInv, Verdict, CheckNames
<1>3. \A f \in candidate : f.py \in BOOLEAN /\ f.wrapper \in BOOLEAN /\ f.shrinks \in BOOLEAN
  BY DEF Inv, TypeOK, FilePatch
<1>4. \A f \in candidate :
        /\ f.wrapper => f.py \/ request = "empty" \/ ~Compared(f)
        /\ request = "additive" /\ f.shrinks => f.py \/ ~Compared(f)
  BY <1>2, <1>3 DEF OutOfScope
<1>6. revisions = 0 \/ revisions > 0
  BY RevisionsAssumption DEF Inv, TypeOK
<1>7. \A f \in candidate : f.wrapper => revisions > 0
  BY <1>6 DEF Inv, FirstInv, Written
<1>5. \A n \in CheckNames : checks[n] # "none"
  BY DEF Inv, AstInv, ScopeInv, SecurityInv, RestInv, Verdict, CheckNames
<1> QED
  BY <1>1, <1>2, <1>4, <1>5, <1>7 DEF Vetted, Passes

\* The invariant holds initially.
LEMMA InvInit == Init => Inv
<1> SUFFICES ASSUME Init PROVE Inv
  OBVIOUS
<1>1. CallInv
  BY DEF Init, Idle, CallInv, CallTypeOK, Running, GivesUpForAReason
<1>2. /\ review \in Review /\ checks \in [CheckNames -> {"none", "PASS", "FAIL", "SKIPPED"}]
      /\ diff \in Diff /\ revisions \in 0..MaxRevisions
  BY RevisionsAssumption DEF Init, Review, NoReview, Unchecked, Diff, NoDiff
<1>3. TypeOK
  BY <1>1, <1>2 DEF Init, TypeOK, CallInv
<1> QED
  BY <1>1, <1>3 DEF Init, Inv, AstInv, ScopeInv, SecurityInv, RestInv, FirstInv, RunInv

\* A call that is not touched keeps its part.
LEMMA CallStays == ASSUME CallInv, UNCHANGED call PROVE CallInv'
<1>1. UNCHANGED <<settings, at, stage, tried, errors, unstarted>>
  BY DEF call
<1>2. \A n \in 1..3 : AttemptInv(n) => AttemptInv(n)'
  BY <1>1 DEF AttemptInv
<1>3. Attempt' = Attempt /\ Running' = Running /\ Failing' = Failing /\ Attempt \in 1..3
  BY <1>1 DEF Attempt, Running, Failing
<1>4. CallTypeOK' /\ (at' = "idle" => Idle') /\ GivesUpForAReason'
  BY <1>1 DEF CallInv, CallTypeOK, Idle, GivesUpForAReason
<1>5. Running' => AttemptInv(Attempt)'
  <2>1. Running => AttemptInv(Attempt)
    BY DEF CallInv
  <2> QED
    BY <1>1, <1>3, <2>1 DEF AttemptInv
<1> QED
  BY <1>1, <1>2, <1>3, <1>4, <1>5 DEF CallInv

\* What the developer wrote stays what it wrote.
LEMMA FirstStays ==
  ASSUME FirstInv, UNCHANGED <<revisions, candidate>> PROVE FirstInv'
BY DEF FirstInv, Written

\* The steps of the review.
LEMMA ReviewKeeps == ASSUME Inv, Ask \/ TakeReview PROVE Inv'
<1>1. TypeOK /\ CallInv
  BY DEF Inv
<1>2. CASE Ask
  <2>1. CallInv'
    BY <1>1, <1>2, CallKeeps DEF Ask
  <2>2. TypeOK'
    BY <1>1, <1>2, <2>1 DEF Ask, TypeOK, CallInv, judged, gated
  <2>3. step' = step /\ step = "review" /\ reviewer' = reviewer /\ UNCHANGED diff
    BY <1>2 DEF Ask, gated
  <2>4. FirstInv'
    BY <1>2, FirstStays DEF Ask, judged, Inv
  <2> QED
    BY <2>1, <2>2, <2>3, <2>4 DEF Inv, AstInv, ScopeInv, SecurityInv, RestInv, FirstInv, RunInv
<1>3. CASE TakeReview
  <2>1. CallInv'
    BY <1>3 DEF TakeReview, EndCall, CallInv, CallTypeOK, Idle, Running, GivesUpForAReason
  <2>2. candidate' \in SUBSET FilePatch /\ review' \in Review
    BY <1>1, <1>3, CandidatesAssumption DEF TakeReview, TypeOK
  <2>3. TypeOK'
    BY <1>1, <1>3, <2>1, <2>2 DEF TakeReview, TypeOK, CallInv, gated
  <2>4. step' \in {"ast", "failed"} /\ step = "review" /\ reviewer' = reviewer
    BY <1>3 DEF TakeReview, gated
  <2>5. FirstInv'
    BY <1>3, FirstStays DEF TakeReview, FirstInv, Written, Inv
  <2> QED
    BY <2>1, <2>3, <2>4, <2>5 DEF Inv, AstInv, ScopeInv, SecurityInv, RestInv, FirstInv, RunInv
<1> QED
  BY <1>2, <1>3

\* A check tells what it found and leaves what others told.
LEMMA CheckKeeps ==
  ASSUME Inv,
         NEW s \in {"PASS", "FAIL", "SKIPPED"},
         \/ Check("ast", s, "scope") /\ s = Verdict(\E f \in candidate : ~Applies(f))
         \/ /\ Check("scope", s, "security")
            /\ s = Verdict(request # "empty" /\ \E f \in candidate : OutOfScope(f))
         \/ Check("pytest", s, "lint") \/ Check("lint", s, "typecheck")
         \/ Check("typecheck", s, "judge")
  PROVE  Inv'
<1>1. TypeOK /\ CallInv /\ checks \in [CheckNames -> {"none", "PASS", "FAIL", "SKIPPED"}]
  BY DEF Inv, TypeOK
<1>2. /\ UNCHANGED <<call, request, revisions, candidate, review, gated>>
      /\ step \in {"ast", "scope", "pytest", "lint", "typecheck"}
      /\ step' \in {"scope", "security", "lint", "typecheck", "judge"}
      /\ checks' = [checks EXCEPT ![step] = s]
  BY DEF Check
<1>3. CallInv'
  BY <1>1, <1>2, CallStays
<1>4. TypeOK'
  BY <1>1, <1>2, <1>3 DEF TypeOK, CallInv, gated, CheckNames
<1>5. reviewer' = "none" /\ reviewer = "none"
  BY <1>2 DEF Inv, RunInv, gated
<1>6. AstInv'
  BY <1>1, <1>2 DEF Check, Inv, AstInv, CheckNames, Applies
<1>7. ScopeInv'
  BY <1>1, <1>2 DEF Check, Inv, ScopeInv, CheckNames, OutOfScope, Compared, Applies
<1>8. SecurityInv'
  BY <1>1, <1>2 DEF Check, Inv, SecurityInv, CheckNames
<1>9. RestInv' /\ FirstInv'
  BY <1>1, <1>2, FirstStays DEF Check, Inv, RestInv, CheckNames
<1> QED
  BY <1>2, <1>3, <1>4, <1>5, <1>6, <1>7, <1>8, <1>9 DEF Inv, RunInv

\* The security check skips what it does not let run.
LEMMA SecurityKeeps == ASSUME Inv, CheckSecurity PROVE Inv'
<1>1. TypeOK /\ CallInv /\ checks \in [CheckNames -> {"none", "PASS", "FAIL", "SKIPPED"}]
  BY DEF Inv, TypeOK
<1>2. /\ UNCHANGED <<call, request, revisions, candidate, review, gated>>
      /\ step = "security" /\ step' \in {"pytest", "judge"}
  BY DEF CheckSecurity
<1>3. CallInv'
  BY <1>1, <1>2, CallStays
<1>4. /\ checks' \in [CheckNames -> {"none", "PASS", "FAIL", "SKIPPED"}]
      /\ checks'["ast"] = checks["ast"] /\ checks'["scope"] = checks["scope"]
      /\ checks'["security"] = Verdict(\E f \in candidate : f.dangerous)
      /\ step' = "judge" => \A n \in {"pytest", "lint", "typecheck"} : checks'[n] = "SKIPPED"
  BY <1>1 DEF CheckSecurity, CheckNames, Verdict
<1>5. TypeOK'
  BY <1>1, <1>2, <1>3, <1>4 DEF TypeOK, CallInv, gated
<1>6. reviewer' = "none"
  BY <1>2 DEF Inv, RunInv, gated
<1>7. AstInv' /\ ScopeInv'
  BY <1>2, <1>4 DEF Inv, AstInv, ScopeInv, OutOfScope, Compared, Applies
<1>8. SecurityInv' /\ RestInv' /\ FirstInv'
  BY <1>2, <1>4, FirstStays DEF Inv, SecurityInv, RestInv
<1> QED
  BY <1>2, <1>3, <1>5, <1>6, <1>7, <1>8 DEF Inv, RunInv

\* The judge passes a vetted candidate on and forgets another one.
LEMMA JudgeKeeps == ASSUME Inv, Judge PROVE Inv'
<1>1. TypeOK /\ CallInv /\ UNCHANGED <<call, request, gated>> /\ step = "judge"
  BY DEF Inv, Judge
<1>2. CallInv' /\ reviewer' = "none"
  BY <1>1, CallStays DEF Inv, RunInv, gated
<1>3. CASE Passes
  <2>1. step' = "prepare" /\ UNCHANGED <<revisions, judged>>
    BY <1>3 DEF Judge
  <2>2. Vetted'
    BY <1>1, <1>3, <2>1, JudgeVets DEF Vetted, Compared, Applies, judged
  <2>3. TypeOK'
    BY <1>1, <1>2, <2>1 DEF TypeOK, CallInv, gated, judged
  <2>4. FirstInv'
    BY <2>1, FirstStays DEF Inv, judged
  <2> QED
    BY <1>2, <2>1, <2>2, <2>3, <2>4 DEF Inv, AstInv, ScopeInv, SecurityInv, RestInv, FirstInv, RunInv
<1>4. CASE ~Passes
  <2>1. /\ candidate' = {} /\ review' = NoReview /\ checks' = Unchecked
        /\ step' \in {"review", "failed"} /\ revisions' \in 0..MaxRevisions
    BY <1>1, <1>4, RevisionsAssumption DEF Judge, TypeOK
  <2>2. NoReview \in Review
        /\ Unchecked \in [CheckNames -> {"none", "PASS", "FAIL", "SKIPPED"}]
    BY DEF NoReview, Review, Unchecked
  <2>3. TypeOK'
    BY <1>1, <1>2, <2>1, <2>2 DEF TypeOK, CallInv, gated
  <2> QED
    BY <1>2, <2>1, <2>3 DEF Inv, AstInv, ScopeInv, SecurityInv, RestInv, FirstInv, RunInv
<1> QED
  BY <1>3, <1>4

\* The steps after the judge keep the candidate and what was told of it.
LEMMA GateKeeps ==
  ASSUME Inv,
         \/ Prepare \/ Policy
         \/ \E role \in Roles, approved, sameHash \in BOOLEAN :
               Resume(role, approved, sameHash)
  PROVE  Inv'
<1>1. TypeOK /\ CallInv /\ UNCHANGED <<call, request, revisions, judged>>
  BY DEF Inv, Prepare, Policy, Resume
<1>2. CallInv'
  BY <1>1, CallStays
<1>3. (Vetted => Vetted') /\ FirstInv'
  BY <1>1, FirstStays DEF Inv, Vetted, Compared, Applies, judged
<1>4. CASE Prepare
  <2>1. step = "prepare" /\ step' = "policy" /\ reviewer' = "none" /\ Vetted'
    BY <1>3, <1>4 DEF Prepare, Inv, RunInv
  <2>2. TypeOK'
    BY <1>1, <1>2, <1>4 DEF Prepare, TypeOK, CallInv, judged
  <2> QED
    BY <1>2, <1>3, <2>1, <2>2
    DEF Inv, AstInv, ScopeInv, SecurityInv, RestInv, RunInv
<1>5. CASE Policy
  <2>1. step = "policy" /\ step' \in {"cleanup", "gate"} /\ reviewer' = "none" /\ Vetted'
    BY <1>3, <1>5 DEF Policy, Inv, RunInv
  <2>2. decision' \in {"ALLOW", "REVIEW", "BLOCK"}
    BY <1>5 DEF Policy, Decide
  <2>3. step' = "gate" => ~diff'.noOp /\ decision' \in {"ALLOW", "REVIEW"}
    BY <1>5, <2>2 DEF Policy
  <2>4. TypeOK'
    BY <1>1, <1>2, <1>5, <2>1, <2>2 DEF Policy, TypeOK, CallInv, judged
  <2> QED
    BY <1>2, <1>3, <2>1, <2>3, <2>4
    DEF Inv, AstInv, ScopeInv, SecurityInv, RestInv, RunInv
<1>6. ASSUME NEW role \in Roles, NEW approved \in BOOLEAN, NEW sameHash \in BOOLEAN,
             Resume(role, approved, sameHash)
      PROVE  Inv'
  <2>1. /\ step = "gate" /\ step' \in {"approved", "rejected"} /\ reviewer' = role
        /\ UNCHANGED <<diff, decision>> /\ CanApproveChanges(role)
    BY <1>6 DEF Resume
  <2>2. TypeOK'
    BY <1>1, <1>2, <1>6, <2>1 DEF TypeOK, CallInv, judged
  <2>3. CanApproveChanges(reviewer)'
    BY <2>1 DEF CanApproveChanges, RiskScore, Risk
  <2>4. RunInv'
    BY <1>3, <2>1, <2>3 DEF Inv, RunInv
  <2> QED
    BY <1>2, <1>3, <2>1, <2>2, <2>4 DEF Inv, AstInv, ScopeInv, SecurityInv, RestInv
<1> QED
  BY <1>4, <1>5, <1>6

\* The invariant is inductive.
LEMMA InvStep == Inv /\ [Next]_vars => Inv'
<1> SUFFICES ASSUME Inv, [Next]_vars PROVE Inv'
  OBVIOUS
<1>1. \A b : Verdict(b) \in {"PASS", "FAIL"}
  BY DEF Verdict
<1>2. CASE CheckAst \/ CheckScope
  <2>1. CASE CheckAst
    <3>1. PICK r \in {"PASS", "FAIL", "SKIPPED"} :
            r = Verdict(\E f \in candidate : ~Applies(f))
      BY <1>1
    <3>2. Check("ast", r, "scope")
      BY <2>1, <3>1 DEF CheckAst
    <3> QED
      BY <3>1, <3>2, CheckKeeps
  <2>2. CASE CheckScope
    <3>1. PICK r \in {"PASS", "FAIL", "SKIPPED"} :
            r = Verdict(request # "empty" /\ \E f \in candidate : OutOfScope(f))
      BY <1>1
    <3>2. Check("scope", r, "security")
      BY <2>2, <3>1 DEF CheckScope
    <3> QED
      BY <3>1, <3>2, CheckKeeps
  <2> QED
    BY <1>2, <2>1, <2>2
<1>3. CASE CheckPytest \/ CheckLint \/ CheckTypecheck
  BY <1>3, CheckKeeps DEF CheckPytest, CheckLint, CheckTypecheck, Tool
<1>4. CASE UNCHANGED vars
  <2>1. CallInv' /\ Inv
    BY <1>4, CallStays DEF vars, Inv
  <2>2. UNCHANGED <<call, step, request, revisions, candidate, review, checks, diff,
                    decision, reviewer>>
    BY <1>4 DEF vars, judged, gated
  <2>3. TypeOK' /\ RestInv'
    BY <2>1, <2>2 DEF Inv, TypeOK, CallInv, RestInv
  <2>4. AstInv' /\ ScopeInv' /\ SecurityInv'
    BY <2>1, <2>2 DEF Inv, AstInv, ScopeInv, SecurityInv, OutOfScope, Compared, Applies
  <2>5. FirstInv'
    BY <2>1, <2>2, FirstStays DEF Inv
  <2>6. RunInv'
    BY <2>1, <2>2 DEF Inv, RunInv, Vetted, Compared, Applies, CanApproveChanges, RiskScore, Risk
  <2> QED
    BY <2>1, <2>3, <2>4, <2>5, <2>6 DEF Inv
<1> QED
  BY <1>2, <1>3, <1>4, ReviewKeeps, SecurityKeeps, JudgeKeeps, GateKeeps DEF Next

-----------------------------------------------------------------------------
(* The theorems.                                                           *)

(***************************************************************************)
(* The inductive invariant, for every set of candidates, every revision    *)
(* budget and every environment of the model calls.                        *)
(***************************************************************************)
THEOREM VerdictInvariant == Spec => []Inv
  BY InvInit, InvStep, PTL DEF Spec

(***************************************************************************)
(* A commit is approved only for a candidate that applies and is harmless, *)
(* passed every check and the review, and was not blocked; a wrapper or a  *)
(* deletion is in it only where the scope check does not look, and a       *)
(* wrapper only by a revision.                                             *)
(***************************************************************************)
THEOREM CommitsAreVetted == Spec => []ApprovedIsVetted
<1>1. Inv => ApprovedIsVetted
  BY DEF Inv, RunInv, Vetted, ApprovedIsVetted
<1> QED
  BY <1>1, VerdictInvariant, PTL

(***************************************************************************)
(* A sensitive or deleting diff is decided only by a security role.        *)
(***************************************************************************)
THEOREM SensitiveIsReserved == Spec => []SensitiveNeedsSecurity
<1>1. Inv => SensitiveNeedsSecurity
  BY DEF Inv, RunInv, SensitiveNeedsSecurity, CanApproveChanges, RiskScore, Risk
<1> QED
  BY <1>1, VerdictInvariant, PTL

(***************************************************************************)
(* At most three providers, each once, each with a key, each for a reason. *)
(***************************************************************************)
THEOREM FallbacksAreBounded == Spec => []FallbackIsBounded
<1>1. Inv => FallbackIsBounded
  BY Bounded DEF Inv
<1> QED
  BY <1>1, VerdictInvariant, PTL

(***************************************************************************)
(* A call that gives up after a transient failure had nobody left to ask.  *)
(***************************************************************************)
THEOREM GivingUpIsJustified == Spec => []GivesUpForAReason
<1>1. Inv => GivesUpForAReason
  BY DEF Inv, CallInv
<1> QED
  BY <1>1, VerdictInvariant, PTL
=============================================================================
