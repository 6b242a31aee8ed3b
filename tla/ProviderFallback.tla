-------------------------- MODULE ProviderFallback --------------------------
(***************************************************************************)
(* invoke_structured: one structured request to a language model, tried on *)
(* the configured provider, on a fallback provider, and, when that one is  *)
(* rate-limited, on a second fallback.  What a provider answers is chosen  *)
(* at each request: an answer that parses, one that does not, an error.    *)
(*                                                                         *)
(* An error is the class classify_llm_exception gives it.                  *)
(***************************************************************************)
EXTENDS Naturals, Sequences, Functions

CONSTANT NoProvider

VARIABLES
  settings, \* the environment the call reads: keys, switches
  at,       \* the attempt it is in, or how it ended
  stage,    \* the request within the attempt
  tried,    \* the providers tried
  errors,   \* the errors of the attempts that failed
  unstarted \* the providers whose client could not be built

call == <<settings, at, stage, tried, errors, unstarted>>

Providers == {"nvidia", "gemini", "openai"}
ASSUME NoProviderAssumption == NoProvider \notin Providers

\* keys: the providers with a key; get_llm built the primary's client with its key.
\* explicit: LLM_FALLBACK_PROVIDER, NoProvider when unset or unknown.
Envs == {e \in [primary : Providers, keys : SUBSET Providers,
                explicit : Providers \cup {NoProvider}, enabled : BOOLEAN] :
           e.primary \in e.keys}
NoEnv == [primary |-> NoProvider, keys |-> {}, explicit |-> NoProvider,
          enabled |-> FALSE]

Errors == {"Timeout", "Transient", "RateLimit", "Malformed", "Auth", "Invalid",
           "Permanent"}
\* is_fallback_eligible; a malformed response is a subclass of transient.
Eligible == {"Timeout", "Transient", "RateLimit", "Malformed"}
\* Classes an attempt re-raises at once; the others may get one more request.
FastFail == Errors \ {"Transient", "Permanent"}

FallbackOrder == [nvidia |-> <<"gemini", "openai">>,
                  gemini |-> <<"nvidia", "openai">>,
                  openai |-> <<"nvidia", "gemini">>]

CallTypeOK ==
  /\ settings \in Envs \cup {NoEnv}
  /\ at \in {"idle", "primary", "fallback", "second", "returned", "raised"}
  /\ stage \in {"structured", "direct", "convert", "rescue", "failed"}
  /\ tried \in Seq(Providers) /\ errors \in Seq(Errors)
  /\ unstarted \subseteq Providers

Idle ==
  /\ settings = NoEnv /\ at = "idle" /\ stage = "structured"
  /\ tried = <<>> /\ errors = <<>> /\ unstarted = {}

-----------------------------------------------------------------------------
\* get_fallback_provider: the explicit provider counts for the first selection
\* only, then the order of preference; never one without a key.
\* Mutants: the tried fallback is not excluded; an explicit provider that is not
\* usable ends the search.
UsableAgain(exclude) == settings.keys \ {settings.primary}
Usable(exclude) == settings.keys \ (exclude \cup {settings.primary})
Preferred(S) ==
  LET order == FallbackOrder[settings.primary]
  IN IF order[1] \in S THEN order[1] ELSE IF order[2] \in S THEN order[2]
     ELSE NoProvider
FallbackExplicitOnly(exclude) ==
  IF ~settings.enabled THEN NoProvider
  ELSE IF exclude = {} /\ settings.explicit # NoProvider
       THEN IF settings.explicit \in Usable({}) THEN settings.explicit ELSE NoProvider
  ELSE Preferred(Usable(exclude))
Fallback(exclude) ==
  IF ~settings.enabled THEN NoProvider
  ELSE IF exclude = {} /\ settings.explicit \in Usable({}) THEN settings.explicit
  ELSE Preferred(Usable(exclude))

Invoke ==
  /\ at = "idle"
  /\ settings' \in Envs
  /\ at' = "primary" /\ tried' = <<settings'.primary>>
  /\ UNCHANGED <<stage, errors, unstarted>>

\* The attempt's client answers, or fails with an error of class e: an error
\* whose text names guided_json or [400] gets one more request first.
Running == at \in {"primary", "fallback", "second"}
Return == at' = "returned" /\ UNCHANGED <<settings, stage, tried, errors, unstarted>>
GoTo(s) == stage' = s /\ UNCHANGED <<settings, at, tried, errors, unstarted>>
Fail(e) ==
  /\ errors' = Append(errors, e)
  /\ \/ stage' = "failed"
     \/ e \notin FastFail /\ stage' = "rescue"
  /\ UNCHANGED <<settings, at, tried, unstarted>>

\* The provider's structured output; one that came to nothing, or whose request
\* format the provider rejects, goes on to a plain request.
Structured ==
  /\ Running /\ stage = "structured"
  /\ Return \/ GoTo("direct") \/ \E e \in Errors : Fail(e)

\* The plain request: an empty completion is malformed, prose is converted.
Direct ==
  /\ Running /\ stage = "direct"
  /\ Return \/ GoTo("convert") \/ \E e \in Errors : Fail(e)

\* The request that converts prose to JSON: what it cannot convert is malformed,
\* or fails the schema.
Convert ==
  /\ Running /\ stage = "convert"
  /\ Return \/ \E e \in Errors : Fail(e)

\* One more plain request; whatever goes wrong in it, the first error stands.
Rescue ==
  /\ Running /\ stage = "rescue"
  /\ Return \/ GoTo("failed")

Raise(p) ==
  /\ at' = "raised" /\ unstarted' = unstarted \cup p
  /\ UNCHANGED <<settings, stage, tried, errors>>
\* The next attempt starts, unless get_llm cannot build its client.
Switch(a, p) ==
  \/ /\ at' = a /\ stage' = "structured" /\ tried' = Append(tried, p)
     /\ UNCHANGED <<settings, errors, unstarted>>
  \/ Raise({p})

PrimaryFailed ==
  /\ at = "primary" /\ stage = "failed"
  /\ IF errors[1] \in Eligible /\ Fallback({}) # NoProvider
       THEN Switch("fallback", Fallback({}))
       ELSE Raise({})

\* Only a rate limit leads on to the third provider.
FallbackFailed ==
  /\ at = "fallback" /\ stage = "failed"
  /\ IF errors[2] = "RateLimit" /\ Fallback({tried[2]}) # NoProvider
       THEN Switch("second", Fallback({tried[2]}))
       ELSE Raise({})

SecondFailed == at = "second" /\ stage = "failed" /\ Raise({})

\* The caller takes the result, and the call's frame is gone.
EndCall ==
  /\ settings' = NoEnv /\ at' = "idle" /\ stage' = "structured"
  /\ tried' = <<>> /\ errors' = <<>> /\ unstarted' = {}

CallStep ==
  \/ Invoke \/ Structured \/ Direct \/ Convert \/ Rescue
  \/ PrimaryFailed \/ FallbackFailed \/ SecondFailed

-----------------------------------------------------------------------------
\* The docstring of invoke_structured: at most three attempts, none on the same
\* provider twice and none without a key, and a switch only after a failure that
\* is transient, to a third provider only after a rate limit.
FallbackIsBounded ==
  /\ Len(tried) <= 3 /\ IsInjective(tried) /\ Range(tried) \subseteq settings.keys
  /\ Len(tried) > 1 => settings.enabled /\ errors[1] \in Eligible
  /\ Len(tried) > 2 => errors[2] = "RateLimit"

\* A call gives up after a transient failure only when falling back is switched
\* off, or no other provider has a key, or the one selected could not be built; and
\* after a rate-limited fallback only when every provider with a key was tried.
GivesUpForAReason ==
  at = "raised" /\ settings.enabled /\ unstarted = {} =>
    /\ errors[1] \in Eligible => Len(tried) > 1 \/ settings.keys = {settings.primary}
    /\ Len(errors) = 2 /\ errors[2] = "RateLimit" => settings.keys \subseteq Range(tried)
=============================================================================
