--------------------------- MODULE IdempotentRuns ---------------------------
(***************************************************************************)
(* What create_run promises its clients, with the reservations, the rows,  *)
(* the background tasks, the shutdown and the restarts left out.  A key    *)
(* belongs to the first request that claims it, for ever; a request is     *)
(* answered once, with its own run or, under a key, with the run of the    *)
(* claimant, which sent the very same request; and the only run that is    *)
(* started for a key is the one its claimant was answered with, once.      *)
(* A request that fails half-way may leave a claim behind, never a run.    *)
(***************************************************************************)
CONSTANTS Clients, NoKey

VARIABLES
  req,      \* what each client sends
  claimed,  \* the requests whose key is theirs
  told,     \* the runs each client was told of, none or one
  started   \* the runs that were started

keyVars == <<req, claimed, told, started>>

Init == claimed = {} /\ told = [c \in Clients |-> {}] /\ started = {}

Claim(c) ==
  /\ req[c].key # NoKey
  /\ \A d \in claimed : req[d].key # req[c].key
  /\ claimed' = claimed \cup {c}
  /\ UNCHANGED <<req, told, started>>

Answer(c, r) ==
  /\ told[c] = {}
  /\ IF req[c].key = NoKey THEN r = c ELSE r \in claimed /\ req[r] = req[c]
  /\ told' = [told EXCEPT ![c] = {r}]
  /\ UNCHANGED <<req, claimed, started>>

Start(c) ==
  /\ told[c] = {c} /\ c \notin started
  /\ started' = started \cup {c}
  /\ UNCHANGED <<req, claimed, told>>

Next ==
  \/ \E c \in Clients : Claim(c) \/ Start(c)
  \/ \E c, r \in Clients : Answer(c, r)

Spec == Init /\ [][Next]_keyVars
=============================================================================
