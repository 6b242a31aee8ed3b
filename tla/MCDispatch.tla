----------------------------- MODULE MCDispatch -----------------------------
EXTENDS Dispatch
CONSTANTS c1, c2, k1, none, p, q

\* One client sends a key and a payload; the other sends the same, the same key
\* with another payload, or no key.
RetriesAndRivals ==
  {[c \in Clients |-> IF c = c1 THEN [key |-> k1, payload |-> p] ELSE r] :
     r \in {[key |-> k1, payload |-> p], [key |-> k1, payload |-> q],
            [key |-> none, payload |-> p]}}
=============================================================================
