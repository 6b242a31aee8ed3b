----------------------------- MODULE MCService -----------------------------
EXTENDS Watchdog

CONSTANTS c1, w1, w2, k1, none, p

\* One client, with a key or without.
OneClient == [Clients -> [key : {k1, none}, payload : {p}]]
=============================================================================
