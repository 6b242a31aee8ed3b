---------------------------- MODULE MCGraphWalk ----------------------------
EXTENDS GraphWalk

\* Every routing decision and every decision a reviewer can submit.
AllRoutings == Routing
AllDecisions == Decision
=============================================================================
