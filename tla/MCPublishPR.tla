---------------------------- MODULE MCPublishPR ----------------------------
EXTENDS PublishPR
CONSTANTS c1, c2, origin, other, foreign, main, release

\* One client publishes to the workspace's origin; the other asks for the same,
\* for another base, for another authorized repository, or for a foreign one.
RetriesAndStrays ==
  {[c \in Clients |-> IF c = c1 THEN [repo |-> origin, base |-> main] ELSE a] :
     a \in {[repo |-> origin, base |-> main], [repo |-> origin, base |-> release],
            [repo |-> other, base |-> main], [repo |-> foreign, base |-> main]}}
=============================================================================
