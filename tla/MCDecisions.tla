---------------------------- MODULE MCDecisions ----------------------------
EXTENDS Verdict

\* A file that every check accepts, and what can be wrong with one.
Fine(py) == [py |-> py, safe |-> TRUE, applies |-> TRUE, wrapper |-> FALSE,
             shrinks |-> FALSE, dangerous |-> FALSE,
             before |-> "snapshot", fits |-> TRUE]
Flawed(py) ==
  {Fine(py), [Fine(py) EXCEPT !.safe = FALSE], [Fine(py) EXCEPT !.applies = FALSE],
   [Fine(py) EXCEPT !.wrapper = TRUE], [Fine(py) EXCEPT !.shrinks = TRUE],
   [Fine(py) EXCEPT !.dangerous = TRUE]}

\* A wrapper and a deletion, where the scope check looks elsewhere than at the
\* snapshot, or at a snapshot the patch does not fit.
Unwritten ==
  {[Fine(FALSE) EXCEPT !.wrapper = w, !.shrinks = ~w, !.before = b, !.fits = FALSE] :
     w \in BOOLEAN, b \in {"snapshot", "disk", "none"}}

\* No file, one file, or a good file and another of the other kind.
SmallCandidates ==
  {{}} \cup {{f} : f \in Flawed(TRUE) \cup Flawed(FALSE) \cup Unwritten}
       \cup {{Fine(TRUE), f} : f \in Flawed(FALSE) \cup Unwritten}
=============================================================================
