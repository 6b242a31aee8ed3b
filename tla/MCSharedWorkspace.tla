-------------------------- MODULE MCSharedWorkspace --------------------------
EXTENDS SharedWorkspace, TLC

CONSTANTS r1, r2, f, g, x, y, none

\* main holds f with the line x; g is a file that is still to be created.
SmallBase == (f :> {x}) @@ (g :> {})

\* Rewrite f, add a line to f, replace its line, create g, add a line to g.
SmallPatches ==
  {[file |-> f, old |-> none, new |-> {y}],
   [file |-> f, old |-> x, new |-> {x, y}],
   [file |-> f, old |-> x, new |-> {y}],
   [file |-> g, old |-> none, new |-> {y}],
   [file |-> g, old |-> y, new |-> {x, y}]}

RunSymmetry == Permutations(Runs)
=============================================================================
