------------------------------ MODULE MCPlanner ------------------------------
(* Instances of Planner: programs of at most three statements.             *)
EXTENDS Planner
CONSTANTS p, l, w, t, a, s, c, u, v

\* p: an operation that is waited for.  l: one whose value is a continuation.  w: one in the
\* planner's process.  t: one in a try.  a: the body of an async statement.  s: an async
\* system().  c: a continuation of an operation in the planner's process.  u, v: system().
MixedProgs ==
    {<<l, a, p>>, <<w, t>>, <<a, Flush, p>>, <<t, Exit>>, <<l, Fatal>>, <<l, w>>, <<s, w>>, <<l, Exit>>,
     <<c, u, v>>, <<s, Flush>>}
=============================================================================
