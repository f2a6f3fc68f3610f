---------------------------- MODULE WorkerGate ----------------------------
(***************************************************************************)
(* What the worker gate of the planner promises, whoever moves its limit:  *)
(* an agent gets a place only while fewer than the limit are taken, gives  *)
(* it back once, and a limit that is lowered sends nobody away.            *)
(***************************************************************************)
EXTENDS Naturals, FiniteSets

CONSTANTS Worker, MaxLimit

VARIABLES
    holders, \* the agents that hold a place
    limit    \* gateSem->limit()

vars == <<holders, limit>>

Init == holders = {} /\ limit \in 1..MaxLimit

\* gate_get of an agent; the load control may move the limit in the same dispatch.
Enter(w) ==
    /\ w \notin holders
    /\ Cardinality(holders) < limit
    /\ holders' = holders \cup {w}
    /\ limit' \in 1..MaxLimit

\* gate_release.
Leave(w) ==
    /\ w \in holders
    /\ holders' = holders \ {w}
    /\ limit' \in 1..MaxLimit

SetLimit == limit' \in 1..MaxLimit /\ UNCHANGED holders

Next == SetLimit \/ \E w \in Worker : Enter(w) \/ Leave(w)

Spec == Init /\ [][Next]_vars
=============================================================================
