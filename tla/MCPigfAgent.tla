---------------------------- MODULE MCPigfAgent ----------------------------
(* Instances of PigfAgent for TLC.                                         *)
EXTENDS PigfAgent

CONSTANTS a, b, p, q, r, t, ha, hp, hr

\* A leaf, twice the same operation on it, in the program and in a user try, and a
\* consumer of both.
RelayArgs   == [n \in Node |-> CASE n \in {p, q} -> {a} [] n = r -> {p, q} [] OTHER -> {}]
RelayTryOf  == [n \in Node |-> IF n = q THEN t ELSE Root]
RelayHashOf == [n \in Node |-> CASE n = a -> ha [] n \in {p, q} -> hp [] OTHER -> hr]

\* A leaf of the program and its duplicate in a user try, and a consumer of the first.
TwinArgs   == [n \in Node |-> IF n = p THEN {a} ELSE {}]
TwinTryOf  == [n \in Node |-> IF n = b THEN t ELSE Root]
TwinHashOf == [n \in Node |-> IF n \in {a, b} THEN ha ELSE hp]
=============================================================================
