----------------------------- MODULE MCMediator -----------------------------
(* Instances of Mediator: one operation and its module process.            *)
EXTENDS Mediator
=============================================================================
