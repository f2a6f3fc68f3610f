----------------------------- MODULE MCTryCatch -----------------------------
(* Instances of TryCatch for TLC.                                          *)
EXTENDS TryCatch

CONSTANTS x, y, z
=============================================================================
