--------------------------- MODULE MCLoadControl ---------------------------
(* Instances of LoadControl for TLC.                                       *)
EXTENDS LoadControl

CONSTANTS a1, a2, a3
=============================================================================
