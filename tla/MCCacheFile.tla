---------------------------- MODULE MCCacheFile ----------------------------
(* Instances of CacheFile for TLC.                                         *)
EXTENDS CacheFile

CONSTANTS l1, l2, l3, pid, pad

\* The third planner gets the process number of the first.
Reused == [l \in Life |-> IF l = l2 THEN pad ELSE pid]
=============================================================================
