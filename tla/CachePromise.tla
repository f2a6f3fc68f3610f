---------------------------- MODULE CachePromise ----------------------------
(***************************************************************************)
(* What the cache file of one hash promises to the processes that read it  *)
(* while it is being written: a version of the file is finished or lost,   *)
(* for good; a reader that opened a version ends with the whole value only *)
(* when that version was finished, and in an error only when it was lost.  *)
(***************************************************************************)
CONSTANTS Version, Reader

VARIABLES
    version,    \* version[v]: "none", "growing", "whole" or "lost"
    bound,      \* bound[r]: the versions reader r has opened (at most one)
    got         \* got[r]: "nothing", "value" or "error"

pvars == <<version, bound, got>>

Init == /\ version = [v \in Version |-> "none"]
        /\ bound = [r \in Reader |-> {}]
        /\ got = [r \in Reader |-> "nothing"]

Create(v) == /\ version[v] = "none"
             /\ version' = [version EXCEPT ![v] = "growing"]
             /\ UNCHANGED <<bound, got>>

Finish(v) == /\ version[v] = "growing"
             /\ version' = [version EXCEPT ![v] = "whole"]
             /\ UNCHANGED <<bound, got>>

Lose(v) == /\ version[v] = "growing"
           /\ version' = [version EXCEPT ![v] = "lost"]
           /\ UNCHANGED <<bound, got>>

Bind(r, v) == /\ bound[r] = {} /\ got[r] = "nothing" /\ version[v] # "none"
              /\ bound' = [bound EXCEPT ![r] = {v}]
              /\ UNCHANGED <<version, got>>

Deliver(r) == /\ got[r] = "nothing"
              /\ \E v \in bound[r] : version[v] = "whole"
              /\ got' = [got EXCEPT ![r] = "value"]
              /\ UNCHANGED <<version, bound>>

GiveUp(r) == /\ got[r] = "nothing"
             /\ \E v \in bound[r] : version[v] = "lost"
             /\ got' = [got EXCEPT ![r] = "error"]
             /\ UNCHANGED <<version, bound>>

Next == \/ \E v \in Version : Create(v) \/ Finish(v) \/ Lose(v)
        \/ \E r \in Reader, v \in Version : Bind(r, v)
        \/ \E r \in Reader : Deliver(r) \/ GiveUp(r)

Spec == Init /\ [][Next]_pvars
=============================================================================
