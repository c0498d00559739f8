-------------------------- MODULE MCEventDispatcher --------------------------
(* Instances of EventDispatcher for TLC. *)
EXTENDS EventDispatcher, TLC

CONSTANTS t1, t2, t3, g1, g2

\* Two tasks of one group and one of another.
MCid == t1 :> g1 @@ t2 :> g1 @@ t3 :> g2
=============================================================================
