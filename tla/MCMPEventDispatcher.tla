------------------------- MODULE MCMPEventDispatcher -------------------------
(* Instances of MPEventDispatcher for TLC. *)
EXTENDS MPEventDispatcher, TLC

CONSTANTS t1, t2, t3, g1, g2

\* Two tasks of one group and one of another, which hashing separates.
MCid == t1 :> g1 @@ t2 :> g1 @@ t3 :> g2
MChasher == g1 :> 4 @@ g2 :> 7
=============================================================================
