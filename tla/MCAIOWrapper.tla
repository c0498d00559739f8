---------------------------- MODULE MCAIOWrapper ----------------------------
EXTENDS AIOWrapper, TLC

CONSTANTS o1, o2, g1

MCid == (o1 :> g1) @@ (o2 :> g1)

MCCallbacks == SUBSET {"ok", "err"} \cup {{"NULL"}}
=============================================================================
