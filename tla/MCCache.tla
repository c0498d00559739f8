------------------------------ MODULE MCCache ------------------------------
(* Cache for TLC: the configurations give every constant its value. *)
EXTENDS Cache
============================================================================
