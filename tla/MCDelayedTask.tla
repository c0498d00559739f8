---------------------------- MODULE MCDelayedTask ----------------------------
(* DelayedTask for TLC: the configuration gives every constant its value. *)
EXTENDS DelayedTask
=============================================================================
