----------------------------- MODULE MCFastFIFO -----------------------------
(* Instances of FastFIFO for TLC. *)
EXTENDS FastFIFO, TLC

Symmetry == Permutations(Nodes)
=============================================================================
