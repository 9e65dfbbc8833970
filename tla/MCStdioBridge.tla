---------------------------- MODULE MCStdioBridge ----------------------------
(* Instances of StdioBridge for TLC: calls, and servers, are interchangeable. *)
EXTENDS StdioBridge, TLC

Symmetry == Permutations(Calls) \cup Permutations(Servers)
=============================================================================
