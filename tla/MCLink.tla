------------------------------- MODULE MCLink -------------------------------
(* Link with ports and handlers that are interchangeable. *)
EXTENDS Link, TLC

Symmetry == Permutations(Ports) \cup Permutations(Slots)
=============================================================================
