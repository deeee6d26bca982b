----------------------------- MODULE MCContainer -----------------------------
(* Container for TLC: the ids of requests are interchangeable.               *)
EXTENDS Container, TLC

Symmetry == Permutations(Requests)
=============================================================================
