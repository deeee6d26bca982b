---------------------------- MODULE MCRiskService ----------------------------
(* Instances of RiskService for TLC: the ids of requests and the names of    *)
(* tenants are interchangeable.                                              *)
EXTENDS RiskService, TLC

Symmetry == Permutations(Requests) \cup Permutations(Tenants)
=============================================================================
