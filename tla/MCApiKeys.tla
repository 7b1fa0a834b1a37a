------------------------------ MODULE MCApiKeys ------------------------------
(* ApiKeyRate for TLC: calls are interchangeable.                           *)
EXTENDS ApiKeyRate, TLC

Symmetry == Permutations(Calls)
=============================================================================
