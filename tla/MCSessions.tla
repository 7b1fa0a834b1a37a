----------------------------- MODULE MCSessions -----------------------------
(***************************************************************************)
(* SessionLifecycle for TLC: handlers and dialers are interchangeable      *)
(* (used in the runs without liveness).                                    *)
(***************************************************************************)
EXTENDS SessionLifecycle, TLC

Symmetry == Permutations(Requests) \cup Permutations(Dialers)
=============================================================================
