----------------------------- MODULE MCPipeline -----------------------------
(* MessagePipeline for TLC: messages, requests, workers and receipt         *)
(* handlers are interchangeable (used in the run without liveness).         *)
EXTENDS MessagePipeline, TLC

Symmetry == Permutations(Ids) \cup Permutations(Requests)
            \cup Permutations(Workers) \cup Permutations(Receivers)
=============================================================================
