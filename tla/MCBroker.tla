------------------------------ MODULE MCBroker ------------------------------
(* EventBroker for TLC; its liveness properties rule out symmetry.          *)
EXTENDS EventBroker
=============================================================================
