-------------------------- MODULE MCHandlerWrapper --------------------------
(* One process after another, two invocations, for TLC. *)
EXTENDS HandlerWrapper
=============================================================================
