----------------------------- MODULE MCDecouple -----------------------------
(* DecoupleLifecycle for TLC: model values for the processors and payloads.  *)
EXTENDS DecoupleLifecycle
=============================================================================
