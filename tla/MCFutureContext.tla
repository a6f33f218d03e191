-------------------------- MODULE MCFutureContext --------------------------
(* Instances of FutureContext for TLC.                                      *)
EXTENDS FutureContext
=============================================================================
