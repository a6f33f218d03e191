-------------------------- MODULE MCStreamContext --------------------------
(* Instances of StreamContext for TLC.                                      *)
EXTENDS StreamContext
=============================================================================
