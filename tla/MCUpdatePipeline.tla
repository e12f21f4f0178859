---------------------------- MODULE MCUpdatePipeline ----------------------------
(* Instances of UpdatePipeline for TLC. *)
EXTENDS UpdatePipeline

AllFaults == FaultKinds
=============================================================================
