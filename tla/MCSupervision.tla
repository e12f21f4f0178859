----------------------------- MODULE MCSupervision -----------------------------
(* Instances of Supervision for TLC. *)
EXTENDS Supervision, TLC

\* Identifiers are interchangeable: sound for invariants and action properties.
Identifiers == Permutations(Proc)

AllFaults == FaultKinds
=============================================================================
