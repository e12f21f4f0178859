----------------------------- MODULE MCAuditBuffer -----------------------------
(* Instances of AuditBuffer for TLC. *)
EXTENDS AuditBuffer

CONSTANT MaxReceived   \* bound on the portal's sums, which lost answers inflate

Bounded == \A k \in Key : received[k] <= MaxReceived
=============================================================================
