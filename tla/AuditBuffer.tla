------------------------------ MODULE AuditBuffer ------------------------------
(***************************************************************************)
(* audit_client.py: the focus counts collected under _lock, the batches    *)
(* taken out of the buffer and posted, by the flush loop's thread and by   *)
(* AgentService.stop(), and put back when the request fails.               *)
(***************************************************************************)
EXTENDS Integers

CONSTANTS Key,      \* (category, key) pairs
          MaxCount  \* bound: counts recorded per key

ASSUME MaxCountAssumption == MaxCount \in Nat

VARIABLES
  running,   \* AgentService._running
  pending,   \* _pending, 0 for a key that is not in it
  batch,     \* the items each flusher has taken
  phase,     \* of each flusher's request
  received,  \* what the portal has added up (external)
  recorded,  \* what this process has counted
  uncertain  \* the portal received a batch whose answer got lost

vars == <<running, pending, batch, phase, received, recorded, uncertain>>

\* The to_thread call of _audit_flush_loop and the call in stop().
Flusher == {"loop", "stop"}

Phases == {"idle",
           "called",     \* flush_audit_buffer is called, the lock not taken
           "posting",    \* the request is under way
           "landed"}     \* the portal has the batch, the answer is under way

None == [k \in Key |-> 0]

InFlight(k) == batch["loop"][k] + batch["stop"][k]

\* The part of it that the portal has already.
Landed(k) == LET part(f) == IF phase[f] = "landed" THEN batch[f][k] ELSE 0
             IN  part("loop") + part("stop")

Init ==
  /\ running = TRUE /\ pending = None
  /\ batch = [f \in Flusher |-> None] /\ phase = [f \in Flusher |-> "idle"]
  /\ received = None /\ recorded = None /\ uncertain = FALSE

EnqueueAudit(k) ==
  /\ running /\ recorded[k] < MaxCount
  /\ pending' = [pending EXCEPT ![k] = @ + 1]
  /\ recorded' = [recorded EXCEPT ![k] = @ + 1]
  /\ UNCHANGED <<running, batch, phase, received, uncertain>>

\* The flush loop wakes up; its thread outlives a stop().
StartFlush ==
  /\ running /\ phase["loop"] = "idle"
  /\ phase' = [phase EXCEPT !["loop"] = "called"]
  /\ UNCHANGED <<running, pending, batch, received, recorded, uncertain>>

\* Faulty: the buffer is copied and not cleared.
TakeBatchKeepsPending(f) ==
  /\ phase[f] = "called"
  /\ batch' = [batch EXCEPT ![f] = pending]
  /\ phase' = [phase EXCEPT ![f] = IF pending = None THEN "idle" ELSE "posting"]
  /\ UNCHANGED <<running, pending, received, recorded, uncertain>>

\* flush_audit_buffer: copy and clear under the lock, then post.
TakeBatch(f) ==
  /\ phase[f] = "called"
  /\ batch' = [batch EXCEPT ![f] = pending]
  /\ pending' = None
  /\ phase' = [phase EXCEPT ![f] = IF pending = None THEN "idle" ELSE "posting"]
  /\ UNCHANGED <<running, received, recorded, uncertain>>

\* The portal adds the batch up.
PortalReceives(f) ==
  /\ phase[f] = "posting"
  /\ received' = [k \in Key |-> received[k] + batch[f][k]]
  /\ phase' = [phase EXCEPT ![f] = "landed"]
  /\ UNCHANGED <<running, pending, batch, recorded, uncertain>>

\* Faulty: what has been sent is taken off the buffer a second time.
PostSucceedsSubtracts(f) ==
  /\ phase[f] = "landed"
  /\ pending' = [k \in Key |-> pending[k] - batch[f][k]]
  /\ batch' = [batch EXCEPT ![f] = None]
  /\ phase' = [phase EXCEPT ![f] = "idle"]
  /\ UNCHANGED <<running, received, recorded, uncertain>>

PostSucceeds(f) ==
  /\ phase[f] = "landed"
  /\ batch' = [batch EXCEPT ![f] = None]
  /\ phase' = [phase EXCEPT ![f] = "idle"]
  /\ UNCHANGED <<running, pending, received, recorded, uncertain>>

\* Faulty: a key that was recorded again meanwhile is not put back.
PostFailsSkipsKnown(f) ==
  /\ phase[f] \in {"posting", "landed"}
  /\ pending' = [k \in Key |-> IF pending[k] = 0 THEN batch[f][k] ELSE pending[k]]
  /\ batch' = [batch EXCEPT ![f] = None]
  /\ phase' = [phase EXCEPT ![f] = "idle"]
  /\ uncertain' = (uncertain \/ phase[f] = "landed")
  /\ UNCHANGED <<running, received, recorded>>

\* Faulty: a failed batch is dropped.
PostFailsDrops(f) ==
  /\ phase[f] \in {"posting", "landed"}
  /\ batch' = [batch EXCEPT ![f] = None]
  /\ phase' = [phase EXCEPT ![f] = "idle"]
  /\ UNCHANGED <<running, pending, received, recorded, uncertain>>

\* An error status, no connection, or a timeout, whether or not the portal has
\* received the batch: the items go back under the lock.
PostFails(f) ==
  /\ phase[f] \in {"posting", "landed"}
  /\ pending' = [k \in Key |-> pending[k] + batch[f][k]]
  /\ batch' = [batch EXCEPT ![f] = None]
  /\ phase' = [phase EXCEPT ![f] = "idle"]
  /\ uncertain' = (uncertain \/ phase[f] = "landed")
  /\ UNCHANGED <<running, received, recorded>>

\* stop() sets _running to False, then flushes: for a reboot command, and as the
\* service ends.
Stop ==
  /\ phase["stop"] = "idle" /\ running' = FALSE
  /\ phase' = [phase EXCEPT !["stop"] = "called"]
  /\ UNCHANGED <<pending, batch, received, recorded, uncertain>>

\* The process ends and a new one starts counting.
Restart ==
  /\ running' = TRUE /\ pending' = None
  /\ batch' = [f \in Flusher |-> None] /\ phase' = [f \in Flusher |-> "idle"]
  /\ recorded' = [k \in Key |-> recorded[k] - pending[k] - InFlight(k)]
  /\ uncertain' = (uncertain \/ \E f \in Flusher : phase[f] = "landed")
  /\ UNCHANGED received

Next ==
  \/ \E k \in Key : EnqueueAudit(k)
  \/ \E f \in Flusher : TakeBatch(f) \/ PortalReceives(f) \/ PostSucceeds(f) \/ PostFails(f)
  \/ StartFlush \/ Stop \/ Restart

Spec == Init /\ [][Next]_vars

-----------------------------------------------------------------------------
\* Type invariant.
TypeOK ==
  /\ running \in BOOLEAN /\ uncertain \in BOOLEAN
  /\ pending \in [Key -> Nat] /\ received \in [Key -> Nat] /\ recorded \in [Key -> Nat]
  /\ batch \in [Flusher -> [Key -> Nat]]
  /\ phase \in [Flusher -> Phases]

\* A flusher without a request holds no batch.
IdleEmpty == \A f \in Flusher : phase[f] \in {"idle", "called"} => batch[f] = None

\* What is counted is settled, buffered or in flight, and what is settled or
\* has landed is in the portal's sum.
Balance ==
  \A k \in Key :
    /\ pending[k] + InFlight(k) <= recorded[k]
    /\ recorded[k] + Landed(k) <= received[k] + pending[k] + InFlight(k)

AuditInv == IdleEmpty /\ Balance

\* audit_client.py:74 - a failed or unanswered request, two flushes at a time
\* and counts recorded meanwhile lose nothing.
NothingLost == \A k \in Key : recorded[k] <= received[k] + pending[k] + InFlight(k)

\* audit_client.py:71 - as long as every answer arrives, nothing is counted twice.
NothingTwice ==
  ~uncertain => \A k \in Key :
    received[k] + pending[k] + InFlight(k) = recorded[k] + Landed(k)

-----------------------------------------------------------------------------
Ledger == INSTANCE AuditLedger WITH
            recorded <- recorded,
            due      <- [k \in Key |-> pending[k] + InFlight(k)],
            received <- received

\* The buffer implements the ledger.
ImplementsLedger == Ledger!Spec
=============================================================================
