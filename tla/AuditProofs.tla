------------------------------ MODULE AuditProofs ------------------------------
(***************************************************************************)
(* Proofs about AuditBuffer: its typing and its bookkeeping, one inductive *)
(* invariant, and that it implements AuditLedger.                          *)
(***************************************************************************)
EXTENDS AuditBuffer, TLAPS

\* Counts stay natural numbers only because a restart never takes more off the
\* recorded counts than the balance allows: typing and balance go together.
\* KeyInv is what AuditInv and NothingTwice say of one key.
KeyInv(k) ==
  /\ pending[k] + InFlight(k) <= recorded[k]
  /\ recorded[k] + Landed(k) <= received[k] + pending[k] + InFlight(k)
  /\ ~uncertain => received[k] + pending[k] + InFlight(k) = recorded[k] + Landed(k)

IInv == TypeOK /\ IdleEmpty /\ \A k \in Key : KeyInv(k)

\* The inductive invariant is the conjunction of the checked ones.
LEMMA ByKey == IInv <=> TypeOK /\ AuditInv /\ NothingTwice
BY DEF IInv, AuditInv, Balance, NothingTwice, KeyInv

\* The numbers of one key are natural numbers.
LEMMA KeyType ==
  ASSUME TypeOK, NEW k \in Key
  PROVE  /\ pending[k] \in Nat /\ recorded[k] \in Nat /\ received[k] \in Nat
         /\ batch["loop"][k] \in Nat /\ batch["stop"][k] \in Nat
BY DEF TypeOK, Flusher

\* The initial state is balanced.
LEMMA InitInv == Init => IInv
<1> SUFFICES ASSUME Init PROVE IInv
  OBVIOUS
<1>1. TypeOK
  BY DEF Init, TypeOK, None, Flusher, Phases
<1>2. IdleEmpty
  BY DEF Init, IdleEmpty
<1>3. ASSUME NEW k \in Key PROVE KeyInv(k)
  <2>1. /\ pending[k] = 0 /\ recorded[k] = 0 /\ received[k] = 0
        /\ batch["loop"][k] = 0 /\ batch["stop"][k] = 0
        /\ phase["loop"] = "idle" /\ phase["stop"] = "idle"
    BY DEF Init, None, Flusher
  <2> QED BY <2>1 DEF KeyInv, InFlight, Landed
<1> QED BY <1>1, <1>2, <1>3 DEF IInv

\* Recording a count (audit_client.py:44-51).
LEMMA EnqueueStep ==
  ASSUME IInv, NEW k \in Key, EnqueueAudit(k) PROVE IInv'
<1>1. TypeOK'
  BY DEF IInv, TypeOK, EnqueueAudit
<1>2. IdleEmpty'
  BY DEF IInv, IdleEmpty, EnqueueAudit
<1>3. ASSUME NEW j \in Key PROVE KeyInv(j)'
  <2>1. \/ pending'[j] = pending[j] + 1 /\ recorded'[j] = recorded[j] + 1
        \/ pending'[j] = pending[j] /\ recorded'[j] = recorded[j]
    BY DEF IInv, TypeOK, EnqueueAudit
  <2>2. UNCHANGED <<batch, phase, received, uncertain>>
    BY DEF EnqueueAudit
  <2>3. /\ InFlight(j)' = InFlight(j)
        /\ Landed(j)' = Landed(j)
    BY <2>2 DEF InFlight, Landed
  <2>4. /\ InFlight(j) \in Nat /\ Landed(j) \in Nat
        /\ pending[j] \in Nat /\ recorded[j] \in Nat /\ received[j] \in Nat
    BY KeyType DEF IInv, InFlight, Landed
  <2>5. KeyInv(j)
    BY DEF IInv
  <2> QED BY <2>1, <2>2, <2>3, <2>4, <2>5 DEF KeyInv
<1> QED BY <1>1, <1>2, <1>3 DEF IInv

\* A batch that flusher f ends up without or takes over: the other flusher's
\* part of every sum stays what it was.
LEMMA OtherFlusher ==
  ASSUME TypeOK, NEW f \in Flusher, NEW b \in [Key -> Nat], NEW p \in Phases,
         batch' = [batch EXCEPT ![f] = b], phase' = [phase EXCEPT ![f] = p],
         NEW k \in Key
  PROVE  \E o \in Nat, l \in Nat :
           /\ InFlight(k) = o + batch[f][k] /\ InFlight(k)' = o + b[k]
           /\ Landed(k) = l + (IF phase[f] = "landed" THEN batch[f][k] ELSE 0)
           /\ Landed(k)' = l + (IF p = "landed" THEN b[k] ELSE 0)
<1> DEFINE g == IF f = "loop" THEN "stop" ELSE "loop"
<1>1. /\ g \in Flusher /\ g # f
      /\ batch'[g] = batch[g] /\ phase'[g] = phase[g]
      /\ batch'[f] = b /\ phase'[f] = p
  BY DEF Flusher, TypeOK
<1>2. batch[g][k] \in Nat /\ batch[f][k] \in Nat /\ b[k] \in Nat
  BY <1>1 DEF TypeOK
<1> DEFINE o == batch[g][k]
           l == IF phase[g] = "landed" THEN batch[g][k] ELSE 0
<1>3. o \in Nat /\ l \in Nat
  BY <1>2
<1>4. InFlight(k) = o + batch[f][k] /\ InFlight(k)' = o + b[k]
  BY <1>1, <1>2 DEF InFlight, Flusher
<1>5. Landed(k) = l + (IF phase[f] = "landed" THEN batch[f][k] ELSE 0)
  BY <1>1, <1>2 DEF Landed, Flusher
<1>6. Landed(k)' = l + (IF p = "landed" THEN b[k] ELSE 0)
  BY <1>1, <1>2 DEF Landed, Flusher
<1> QED BY <1>3, <1>4, <1>5, <1>6

\* Taking a batch out of the buffer moves counts, and loses none
\* (audit_client.py:57-61).
LEMMA TakeStep ==
  ASSUME IInv, NEW f \in Flusher, TakeBatch(f) PROVE IInv'
<1>1. TypeOK'
  BY DEF IInv, TypeOK, TakeBatch, None, Phases
<1>2. IdleEmpty'
  BY DEF IInv, TypeOK, IdleEmpty, TakeBatch
<1>3. ASSUME NEW j \in Key PROVE KeyInv(j)'
  <2> DEFINE b == pending
             p == IF pending = None THEN "idle" ELSE "posting"
  <2>1. /\ batch' = [batch EXCEPT ![f] = b] /\ phase' = [phase EXCEPT ![f] = p]
        /\ b \in [Key -> Nat] /\ p \in Phases
    BY DEF IInv, TypeOK, TakeBatch, None, Phases
  <2>2. PICK o \in Nat, l \in Nat :
          /\ InFlight(j) = o + batch[f][j] /\ InFlight(j)' = o + b[j]
          /\ Landed(j) = l + (IF phase[f] = "landed" THEN batch[f][j] ELSE 0)
          /\ Landed(j)' = l + (IF p = "landed" THEN b[j] ELSE 0)
    <3> HIDE DEF b, p
    <3> QED BY <2>1, OtherFlusher DEF IInv
  <2>3. /\ batch[f][j] = 0 /\ phase[f] = "called" /\ p # "landed"
        /\ pending'[j] = 0 /\ b[j] = pending[j]
        /\ UNCHANGED <<received, recorded, uncertain>>
    BY DEF IInv, TypeOK, IdleEmpty, TakeBatch, None
  <2>4. /\ batch[f][j] \in Nat /\ pending[j] \in Nat /\ recorded[j] \in Nat
        /\ received[j] \in Nat
    BY DEF IInv, TypeOK
  <2> HIDE DEF b, p
  <2>5. KeyInv(j)
    BY DEF IInv
  <2> QED BY <2>2, <2>3, <2>4, <2>5 DEF KeyInv
<1> QED BY <1>1, <1>2, <1>3 DEF IInv

\* What the portal adds up has not landed before.
LEMMA ReceiveStep ==
  ASSUME IInv, NEW f \in Flusher, PortalReceives(f) PROVE IInv'
<1>1. TypeOK'
  BY DEF IInv, TypeOK, PortalReceives, Phases
<1>2. IdleEmpty'
  BY DEF IInv, TypeOK, IdleEmpty, PortalReceives
<1>3. ASSUME NEW j \in Key PROVE KeyInv(j)'
  <2> DEFINE b == batch[f]
             p == "landed"
  <2>1. /\ batch' = [batch EXCEPT ![f] = b] /\ phase' = [phase EXCEPT ![f] = p]
        /\ b \in [Key -> Nat] /\ p \in Phases
    BY DEF IInv, TypeOK, PortalReceives, Phases
  <2>2. PICK o \in Nat, l \in Nat :
          /\ InFlight(j) = o + batch[f][j] /\ InFlight(j)' = o + b[j]
          /\ Landed(j) = l + (IF phase[f] = "landed" THEN batch[f][j] ELSE 0)
          /\ Landed(j)' = l + (IF p = "landed" THEN b[j] ELSE 0)
    <3> HIDE DEF b, p
    <3> QED BY <2>1, OtherFlusher DEF IInv
  <2>3. /\ phase[f] = "posting" /\ b[j] = batch[f][j] /\ p = "landed"
        /\ received'[j] = received[j] + batch[f][j]
        /\ UNCHANGED <<pending, recorded, uncertain>>
    BY DEF IInv, TypeOK, IdleEmpty, PortalReceives, None
  <2>4. /\ batch[f][j] \in Nat /\ pending[j] \in Nat /\ recorded[j] \in Nat
        /\ received[j] \in Nat
    BY DEF IInv, TypeOK
  <2> HIDE DEF b, p
  <2>5. KeyInv(j)
    BY DEF IInv
  <2> QED BY <2>2, <2>3, <2>4, <2>5 DEF KeyInv
<1> QED BY <1>1, <1>2, <1>3 DEF IInv

\* A batch is forgotten only when it has landed (audit_client.py:70).
LEMMA SuccessStep ==
  ASSUME IInv, NEW f \in Flusher, PostSucceeds(f) PROVE IInv'
<1>1. TypeOK'
  BY DEF IInv, TypeOK, PostSucceeds, None, Phases
<1>2. IdleEmpty'
  BY DEF IInv, TypeOK, IdleEmpty, PostSucceeds
<1>3. ASSUME NEW j \in Key PROVE KeyInv(j)'
  <2> DEFINE b == None
             p == "idle"
  <2>1. /\ batch' = [batch EXCEPT ![f] = b] /\ phase' = [phase EXCEPT ![f] = p]
        /\ b \in [Key -> Nat] /\ p \in Phases
    BY DEF IInv, TypeOK, PostSucceeds, None, Phases
  <2>2. PICK o \in Nat, l \in Nat :
          /\ InFlight(j) = o + batch[f][j] /\ InFlight(j)' = o + b[j]
          /\ Landed(j) = l + (IF phase[f] = "landed" THEN batch[f][j] ELSE 0)
          /\ Landed(j)' = l + (IF p = "landed" THEN b[j] ELSE 0)
    <3> HIDE DEF b, p
    <3> QED BY <2>1, OtherFlusher DEF IInv
  <2>3. /\ phase[f] = "landed" /\ b[j] = 0 /\ p = "idle"
        /\ UNCHANGED <<received, pending, recorded, uncertain>>
    BY DEF IInv, TypeOK, IdleEmpty, PostSucceeds, None
  <2>4. /\ batch[f][j] \in Nat /\ pending[j] \in Nat /\ recorded[j] \in Nat
        /\ received[j] \in Nat
    BY DEF IInv, TypeOK
  <2> HIDE DEF b, p
  <2>5. KeyInv(j)
    BY DEF IInv
  <2> QED BY <2>2, <2>3, <2>4, <2>5 DEF KeyInv
<1> QED BY <1>1, <1>2, <1>3 DEF IInv

\* A batch that is put back joins what was recorded meanwhile
\* (audit_client.py:72-81).
LEMMA FailStep ==
  ASSUME IInv, NEW f \in Flusher, PostFails(f) PROVE IInv'
<1>1. TypeOK'
  BY DEF IInv, TypeOK, PostFails, None, Phases
<1>2. IdleEmpty'
  BY DEF IInv, TypeOK, IdleEmpty, PostFails
<1>3. ASSUME NEW j \in Key PROVE KeyInv(j)'
  <2> DEFINE b == None
             p == "idle"
  <2>1. /\ batch' = [batch EXCEPT ![f] = b] /\ phase' = [phase EXCEPT ![f] = p]
        /\ b \in [Key -> Nat] /\ p \in Phases
    BY DEF IInv, TypeOK, PostFails, None, Phases
  <2>2. PICK o \in Nat, l \in Nat :
          /\ InFlight(j) = o + batch[f][j] /\ InFlight(j)' = o + b[j]
          /\ Landed(j) = l + (IF phase[f] = "landed" THEN batch[f][j] ELSE 0)
          /\ Landed(j)' = l + (IF p = "landed" THEN b[j] ELSE 0)
    <3> HIDE DEF b, p
    <3> QED BY <2>1, OtherFlusher DEF IInv
  <2>3. /\ phase[f] \in {"posting", "landed"} /\ b[j] = 0 /\ p = "idle"
        /\ pending'[j] = pending[j] + batch[f][j]
        /\ UNCHANGED <<received, recorded>>
        /\ ~uncertain' => ~uncertain /\ phase[f] = "posting"
    BY DEF IInv, TypeOK, IdleEmpty, PostFails, None
  <2>4. /\ batch[f][j] \in Nat /\ pending[j] \in Nat /\ recorded[j] \in Nat
        /\ received[j] \in Nat
    BY DEF IInv, TypeOK
  <2> HIDE DEF b, p
  <2>5. KeyInv(j)
    BY DEF IInv
  <2> QED BY <2>2, <2>3, <2>4, <2>5 DEF KeyInv
<1> QED BY <1>1, <1>2, <1>3 DEF IInv

\* A call or a stop that takes nothing yet changes no number.
LEMMA CallStep ==
  ASSUME IInv, NEW f \in Flusher, phase[f] = "idle",
         phase' = [phase EXCEPT ![f] = "called"], running' \in BOOLEAN,
         UNCHANGED <<pending, batch, received, recorded, uncertain>>
  PROVE  IInv'
<1>1. TypeOK'
  BY DEF IInv, TypeOK, Phases
<1>2. IdleEmpty'
  BY DEF IInv, TypeOK, IdleEmpty
<1>3. ASSUME NEW j \in Key PROVE KeyInv(j)'
  <2>1. InFlight(j)' = InFlight(j) /\ Landed(j)' = Landed(j)
    BY DEF IInv, TypeOK, InFlight, Landed
  <2>2. KeyInv(j)
    BY DEF IInv
  <2> QED BY <2>1, <2>2 DEF KeyInv
<1> QED BY <1>1, <1>2, <1>3 DEF IInv

\* A new process has recorded exactly what its predecessors settled.
LEMMA RestartStep == ASSUME IInv, Restart PROVE IInv'
<1>1. ASSUME NEW j \in Key
      PROVE  /\ InFlight(j) \in Nat /\ Landed(j) \in Nat
             /\ recorded'[j] \in Nat
             /\ recorded'[j] = recorded[j] - pending[j] - InFlight(j)
  BY KeyType DEF IInv, KeyInv, InFlight, Landed, Restart
<1>2. TypeOK'
  <2>1. recorded' = [k \in Key |-> recorded'[k]]
    BY DEF Restart
  <2> QED BY <1>1, <2>1 DEF IInv, TypeOK, Restart, None, Phases
<1>3. IdleEmpty'
  BY DEF IdleEmpty, Restart
<1>4. ASSUME NEW j \in Key PROVE KeyInv(j)'
  <2>1. /\ pending'[j] = 0 /\ received'[j] = received[j]
        /\ InFlight(j)' = 0 /\ Landed(j)' = 0
    BY DEF Restart, None, InFlight, Landed, Flusher
  <2>2. ~uncertain' => ~uncertain /\ Landed(j) = 0
    <3>1. ~uncertain' => ~uncertain /\ \A f \in Flusher : phase[f] # "landed"
      BY Zenon DEF Restart
    <3>2. (\A f \in Flusher : phase[f] # "landed") => Landed(j) = 0
      BY DEF Landed, Flusher
    <3> QED BY <3>1, <3>2
  <2>3. KeyInv(j)
    BY DEF IInv
  <2>4. pending[j] \in Nat /\ recorded[j] \in Nat /\ received[j] \in Nat
    BY KeyType DEF IInv
  <2> QED BY <1>1, <2>1, <2>2, <2>3, <2>4 DEF KeyInv
<1> QED BY <1>2, <1>3, <1>4 DEF IInv

\* Every action preserves the bookkeeping.
LEMMA InvStep == IInv /\ [Next]_vars => IInv'
<1> SUFFICES ASSUME IInv, [Next]_vars PROVE IInv'
  OBVIOUS
<1>1. CASE StartFlush
  BY <1>1, CallStep DEF StartFlush, IInv, TypeOK, Flusher
<1>2. CASE Stop
  BY <1>2, CallStep DEF Stop, Flusher
<1>3. CASE UNCHANGED vars
  BY <1>3 DEF vars, IInv, TypeOK, IdleEmpty, KeyInv, InFlight, Landed
<1> QED
  BY <1>1, <1>2, <1>3, EnqueueStep, TakeStep, ReceiveStep, SuccessStep, FailStep, RestartStep
     DEF Next

\* The bookkeeping of audit_client.py holds in every reachable state.
THEOREM BookkeepingHolds == Spec => []IInv
BY InitInv, InvStep, PTL DEF Spec

\* Type correctness: no count ever goes below zero.
THEOREM TypeCorrect == Spec => []TypeOK
BY BookkeepingHolds, PTL DEF IInv

\* Failed requests, overlapping flushes and concurrent recording lose nothing.
THEOREM NothingLostHolds == Spec => []NothingLost
<1>1. IInv => NothingLost
  <2> SUFFICES ASSUME IInv, NEW k \in Key
               PROVE  recorded[k] <= received[k] + pending[k] + InFlight(k)
    BY DEF NothingLost
  <2>1. KeyInv(k)
    BY DEF IInv
  <2>2. /\ recorded[k] \in Nat /\ received[k] \in Nat /\ pending[k] \in Nat
        /\ InFlight(k) \in Nat /\ Landed(k) \in Nat
    BY KeyType DEF IInv, InFlight, Landed
  <2> QED BY <2>1, <2>2 DEF KeyInv
<1> QED BY <1>1, BookkeepingHolds, PTL

\* While every answer arrives nothing is counted twice.
THEOREM NothingTwiceHolds == Spec => []NothingTwice
<1>1. IInv => NothingTwice
  BY ByKey
<1> QED BY <1>1, BookkeepingHolds, PTL

-----------------------------------------------------------------------------
(* The refinement: what the buffer owes is what it holds or has in flight. *)

Due == [k \in Key |-> pending[k] + InFlight(k)]

\* A flusher's step changes its own batch only.
LEMMA DueStep ==
  ASSUME TypeOK, NEW f \in Flusher, NEW b \in [Key -> Nat], batch' = [batch EXCEPT ![f] = b],
         NEW k \in Key
  PROVE  \E o \in Nat : InFlight(k) = o + batch[f][k] /\ InFlight(k)' = o + b[k]
<1> DEFINE g == IF f = "loop" THEN "stop" ELSE "loop"
<1>1. g \in Flusher /\ g # f /\ batch'[g] = batch[g] /\ batch'[f] = b
  BY DEF Flusher, TypeOK
<1>2. batch[g][k] \in Nat /\ batch[f][k] \in Nat /\ b[k] \in Nat
  BY <1>1 DEF TypeOK
<1>3. InFlight(k) = batch[g][k] + batch[f][k] /\ InFlight(k)' = batch[g][k] + b[k]
  BY <1>1, <1>2 DEF InFlight, Flusher
<1> QED BY <1>2, <1>3

\* Initially nothing is due.
LEMMA InitMaps == Init => Ledger!Init
<1> SUFFICES ASSUME Init PROVE Ledger!Init
  OBVIOUS
<1>1. Due = [k \in Key |-> 0]
  BY DEF Init, Due, InFlight, None, Flusher
<1> QED BY <1>1 DEF Ledger!Init, Init, None, Due

\* EnqueueAudit records.
LEMMA EnqueueMaps ==
  ASSUME IInv, NEW k \in Key, EnqueueAudit(k) PROVE Ledger!Record(k)
<1>1. ASSUME NEW j \in Key
      PROVE  Due'[j] = IF j = k THEN Due[j] + 1 ELSE Due[j]
  <2>1. InFlight(j)' = InFlight(j) /\ InFlight(j) \in Nat /\ pending[j] \in Nat
    BY KeyType DEF IInv, EnqueueAudit, InFlight
  <2>2. pending'[j] = IF j = k THEN pending[j] + 1 ELSE pending[j]
    BY DEF IInv, TypeOK, EnqueueAudit
  <2> QED BY <2>1, <2>2 DEF Due
<1>2. Due' = [Due EXCEPT ![k] = @ + 1]
  BY <1>1 DEF Due
<1> QED BY <1>2 DEF Ledger!Record, EnqueueAudit, Due

\* Taking and putting back leave the ledger as it is.
LEMMA MoveMaps ==
  ASSUME IInv, NEW f \in Flusher, TakeBatch(f) \/ PostFails(f) PROVE UNCHANGED Ledger!vars
<1>1. ASSUME NEW j \in Key PROVE (pending[j] + InFlight(j))' = pending[j] + InFlight(j)
  <2>1. pending[j] \in Nat /\ batch[f][j] \in Nat
    BY DEF IInv, TypeOK
  <2>2. CASE TakeBatch(f)
    <3>1. PICK o \in Nat : InFlight(j) = o + batch[f][j] /\ InFlight(j)' = o + pending[j]
      <4>1. pending \in [Key -> Nat] /\ batch' = [batch EXCEPT ![f] = pending]
        BY <2>2 DEF IInv, TypeOK, TakeBatch
      <4> QED BY <4>1, DueStep DEF IInv
    <3>2. batch[f][j] = 0 /\ pending'[j] = 0
      BY <2>2 DEF IInv, IdleEmpty, TakeBatch, None
    <3> QED BY <2>1, <3>1, <3>2
  <2>3. CASE PostFails(f)
    <3>1. PICK o \in Nat : InFlight(j) = o + batch[f][j] /\ InFlight(j)' = o + None[j]
      <4>1. None \in [Key -> Nat]
        BY DEF None
      <4> QED BY <2>3, <4>1, DueStep DEF IInv, PostFails
    <3>2. None[j] = 0 /\ pending'[j] = pending[j] + batch[f][j]
      BY <2>3 DEF PostFails, None
    <3> QED BY <2>1, <3>1, <3>2
  <2> QED BY <2>2, <2>3
<1>2. Due' = Due
  BY <1>1 DEF Due
<1> QED BY <1>2 DEF Ledger!vars, Due, TakeBatch, PostFails

\* The portal receives what is due.
LEMMA ReceiveMaps ==
  ASSUME IInv, NEW f \in Flusher, PortalReceives(f) PROVE Ledger!Receive
<1>1. Due' = Due /\ recorded' = recorded
  BY DEF Due, InFlight, PortalReceives
<1>2. received' = [k \in Key |-> received'[k]]
  BY DEF PortalReceives
<1>3. ASSUME NEW k \in Key PROVE received'[k] \in received[k] .. received[k] + Due[k]
  <2>1. received'[k] = received[k] + batch[f][k]
    BY DEF PortalReceives
  <2>2. /\ received[k] \in Nat /\ pending[k] \in Nat /\ batch[f][k] \in Nat
        /\ batch["loop"][k] \in Nat /\ batch["stop"][k] \in Nat
    BY KeyType DEF IInv, TypeOK
  <2>3. Due[k] = pending[k] + (batch["loop"][k] + batch["stop"][k])
    BY DEF Due, InFlight
  <2> QED BY <2>1, <2>2, <2>3 DEF Flusher
<1> QED BY <1>1, <1>2, <1>3 DEF Ledger!Receive, Due

\* A confirmed batch is settled.
LEMMA SuccessMaps ==
  ASSUME IInv, NEW f \in Flusher, PostSucceeds(f) PROVE Ledger!Settle
<1>1. IInv'
  BY SuccessStep
<1>2. UNCHANGED <<recorded, received, pending>>
  BY DEF PostSucceeds
<1>3. ASSUME NEW k \in Key
      PROVE  Due'[k] \in 0 .. Due[k] /\ recorded[k] <= received[k] + Due'[k]
  <2>1. PICK o \in Nat : InFlight(k) = o + batch[f][k] /\ InFlight(k)' = o + None[k]
    <3>1. None \in [Key -> Nat]
      BY DEF None
    <3> QED BY <3>1, DueStep DEF IInv, PostSucceeds
  <2>2. None[k] = 0 /\ pending[k] \in Nat /\ batch[f][k] \in Nat
    BY DEF None, IInv, TypeOK
  <2>3. Due[k] = pending[k] + InFlight(k) /\ Due'[k] = pending[k] + InFlight(k)'
    BY <1>2 DEF Due
  <2>4. KeyInv(k)'
    BY <1>1 DEF IInv
  <2>5. Landed(k)' \in Nat /\ recorded[k] \in Nat /\ received[k] \in Nat
    BY <1>1, <1>2, KeyType DEF IInv, TypeOK, Landed, Flusher
  <2> QED BY <1>2, <2>1, <2>2, <2>3, <2>4, <2>5 DEF KeyInv
<1> QED BY <1>2, <1>3 DEF Ledger!Settle, Due

\* A restart forgets what is due.
LEMMA RestartMaps == ASSUME IInv, Restart PROVE Ledger!Forget
<1>1. Due' = [k \in Key |-> 0]
  BY DEF Due, Restart, InFlight, None, Flusher
<1>2. ASSUME NEW k \in Key PROVE recorded[k] - pending[k] - InFlight(k) = recorded[k] - Due[k]
  BY KeyType DEF IInv, Due, InFlight
<1>3. recorded' = [k \in Key |-> recorded[k] - Due[k]]
  BY <1>2 DEF Restart
<1> QED BY <1>1, <1>3 DEF Ledger!Forget, Due, Restart

\* The buffer of audit_client.py implements the ledger: counts reach the portal
\* at least once or are lost with the process, and are settled only when they
\* have been received.
THEOREM Implements == Spec => ImplementsLedger
<1>1. IInv /\ [Next]_vars => [Ledger!Next]_(Ledger!vars)
  <2> SUFFICES ASSUME IInv, [Next]_vars PROVE Ledger!Next \/ UNCHANGED Ledger!vars
    OBVIOUS
  <2>1. CASE StartFlush \/ Stop \/ UNCHANGED vars
    BY <2>1 DEF StartFlush, Stop, vars, Ledger!vars, InFlight
  <2> QED
    BY <2>1, EnqueueMaps, MoveMaps, ReceiveMaps, SuccessMaps, RestartMaps DEF Next, Ledger!Next
<1> QED BY <1>1, InitMaps, BookkeepingHolds, PTL DEF Spec, ImplementsLedger, Ledger!Spec
=============================================================================
