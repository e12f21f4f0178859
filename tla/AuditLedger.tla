------------------------------ MODULE AuditLedger ------------------------------
(***************************************************************************)
(* What audit telemetry promises: focus counts reach the portal at least   *)
(* once as long as the process lives.  Abstracts from buffers, batches and *)
(* requests: a count is due until it is settled, and nothing is settled    *)
(* that the portal has not received.                                       *)
(***************************************************************************)
EXTENDS Integers

CONSTANT Key

VARIABLES recorded,   \* per key, the counts of this process
          due,        \* those the agent still owes the portal
          received    \* what the portal has added up

vars == <<recorded, due, received>>

Counts == [Key -> Nat]

Init == /\ recorded = [k \in Key |-> 0]
        /\ due = [k \in Key |-> 0]
        /\ received = [k \in Key |-> 0]

Record(k) == /\ recorded' = [recorded EXCEPT ![k] = @ + 1]
             /\ due' = [due EXCEPT ![k] = @ + 1]
             /\ UNCHANGED received

\* The portal may receive what is due, also what it has received before.
Receive == /\ \A k \in Key : received'[k] \in received[k] .. received[k] + due[k]
           /\ received' = [k \in Key |-> received'[k]]
           /\ UNCHANGED <<recorded, due>>

Settle == /\ \A k \in Key : due'[k] \in 0 .. due[k] /\ recorded[k] <= received[k] + due'[k]
          /\ due' = [k \in Key |-> due'[k]]
          /\ UNCHANGED <<recorded, received>>

\* The process ends: what is due goes unreported.
Forget == /\ recorded' = [k \in Key |-> recorded[k] - due[k]]
          /\ due' = [k \in Key |-> 0]
          /\ UNCHANGED received

Next == (\E k \in Key : Record(k)) \/ Receive \/ Settle \/ Forget

Spec == Init /\ [][Next]_vars

\* Every count is at the portal or still due.
AtLeastOnce == \A k \in Key : recorded[k] <= received[k] + due[k]
=============================================================================
