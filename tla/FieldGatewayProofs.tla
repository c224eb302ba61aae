------------------------- MODULE FieldGatewayProofs -------------------------
(***************************************************************************)
(* Proofs about FieldGateway, for any readings, batch size, retention and  *)
(* number of faults.                                                       *)
(***************************************************************************)
EXTENDS FieldGateway, TLAPS

(***************************************************************************)
(* LossOnlyByAbandonment is not inductive: marking a row sent is harmless  *)
(* only because its message is already with the client or the broker       *)
(* (current), a PUBACK because the broker has the message (arrived), and   *)
(* collecting a reading because nobody has seen it before (inflight and    *)
(* Delivered hold accepted readings only).                                 *)
(***************************************************************************)
GatewayInv ==
    /\ TypeOK
    /\ batch \subseteq Unsent
    /\ pc = "mark" => current \in batch /\ current \in inflight \cup Delivered
    /\ arrived \subseteq inflight \cap Delivered
    /\ inflight \subseteq Accepted
    /\ Delivered \subseteq Accepted
    /\ faults["publish"] + faults["mark"] + faults["crash"] = 0 => abandoned = {}
    /\ LossOnlyByAbandonment

USE GatewayAssumption

LEMMA GatewayInit == Init => GatewayInv
  <1> SUFFICES ASSUME Init
               PROVE  GatewayInv
    OBVIOUS
  <1>1. TypeOK
    BY DEF Init, TypeOK, RowState
  <1>2. Accepted = {} /\ Delivered = {}
    BY DEF Init, Accepted, Delivered
  <1> QED
    BY <1>1, <1>2 DEF Init, GatewayInv, LossOnlyByAbandonment

LEMMA FaultCounted ==
    ASSUME faults \in [FaultKinds -> Nat], NEW k \in FaultKinds, Fault(k)
    PROVE  /\ faults' \in [FaultKinds -> Nat]
           /\ \A j \in FaultKinds : faults'[j] = IF j = k THEN faults[j] + 1 ELSE faults[j]
  BY DEF Fault

LEMMA TypeOKStep == TypeOK /\ (pc = "mark" => current \in Readings) /\ [Next]_vars => TypeOK'
  <1> SUFFICES ASSUME TypeOK, pc = "mark" => current \in Readings, [Next]_vars
               PROVE  TypeOK'
    OBVIOUS
  <1> USE DEF TypeOK, RowState, queue, forwarder, client, network
  <1>1. ASSUME NEW r \in Readings, Collect(r)
        PROVE  TypeOK'
    BY <1>1 DEF Collect
  <1>2. ASSUME NEW r \in Readings, CollectFails(r)
        PROVE  TypeOK'
    BY <1>2 DEF CollectFails, Fault, FaultKinds
  <1>3. CASE EnsureConnected
    BY <1>3 DEF EnsureConnected
  <1>4. CASE FetchBatch
    BY <1>4 DEF FetchBatch
  <1>5. CASE Publish
    BY <1>5 DEF Publish
  <1>6. CASE MarkSent
    BY <1>6 DEF MarkSent
  <1>7. CASE ForwardFails
    BY <1>7, FaultCounted DEF ForwardFails, DropClient, FaultKinds
  <1>8. CASE PruneSent
    BY <1>8 DEF PruneSent
  <1>9. CASE Crash
    BY <1>9, FaultCounted DEF Crash, DropClient, FaultKinds
  <1>10. CASE Tick
    BY <1>10 DEF Tick
  <1>11. CASE GoOffline
    BY <1>11, FaultCounted DEF GoOffline, FaultKinds
  <1>12. CASE GoOnline
    BY <1>12 DEF GoOnline
  <1>13. ASSUME NEW r \in Readings, Arrive(r)
         PROVE  TypeOK'
    BY <1>13 DEF Arrive
  <1>14. ASSUME NEW r \in Readings, PubAck(r)
         PROVE  TypeOK'
    BY <1>14 DEF PubAck
  <1>15. CASE UNCHANGED vars
    BY <1>15 DEF vars
  <1> QED
    BY <1>1, <1>2, <1>3, <1>4, <1>5, <1>6, <1>7, <1>8, <1>9, <1>10, <1>11, <1>12, <1>13,
       <1>14, <1>15 DEF Next

LEMMA GatewayStep == GatewayInv /\ [Next]_vars => GatewayInv'
  <1> SUFFICES ASSUME GatewayInv, [Next]_vars
               PROVE  GatewayInv'
    OBVIOUS
  <1>0. TypeOK /\ TypeOK'
    BY TypeOKStep DEF GatewayInv, TypeOK
  <1> USE <1>0 DEF GatewayInv, LossOnlyByAbandonment, Unsent, Accepted, Delivered,
                   queue, forwarder, client, network
  <1>1. ASSUME NEW r \in Readings, Collect(r)
        PROVE  GatewayInv'
    BY <1>1 DEF Collect, TypeOK
  <1>2. ASSUME NEW r \in Readings, CollectFails(r)
        PROVE  GatewayInv'
    BY <1>2 DEF CollectFails, Fault, FaultKinds, TypeOK
  <1>3. CASE EnsureConnected
    BY <1>3 DEF EnsureConnected
  <1>4. CASE FetchBatch
    BY <1>4 DEF FetchBatch, IsBatch
  <1>5. CASE Publish
    BY <1>5 DEF Publish, TypeOK
  <1>6. CASE MarkSent
    BY <1>6 DEF MarkSent, TypeOK
  <1>7. CASE ForwardFails
    BY <1>7 DEF ForwardFails, DropClient, Fault, FaultKinds, TypeOK
  <1>8. CASE PruneSent
    BY <1>8 DEF PruneSent, Expired, TypeOK
  <1>9. CASE Crash
    BY <1>9 DEF Crash, DropClient, Fault, FaultKinds, TypeOK
  <1>10. CASE Tick
    BY <1>10 DEF Tick
  <1>11. CASE GoOffline
    BY <1>11 DEF GoOffline, Fault, FaultKinds, TypeOK
  <1>12. CASE GoOnline
    BY <1>12 DEF GoOnline
  <1>13. ASSUME NEW r \in Readings, Arrive(r)
         PROVE  GatewayInv'
    BY <1>13 DEF Arrive, TypeOK
  <1>14. ASSUME NEW r \in Readings, PubAck(r)
         PROVE  GatewayInv'
    BY <1>14 DEF PubAck
  <1>15. CASE UNCHANGED vars
    BY <1>15 DEF vars
  <1> QED
    BY <1>1, <1>2, <1>3, <1>4, <1>5, <1>6, <1>7, <1>8, <1>9, <1>10, <1>11, <1>12, <1>13,
       <1>14, <1>15 DEF Next

LEMMA GatewayInductive == Spec => []GatewayInv
  BY GatewayInit, GatewayStep, PTL DEF Spec

\* The queue, the forwarder and the client only ever hold values of their types.
THEOREM GatewayTypeCorrect == Spec => []TypeOK
  <1>1. GatewayInv => TypeOK
    BY DEF GatewayInv
  <1> QED
    BY <1>1, GatewayInductive, PTL

\* Only a crash or a discarded connection loses an accepted reading.
THEOREM GatewayLossOnlyByAbandonment == Spec => []LossOnlyByAbandonment
  <1>1. GatewayInv => LossOnlyByAbandonment
    BY DEF GatewayInv
  <1> QED
    BY <1>1, GatewayInductive, PTL

\* While nothing raises and nothing restarts, nothing is lost.
THEOREM GatewayOutageOnlyDelays == Spec => []OutageOnlyDelays
  <1>1. GatewayInv => OutageOnlyDelays
    BY DEF GatewayInv, OutageOnlyDelays, NothingIsLost, LossOnlyByAbandonment
  <1> QED
    BY <1>1, GatewayInductive, PTL

-----------------------------------------------------------------------------
(* The order: what is not in the batch is no older than what is, since a   *)
(* reading that comes later is stamped by a later clock.                   *)

OrderInv ==
    /\ \A r \in Readings : queued_at[r] <= clock
    /\ \A r \in batch : \A s \in Unsent \ batch : queued_at[r] <= queued_at[s]

LEMMA OrderStep == GatewayInv /\ OrderInv /\ [Next]_vars => OrderInv'
  <1> SUFFICES ASSUME GatewayInv, OrderInv, [Next]_vars
               PROVE  OrderInv'
    OBVIOUS
  <1>0. TypeOK /\ batch \subseteq Unsent
    BY DEF GatewayInv
  <1> USE <1>0 DEF OrderInv, Unsent, TypeOK, queue, forwarder, client, network
  <1>1. ASSUME NEW r \in Readings, Collect(r)
        PROVE  OrderInv'
    BY <1>1 DEF Collect
  <1>2. ASSUME NEW r \in Readings, CollectFails(r)
        PROVE  OrderInv'
    BY <1>2 DEF CollectFails
  <1>3. CASE FetchBatch
    BY <1>3 DEF FetchBatch, IsBatch
  <1>4. CASE MarkSent
    BY <1>4 DEF MarkSent
  <1>5. CASE ForwardFails
    BY <1>5 DEF ForwardFails, DropClient
  <1>6. CASE PruneSent
    BY <1>6 DEF PruneSent, Expired
  <1>7. CASE Crash
    BY <1>7 DEF Crash, DropClient
  <1>8. CASE Tick
    BY <1>8 DEF Tick
  <1>9. CASE EnsureConnected \/ Publish \/ GoOffline \/ GoOnline \/ UNCHANGED vars
    <2>1. UNCHANGED <<row, queued_at, clock, batch>>
      BY <1>9 DEF EnsureConnected, Publish, GoOffline, GoOnline, vars
    <2> QED
      BY <2>1
  <1>10. ASSUME NEW r \in Readings, Arrive(r) \/ PubAck(r)
         PROVE  OrderInv'
    <2>1. UNCHANGED <<row, queued_at, clock, batch>>
      BY <1>10 DEF Arrive, PubAck
    <2> QED
      BY <2>1
  <1> QED
    BY <1>1, <1>2, <1>3, <1>4, <1>5, <1>6, <1>7, <1>8, <1>9, <1>10 DEF Next

\* Nothing is published while an older reading waits, for any batch size,
\* however batches are cut short.
THEOREM GatewayOldestFirst == Spec => OldestFirst
  <1> DEFINE Ordered == \A r \in inflight' \ inflight : \A s \in Unsent : queued_at[r] <= queued_at[s]
  <1>1. Init => OrderInv
    BY DEF Init, OrderInv, Unsent
  <1>2. ASSUME GatewayInv, OrderInv, [Next]_vars
        PROVE  [Ordered]_vars
    <2>1. CASE Publish
      <3>1. PICK r \in batch : inflight' = inflight \cup {r} /\ \A s \in batch : queued_at[r] <= queued_at[s]
        BY <2>1 DEF Publish
      <3> QED
        BY <1>2, <3>1 DEF OrderInv
    <2>2. CASE ~Publish
      <3>1. inflight' \subseteq inflight
        BY <1>2, <2>2 DEF Next, Collect, CollectFails, Arrive, PubAck, EnsureConnected, FetchBatch, MarkSent,
              ForwardFails, PruneSent, Crash, DropClient, Tick, GoOffline, GoOnline, client, vars
      <3> QED
        BY <3>1
    <2> QED
      BY <2>1, <2>2
  <1> QED
    BY <1>1, <1>2, OrderStep, GatewayInductive, PTL DEF Spec, OldestFirst

-----------------------------------------------------------------------------
(* The deliveries: a reading that may still arrive, on its first way or on *)
(* another one that a fault opened, has arrived at most once per fault.    *)

CostlyFaults == faults["publish"] + faults["mark"] + faults["crash"] + faults["outage"]

\* Unsent, and not with the client.
Waiting(r) == row[r] = "none" \/ (row[r] = "unsent" /\ ~(pc = "mark" /\ current = r))

PaidFor ==
    \A r \in Readings :
        /\ deliveries[r] <= 1 + CostlyFaults
        /\ Waiting(r) \/ r \in inflight \ arrived => deliveries[r] <= CostlyFaults
        /\ Waiting(r) => r \notin inflight

LEMMA PaidStep == GatewayInv /\ PaidFor /\ [Next]_vars => PaidFor'
  <1> SUFFICES ASSUME GatewayInv, PaidFor, [Next]_vars
               PROVE  PaidFor'
    OBVIOUS
  <1>0. /\ TypeOK /\ batch \subseteq Unsent /\ arrived \subseteq inflight /\ inflight \subseteq Accepted
        /\ pc = "mark" => current \in batch
    BY DEF GatewayInv
  <1>c. CostlyFaults \in Nat
    BY <1>0 DEF TypeOK, FaultKinds, CostlyFaults
  <1>f. ASSUME NEW k \in {"publish", "mark", "crash", "outage"}, Fault(k)
        PROVE  CostlyFaults' = CostlyFaults + 1
    BY <1>0, <1>f DEF Fault, CostlyFaults, TypeOK, FaultKinds
  <1>u. UNCHANGED faults => CostlyFaults' = CostlyFaults
    BY DEF CostlyFaults
  <1> USE <1>0, <1>c DEF PaidFor, Waiting, Unsent, Accepted, TypeOK, queue, forwarder, client, network
  <1> HIDE DEF CostlyFaults
  <1>1. ASSUME NEW r \in Readings, Collect(r)
        PROVE  PaidFor'
    BY <1>1, <1>u DEF Collect
  <1>2. ASSUME NEW r \in Readings, CollectFails(r)
        PROVE  PaidFor'
    <2>1. CostlyFaults' = CostlyFaults
      BY <1>2 DEF CollectFails, Fault, CostlyFaults, FaultKinds
    <2> QED
      BY <1>2, <2>1 DEF CollectFails
  <1>3. CASE EnsureConnected \/ FetchBatch
    BY <1>3, <1>u DEF EnsureConnected, FetchBatch
  <1>4. CASE Publish
    BY <1>4, <1>u DEF Publish
  <1>5. CASE MarkSent
    BY <1>5, <1>u DEF MarkSent
  <1>6. CASE ForwardFails \/ Crash
    <2>1. CostlyFaults' = CostlyFaults + 1
      BY <1>6, <1>f DEF ForwardFails, Crash
    <2>2. UNCHANGED deliveries /\ inflight' = {}
      BY <1>6 DEF ForwardFails, Crash, DropClient
    <2> QED
      BY <2>1, <2>2
  <1>7. CASE PruneSent
    BY <1>7, <1>u DEF PruneSent, Expired
  <1>8. CASE Tick \/ GoOnline \/ UNCHANGED vars
    BY <1>8, <1>u DEF Tick, GoOnline, vars
  <1>9. CASE GoOffline
    <2>1. CostlyFaults' = CostlyFaults + 1
      BY <1>9, <1>f DEF GoOffline
    <2> QED
      BY <1>9, <2>1 DEF GoOffline
  <1>10. ASSUME NEW r \in Readings, Arrive(r)
         PROVE  PaidFor'
    BY <1>10, <1>u DEF Arrive
  <1>11. ASSUME NEW r \in Readings, PubAck(r)
         PROVE  PaidFor'
    BY <1>11, <1>u DEF PubAck
  <1> QED
    BY <1>1, <1>2, <1>3, <1>4, <1>5, <1>6, <1>7, <1>8, <1>9, <1>10, <1>11 DEF Next

\* Every delivery of a reading beyond its first is paid for by a fault.
THEOREM GatewayDuplicatesNeedFault == Spec => []DuplicatesNeedFault
  <1>1. Init => PaidFor
    BY DEF Init, PaidFor, CostlyFaults, FaultKinds
  <1>2. GatewayInv /\ PaidFor => DuplicatesNeedFault
    BY DEF GatewayInv, TypeOK, FaultKinds, PaidFor, CostlyFaults, DuplicatesNeedFault
  <1> QED
    BY <1>1, <1>2, PaidStep, GatewayInductive, PTL DEF Spec

-----------------------------------------------------------------------------
(* The refinement: each step of the gateway is a step of the buffer or     *)
(* leaves it alone.  Only a new reading enters, only a first arrival       *)
(* leaves, and what a discarded client forgets is lost.                    *)

Held == (Unsent \cup inflight) \ Delivered
Lost == Accepted \ (Unsent \cup inflight \cup Delivered)

BufferUnchanged == Held' = Held /\ Delivered' = Delivered /\ Lost' = Lost

LEMMA DropClientLoses ==
    ASSUME GatewayInv, DropClient, UNCHANGED <<row, deliveries>>
    PROVE  \E S \in SUBSET Readings : Abstract!Lose(S)
  <1> DEFINE S == inflight \ (Unsent \cup Delivered)
  <1>1. S \in SUBSET Readings
    BY DEF GatewayInv, TypeOK
  <1>2. Abstract!Lose(S)
    BY DEF Abstract!Lose, DropClient, GatewayInv, TypeOK, Unsent, Accepted, Delivered
  <1> QED
    BY <1>1, <1>2

LEMMA BufferStep == GatewayInv /\ [Next]_vars => [Abstract!ANext]_Abstract!avars
  <1> SUFFICES ASSUME GatewayInv, [Next]_vars
               PROVE  Abstract!ANext \/ UNCHANGED Abstract!avars
    OBVIOUS
  <1>0. BufferUnchanged => UNCHANGED Abstract!avars
    BY DEF BufferUnchanged, Held, Lost, Abstract!avars
  <1> USE DEF queue, forwarder, client, network
  <1>1. ASSUME NEW r \in Readings, Collect(r)
        PROVE  Abstract!Accept(r)
    BY <1>1 DEF Collect, Abstract!Accept, GatewayInv, TypeOK, Unsent, Accepted, Delivered
  <1>2. ASSUME NEW r \in Readings, CollectFails(r)
        PROVE  BufferUnchanged
    BY <1>2 DEF CollectFails, BufferUnchanged, Held, Lost, TypeOK, GatewayInv, Unsent,
                Accepted, Delivered
  <1>3. CASE EnsureConnected \/ FetchBatch \/ Tick \/ GoOnline \/ GoOffline
    <2>1. UNCHANGED <<row, inflight, deliveries>>
      BY <1>3 DEF EnsureConnected, FetchBatch, Tick, GoOnline, GoOffline
    <2>2. BufferUnchanged
      BY <2>1 DEF BufferUnchanged, Held, Lost, Unsent, Accepted, Delivered
    <2> QED
      BY <2>2, <1>0
  <1>4. CASE Publish
    <2>1. PICK r \in batch : inflight' = inflight \cup {r}
      BY <1>4 DEF Publish
    <2>2. r \in Unsent /\ UNCHANGED <<row, deliveries>>
      BY <1>4, <2>1 DEF Publish, GatewayInv
    <2>3. BufferUnchanged
      BY <2>1, <2>2 DEF BufferUnchanged, Held, Lost, Unsent, Accepted, Delivered
    <2> QED
      BY <2>3, <1>0
  <1>5. CASE MarkSent
    <2>1. BufferUnchanged
      BY <1>5 DEF MarkSent, BufferUnchanged, Held, Lost, GatewayInv, TypeOK, Unsent, Accepted,
                  Delivered
    <2> QED
      BY <2>1, <1>0
  <1>6. CASE ForwardFails
    BY <1>6, DropClientLoses DEF ForwardFails, Abstract!ANext
  <1>7. CASE PruneSent
    <2>1. BufferUnchanged
      BY <1>7 DEF PruneSent, Expired, BufferUnchanged, Held, Lost, GatewayInv, TypeOK, Unsent,
                  Accepted, Delivered
    <2> QED
      BY <2>1, <1>0
  <1>8. CASE Crash
    BY <1>8, DropClientLoses DEF Crash, Abstract!ANext
  <1>9. ASSUME NEW r \in Readings, Arrive(r)
        PROVE  Abstract!Deliver(r) \/ BufferUnchanged
    <2>1. Delivered' = Delivered \cup {r}
      BY <1>9 DEF Arrive, GatewayInv, TypeOK, Delivered
    <2>2. UNCHANGED <<row, inflight>> /\ r \in inflight
      BY <1>9 DEF Arrive
    <2>3. CASE r \in Delivered
      BY <2>1, <2>2, <2>3 DEF BufferUnchanged, Held, Lost, Unsent, Accepted
    <2>4. CASE r \notin Delivered
      <3>1. Held' = Held \ {r} /\ r \in Held
        BY <2>1, <2>2, <2>4 DEF Held, Unsent
      <3>2. Lost' = Lost
        BY <2>1, <2>2 DEF Lost, Unsent, Accepted
      <3> QED
        BY <2>1, <3>1, <3>2 DEF Abstract!Deliver, Held, Lost
    <2> QED
      BY <2>3, <2>4
  <1>10. ASSUME NEW r \in Readings, PubAck(r)
         PROVE  BufferUnchanged
    <2>1. r \in Delivered /\ r \in Accepted /\ inflight' = inflight \ {r}
      BY <1>10 DEF PubAck, GatewayInv
    <2>2. UNCHANGED <<row, deliveries>>
      BY <1>10 DEF PubAck
    <2> QED
      BY <2>1, <2>2 DEF BufferUnchanged, Held, Lost, Unsent, Accepted, Delivered
  <1>11. CASE UNCHANGED vars
    <2>1. BufferUnchanged
      BY <1>11 DEF vars, BufferUnchanged, Held, Lost, Unsent, Accepted, Delivered
    <2> QED
      BY <2>1, <1>0
  <1> QED
    BY <1>0, <1>1, <1>2, <1>3, <1>4, <1>5, <1>6, <1>7, <1>8, <1>9, <1>10, <1>11
       DEF Next, Abstract!ANext

\* The gateway implements the store-and-forward buffer: a reading is held from
\* its acceptance until its first arrival, is lost only while held, and neither
\* a delivery nor a loss is ever undone.
THEOREM GatewayImplementsBuffer == Spec => ImplementsBuffer
  <1>1. Init => Abstract!AInit
    BY DEF Init, Abstract!AInit, Unsent, Accepted, Delivered
  <1> QED
    BY <1>1, BufferStep, GatewayInductive, PTL DEF Spec, ImplementsBuffer, Abstract!ASpec
=============================================================================
