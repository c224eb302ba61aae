---------------------------- MODULE FieldGateway ----------------------------
(***************************************************************************)
(* The field gateway of lambda/field_gateway.py: a collecting process      *)
(* writes readings to a queue on disk (SQLite), a forwarding process       *)
(* publishes the unsent ones over MQTT and marks them sent.  The MQTT      *)
(* client, the broker, the network and the clock are the environment.      *)
(*                                                                         *)
(* The forwarder never waits for the future publish() returns, so a row is *)
(* marked sent while its message may still be in the memory of the client  *)
(* (inflight); the client keeps it there through an outage, and only a     *)
(* crash or a discarded connection object takes it away (abandoned).       *)
(***************************************************************************)
EXTENDS Naturals, FiniteSets

CONSTANTS
    Readings,       \* every reading the sensors produce
    NoReading,      \* none of them
    MaxBatch,       \* MAX_FORWARD_BATCH
    Retention,      \* prune_sent's older_than_seconds, in clock ticks
    PruneInterval,  \* the 3600 seconds between two prunes, in clock ticks
    MaxClock,       \* bound on the clock
    MaxFaults       \* bound on the number of faults, all kinds together

FaultKinds == {"collect", "publish", "mark", "crash", "outage"}

ASSUME GatewayAssumption ==
    /\ NoReading \notin Readings
    /\ MaxBatch \in Nat \ {0}
    /\ Retention \in Nat
    /\ PruneInterval \in Nat
    /\ MaxClock \in Nat
    /\ MaxFaults \in Nat

VARIABLES
    row,         \* row[r]: what the queue table holds of reading r
    queued_at,   \* the column queued_at
    clock,       \* int(time.time()), in ticks
    pc,          \* where run_forward_loop stands
    batch,       \* rows of get_unsent_batch not yet handled
    current,     \* the row between publish and mark_sent
    connected,   \* mqtt_connection is not None
    last_prune,
    online,      \* the network reaches the broker
    inflight,    \* published on this connection, no PUBACK yet
    arrived,     \* those of inflight the broker received since the last outage
    deliveries,  \* how often the broker received each reading
    abandoned,   \* history: in flight and undelivered when the client was lost
    faults       \* how often each kind of fault has happened

forwarder == <<pc, batch, current, connected, last_prune>>
client == <<inflight, arrived, abandoned>>
network == <<online, deliveries>>
queue == <<row, queued_at>>
vars == <<queue, clock, forwarder, client, network, faults>>

-----------------------------------------------------------------------------
RowState == {"none", "skipped", "unsent", "sent", "pruned"}

TypeOK ==
    /\ row \in [Readings -> RowState]
    /\ queued_at \in [Readings -> Nat]
    /\ clock \in Nat
    /\ pc \in {"idle", "publish", "mark", "prune"}
    /\ batch \in SUBSET Readings
    /\ current \in Readings \cup {NoReading}
    /\ connected \in BOOLEAN
    /\ last_prune \in Nat
    /\ online \in BOOLEAN
    /\ inflight \in SUBSET Readings
    /\ arrived \in SUBSET Readings
    /\ deliveries \in [Readings -> Nat]
    /\ abandoned \in SUBSET Readings
    /\ faults \in [FaultKinds -> Nat]

Unsent == {r \in Readings : row[r] = "unsent"}
Accepted == {r \in Readings : row[r] \in {"unsent", "sent", "pruned"}}
Delivered == {r \in Readings : deliveries[r] > 0}

TotalFaults == faults["collect"] + faults["publish"] + faults["mark"] + faults["crash"]
                 + faults["outage"]

\* One more fault of kind k, while the bound allows it.
Fault(k) ==
    /\ TotalFaults < MaxFaults
    /\ faults' = [faults EXCEPT ![k] = @ + 1]

Init ==
    /\ row = [r \in Readings |-> "none"]
    /\ queued_at = [r \in Readings |-> 0]
    /\ clock = 0
    /\ pc = "idle"
    /\ batch = {}
    /\ current = NoReading
    /\ connected = FALSE
    /\ last_prune = 0
    /\ online = TRUE
    /\ inflight = {}
    /\ arrived = {}
    /\ deliveries = [r \in Readings |-> 0]
    /\ abandoned = {}
    /\ faults = [k \in FaultKinds |-> 0]

-----------------------------------------------------------------------------
(* The collecting process: run_collect_loop.                               *)

\* Mutant of Collect: INSERT OR REPLACE, keyed by the reading instead of a new uuid.
CollectReplaces(r) ==
    /\ row[r] \in {"none", "sent"}
    /\ row' = [row EXCEPT ![r] = "unsent"]
    /\ queued_at' = [queued_at EXCEPT ![r] = clock]
    /\ UNCHANGED <<clock, forwarder, client, network, faults>>

\* enqueue_reading: the INSERT and its commit are one transaction.
Collect(r) ==
    /\ row[r] = "none"
    /\ row' = [row EXCEPT ![r] = "unsent"]
    /\ queued_at' = [queued_at EXCEPT ![r] = clock]
    /\ UNCHANGED <<clock, forwarder, client, network, faults>>

\* The INSERT raises (the table is locked, the disk is full) or the collector
\* dies before it: the loop goes on with the next reading.
CollectFails(r) ==
    /\ row[r] = "none"
    /\ Fault("collect")
    /\ row' = [row EXCEPT ![r] = "skipped"]
    /\ UNCHANGED <<queued_at, clock, forwarder, client, network>>

-----------------------------------------------------------------------------
(* The forwarding process: run_forward_loop.                               *)

\* ensure_connected with no connection object: is_online, then connect.  With
\* an object it returns True at once, whatever the network does.
EnsureConnected ==
    /\ pc = "idle"
    /\ ~connected
    /\ online
    /\ connected' = TRUE
    /\ UNCHANGED <<queue, clock, pc, batch, current, last_prune, client, network, faults>>

\* get_unsent_batch returns B: unsent rows, the oldest ones, at most MaxBatch.
\* Rows of one tick come in any order.
IsBatch(B) ==
    /\ B \subseteq Unsent
    /\ Cardinality(B) <= MaxBatch
    /\ B = Unsent \/ Cardinality(B) = MaxBatch
    /\ \A r \in B, s \in Unsent \ B : queued_at[r] <= queued_at[s]

FetchBatch ==
    /\ pc = "idle"
    /\ connected
    /\ \E B \in SUBSET Readings :
        /\ IsBatch(B)
        /\ batch' = B
        /\ pc' = IF B = {} THEN "prune" ELSE "publish"
    /\ UNCHANGED <<queue, clock, current, connected, last_prune, client, network, faults>>

\* Mutant of Publish: QoS AT_MOST_ONCE, nothing is kept for an offline broker.
PublishAtMostOnce ==
    /\ pc = "publish"
    /\ \E r \in batch :
        /\ \A s \in batch : queued_at[r] <= queued_at[s]
        /\ current' = r
        /\ inflight' = IF online THEN inflight \cup {r} ELSE inflight
    /\ pc' = "mark"
    /\ UNCHANGED <<queue, clock, batch, connected, last_prune, arrived, abandoned,
                   network, faults>>

\* Mutant of Publish: the batch was selected without ORDER BY.
PublishInAnyOrder ==
    /\ pc = "publish"
    /\ \E r \in batch :
        /\ current' = r
        /\ inflight' = inflight \cup {r}
    /\ pc' = "mark"
    /\ UNCHANGED <<queue, clock, batch, connected, last_prune, arrived, abandoned,
                   network, faults>>

\* publish(): the message is in the client's memory when the call returns.
Publish ==
    /\ pc = "publish"
    /\ \E r \in batch :
        /\ \A s \in batch : queued_at[r] <= queued_at[s]
        /\ current' = r
        /\ inflight' = inflight \cup {r}
    /\ pc' = "mark"
    /\ UNCHANGED <<queue, clock, batch, connected, last_prune, arrived, abandoned,
                   network, faults>>

\* Mutant of MarkSent: the UPDATE is never committed.
MarkSentUncommitted ==
    /\ pc = "mark"
    /\ batch' = batch \ {current}
    /\ current' = NoReading
    /\ pc' = IF batch' = {} THEN "prune" ELSE "publish"
    /\ UNCHANGED <<queue, clock, connected, last_prune, client, network, faults>>

MarkSent ==
    /\ pc = "mark"
    /\ row' = [row EXCEPT ![current] = "sent"]
    /\ batch' = batch \ {current}
    /\ current' = NoReading
    /\ pc' = IF batch' = {} THEN "prune" ELSE "publish"
    /\ UNCHANGED <<queued_at, clock, connected, last_prune, client, network, faults>>

\* The client object goes away, and with it every message it had not delivered.
DropClient ==
    /\ connected' = FALSE
    /\ batch' = {}
    /\ current' = NoReading
    /\ inflight' = {}
    /\ arrived' = {}
    /\ abandoned' = abandoned \cup (inflight \ Delivered)

\* Mutant of ForwardFails: no break, the loop waits for a batch that is gone.
ForwardFailsNoBreak ==
    /\ \/ pc = "publish" /\ Fault("publish")
       \/ pc = "mark" /\ Fault("mark")
    /\ DropClient
    /\ pc' = "publish"
    /\ UNCHANGED <<queue, clock, last_prune, network>>

\* publish or mark_sent raises: forget the connection and leave the batch.
ForwardFails ==
    /\ \/ pc = "publish" /\ Fault("publish")
       \/ pc = "mark" /\ Fault("mark")
    /\ DropClient
    /\ pc' = "prune"
    /\ UNCHANGED <<queue, clock, last_prune, network>>

\* Mutant of Expired: the DELETE forgets sent = 1.
ExpiredUnsentToo ==
    {r \in Readings : row[r] \in {"unsent", "sent"} /\ queued_at[r] + Retention < clock}

\* prune_sent at the end of the iteration, once per interval.
Expired == {r \in Readings : row[r] = "sent" /\ queued_at[r] + Retention < clock}

\* Mutant of PruneSent: the table loses its rows.
PruneDropsRows ==
    /\ pc = "prune"
    /\ pc' = "idle"
    /\ row' = [r \in Readings \ Expired |-> row[r]]
    /\ last_prune' = clock
    /\ UNCHANGED <<queued_at, clock, batch, current, connected, client, network, faults>>

PruneSent ==
    /\ pc = "prune"
    /\ pc' = "idle"
    /\ IF clock > last_prune + PruneInterval
       THEN /\ row' = [r \in Readings |-> IF r \in Expired THEN "pruned" ELSE row[r]]
            /\ last_prune' = clock
       ELSE UNCHANGED <<row, last_prune>>
    /\ UNCHANGED <<queued_at, clock, batch, current, connected, client, network, faults>>

\* The forwarder stops and starts again (a power blip, a restart of the
\* process): the queue survives, the memory of the process does not.
Crash ==
    /\ Fault("crash")
    /\ DropClient
    /\ pc' = "idle"
    /\ last_prune' = clock
    /\ UNCHANGED <<queue, clock, network>>

-----------------------------------------------------------------------------
(* The environment: clock, network, MQTT client and broker.                *)

Tick ==
    /\ clock < MaxClock
    /\ clock' = clock + 1
    /\ UNCHANGED <<queue, forwarder, client, network, faults>>

\* After an outage the client sends again whatever has no PUBACK.
GoOffline ==
    /\ online
    /\ Fault("outage")
    /\ online' = FALSE
    /\ arrived' = {}
    /\ UNCHANGED <<queue, clock, forwarder, inflight, abandoned, deliveries>>

GoOnline ==
    /\ ~online
    /\ online' = TRUE
    /\ UNCHANGED <<queue, clock, forwarder, client, deliveries, faults>>

Arrive(r) ==
    /\ online
    /\ r \in inflight \ arrived
    /\ deliveries' = [deliveries EXCEPT ![r] = @ + 1]
    /\ arrived' = arrived \cup {r}
    /\ UNCHANGED <<queue, clock, forwarder, inflight, abandoned, online, faults>>

PubAck(r) ==
    /\ online
    /\ r \in arrived
    /\ inflight' = inflight \ {r}
    /\ arrived' = arrived \ {r}
    /\ UNCHANGED <<queue, clock, forwarder, abandoned, network, faults>>

-----------------------------------------------------------------------------
Next ==
    \/ \E r \in Readings : Collect(r) \/ CollectFails(r) \/ Arrive(r) \/ PubAck(r)
    \/ EnsureConnected \/ FetchBatch \/ Publish \/ MarkSent \/ ForwardFails \/ PruneSent
    \/ Crash \/ Tick \/ GoOffline \/ GoOnline

Spec == Init /\ [][Next]_vars

\* The forwarder is a loop that never stops by itself, the client and the
\* broker deliver and acknowledge while the network is up, and an outage ends.
\* Nothing is assumed of the collector, the clock or the faults.
Fairness ==
    /\ WF_vars(EnsureConnected)
    /\ WF_vars(FetchBatch)
    /\ WF_vars(Publish)
    /\ WF_vars(MarkSent)
    /\ WF_vars(PruneSent)
    /\ WF_vars(GoOnline)
    /\ \A r \in Readings : WF_vars(Arrive(r)) /\ WF_vars(PubAck(r))

FairSpec == Spec /\ Fairness

-----------------------------------------------------------------------------
(* Properties.                                                             *)

\* A reading that was accepted is in the queue, in flight or at the broker,
\* unless a crash or a discarded connection took it out of the client's memory:
\* neither the pruning, nor the batches, nor an outage loses one.
LossOnlyByAbandonment ==
    Accepted \subseteq Unsent \cup inflight \cup Delivered \cup abandoned

\* The promise of the documentation ("nothing is lost"), faults or not.
NothingIsLost == Accepted \subseteq Unsent \cup inflight \cup Delivered

\* An outage only delays: as long as no call of the forwarder raises and the
\* gateway does not restart, every accepted reading is still on its way.
OutageOnlyDelays ==
    faults["publish"] + faults["mark"] + faults["crash"] = 0 => NothingIsLost

\* Readings leave in the order of their ticks: nothing is published while an
\* older one waits in the queue, however batches are cut short and fetched again.
OldestFirst ==
    [][\A r \in inflight' \ inflight : \A s \in Unsent : queued_at[r] <= queued_at[s]]_vars

\* A reading reaches the broker twice only if something failed: every delivery
\* beyond the first is paid for by a fault.
DuplicatesNeedFault ==
    \A r \in Readings :
        deliveries[r] <= 1 + faults["publish"] + faults["mark"] + faults["crash"]
                           + faults["outage"]

\* A queued reading is eventually delivered or given up with its client.
EventuallyForwarded ==
    \A r \in Readings : row[r] = "unsent" ~> r \in Delivered \cup abandoned

\* The gateway implements a buffer that loses only what it held, and never
\* takes a delivery back.
Abstract == INSTANCE StoreAndForward WITH
    held <- (Unsent \cup inflight) \ Delivered,
    delivered <- Delivered,
    lost <- Accepted \ (Unsent \cup inflight \cup Delivered)

ImplementsBuffer == Abstract!ASpec
=============================================================================
