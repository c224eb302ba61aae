--------------------------- MODULE FusionPipeline ---------------------------
(***************************************************************************)
(* The ingest path of infra/template.yaml: the IoT rule puts readings into *)
(* an SQS queue, invocations of lambda/fusion_engine.py take batches from  *)
(* it and update the detection table, operators set the status of a cell   *)
(* through lambda/dashboard_api.py, and lambda/dlq_replay.py sends dead    *)
(* letters back.  SQS, DynamoDB and the Lambda scheduler are the           *)
(* environment: at-least-once delivery, a batch that returns to the queue  *)
(* as a whole when its invocation fails, a redrive policy, eventually      *)
(* consistent reads and writes of whole items with no condition.           *)
(*                                                                         *)
(* A reading updates its cell in two steps, get_item and put_item, and any *)
(* other invocation or operator may write the cell between them.           *)
(***************************************************************************)
EXTENDS FusionScoring, FiniteSets

CONSTANTS
    Readings,
    Cells,
    Copies,       \* SQS messages, one for each time a reading is sent
    Workers,      \* concurrent invocations of the fusion engine
    NoReading, NoCopy,
    CellOf,       \* CellOf[r], ModalityOf[r], ScoreOf[r]: what process_reading
    ModalityOf,   \* computes from the body of reading r before it touches the
    ScoreOf,      \* table
    FormOf,       \* FormOf[r]: how the handler's validation sees the body
    BatchSize,
    MaxReceive,   \* maxReceiveCount
    Threshold,    \* HIGH_CONFIDENCE_THRESHOLD, in thousandths
    OperatorStatus,   \* the statuses operators ask for
    MaxUpdates    \* bound on operator updates

Forms == {"valid", "invalid", "nonobject"}
Status == {"unassigned", "searching", "cleared", "confirmed"}
Place == {"unused", "queue", "held", "dlq", "replaying", "replayed", "deleted"}

ASSUME PipelineAssumption ==
    /\ NoReading \notin Readings /\ NoCopy \notin Copies
    /\ CellOf \in [Readings -> Cells]
    /\ ModalityOf \in [Readings -> Modalities]
    /\ ScoreOf \in [Readings -> Score]
    /\ FormOf \in [Readings -> Forms]
    /\ BatchSize \in Nat \ {0} /\ MaxReceive \in Nat \ {0}
    /\ Threshold \in Nat /\ MaxUpdates \in Nat
    /\ OperatorStatus \subseteq Status

VARIABLES
    body, place, received,   \* per copy: its reading, where it is, ApproximateReceiveCount
    table,                   \* the detection table
    pc, batch, todo, current, snapshot, failed,   \* per invocation
    alerts,      \* what was published on the alert topic: cell and scores
    updates,     \* operator updates so far
    applied,     \* history: readings that reached the table
    dropped,     \* history: readings the handler discarded
    past,        \* history: the items a cell held, which get_item may still return
    overwritten, \* history: cells put from a snapshot that was no longer current
    lastScore, lastStatus,   \* history: the last score and status somebody wrote
    unalerted,   \* history: copies whose high-confidence put no publish followed yet
    interrupted  \* history: copies whose invocation ended between such a put and
                 \* its publish, killed or by an exception of put_item itself

sqs == <<body, place, received>>
worker == <<pc, batch, todo, current, snapshot, failed>>
written == <<past, overwritten, lastScore, lastStatus>>
history == <<applied, dropped, written, unalerted, interrupted>>
vars == <<sqs, table, worker, alerts, updates, history>>

-----------------------------------------------------------------------------
Item == [exists : BOOLEAN, score : [Modalities -> Score], fused : {p \in Int : p <= 1000},
         status : Status, site : BOOLEAN, confirmed_by : BOOLEAN]

\* The item get_or_create_cell starts from when the table has none; site is
\* whether the item has a site_id, without which no site lists it.
NewItem == [exists |-> FALSE, score |-> [m \in Modalities |-> 0], fused |-> 0,
            status |-> "unassigned", site |-> TRUE, confirmed_by |-> FALSE]

TypeOK ==
    /\ body \in [Copies -> Readings \cup {NoReading}]
    /\ place \in [Copies -> Place]
    /\ received \in [Copies -> 0 .. MaxReceive]
    /\ table \in [Cells -> Item]
    /\ pc \in [Workers -> {"idle", "next", "put", "alert"}]
    /\ batch \in [Workers -> SUBSET Copies]
    /\ todo \in [Workers -> SUBSET Copies]
    /\ current \in [Workers -> Copies \cup {NoCopy}]
    /\ snapshot \in [Workers -> Item]
    /\ failed \in [Workers -> BOOLEAN]
    /\ alerts \in SUBSET [cell : Cells, score : [Modalities -> Score]]
    /\ updates \in Nat
    /\ applied \in SUBSET Readings
    /\ dropped \in SUBSET Readings
    /\ past \in [Cells -> SUBSET Item]
    /\ overwritten \in SUBSET Cells
    /\ lastScore \in [Cells -> [Modalities -> Score]]
    /\ lastStatus \in [Cells -> Status]
    /\ unalerted \in SUBSET Copies
    /\ interrupted \in SUBSET Copies

Init ==
    /\ body = [k \in Copies |-> NoReading]
    /\ place = [k \in Copies |-> "unused"]
    /\ received = [k \in Copies |-> 0]
    /\ table = [c \in Cells |-> NewItem]
    /\ pc = [w \in Workers |-> "idle"]
    /\ batch = [w \in Workers |-> {}]
    /\ todo = [w \in Workers |-> {}]
    /\ current = [w \in Workers |-> NoCopy]
    /\ snapshot = [w \in Workers |-> NewItem]
    /\ failed = [w \in Workers |-> FALSE]
    /\ alerts = {}
    /\ updates = 0
    /\ applied = {}
    /\ dropped = {}
    /\ past = [c \in Cells |-> {}]
    /\ overwritten = {}
    /\ lastScore = [c \in Cells |-> NewItem.score]
    /\ lastStatus = [c \in Cells |-> NewItem.status]
    /\ unalerted = {}
    /\ interrupted = {}

-----------------------------------------------------------------------------
(* The queue.                                                              *)

\* A new message with the body of reading r.
Send(k, r) ==
    /\ place[k] = "unused"
    /\ body' = [body EXCEPT ![k] = r]

\* The IoT rule; the gateway may send one reading several times.
Ingest(k, r) ==
    /\ Send(k, r)
    /\ place' = [place EXCEPT ![k] = "queue"]
    /\ UNCHANGED <<received, table, worker, alerts, updates, history>>

\* Mutant of Receive: the redrive policy is not looked at.
ReceiveUncapped(w, B) ==
    /\ pc[w] = "idle"
    /\ B # {}
    /\ \A k \in B : place[k] = "queue"
    /\ Cardinality(B) <= BatchSize
    /\ place' = [k \in Copies |-> IF k \in B THEN "held" ELSE place[k]]
    /\ received' = [k \in Copies |-> IF k \in B THEN received[k] + 1 ELSE received[k]]
    /\ pc' = [pc EXCEPT ![w] = "next"]
    /\ batch' = [batch EXCEPT ![w] = B]
    /\ todo' = [todo EXCEPT ![w] = B]
    /\ failed' = [failed EXCEPT ![w] = FALSE]
    /\ UNCHANGED <<body, current, snapshot, table, alerts, updates, history>>

\* An invocation starts with a batch of messages; they stay invisible to the
\* others, since the visibility timeout outlasts the function's timeout.
Receive(w, B) ==
    /\ pc[w] = "idle"
    /\ B # {}
    /\ \A k \in B : place[k] = "queue" /\ received[k] < MaxReceive
    /\ Cardinality(B) <= BatchSize
    /\ place' = [k \in Copies |-> IF k \in B THEN "held" ELSE place[k]]
    /\ received' = [k \in Copies |-> IF k \in B THEN received[k] + 1 ELSE received[k]]
    /\ pc' = [pc EXCEPT ![w] = "next"]
    /\ batch' = [batch EXCEPT ![w] = B]
    /\ todo' = [todo EXCEPT ![w] = B]
    /\ failed' = [failed EXCEPT ![w] = FALSE]
    /\ UNCHANGED <<body, current, snapshot, table, alerts, updates, history>>

\* Mutant of Redrive: the dead letter queue is the queue itself.
RedriveToSource(k) ==
    /\ place[k] = "queue"
    /\ received[k] = MaxReceive
    /\ received' = [received EXCEPT ![k] = 0]
    /\ UNCHANGED <<body, place, table, worker, alerts, updates, history>>

\* A message received too often goes to the dead letter queue instead.
Redrive(k) ==
    /\ place[k] = "queue"
    /\ received[k] = MaxReceive
    /\ place' = [place EXCEPT ![k] = "dlq"]
    /\ UNCHANGED <<body, received, table, worker, alerts, updates, history>>

\* The invocation is over: the batch goes back to the queue, or is deleted.
Release(w, where) ==
    /\ place' = [k \in Copies |-> IF k \in batch[w] THEN where ELSE place[k]]
    /\ pc' = [pc EXCEPT ![w] = "idle"]
    /\ batch' = [batch EXCEPT ![w] = {}]
    /\ todo' = [todo EXCEPT ![w] = {}]
    /\ current' = [current EXCEPT ![w] = NoCopy]
    /\ snapshot' = [snapshot EXCEPT ![w] = NewItem]
    /\ failed' = [failed EXCEPT ![w] = FALSE]
    /\ UNCHANGED <<body, received, table, alerts, updates, applied, dropped, written, unalerted>>

-----------------------------------------------------------------------------
(* The fusion engine: handler and process_reading.                         *)

Reading(w) == body[current[w]]

\* The loop goes on with another record.
NextRecord(w) ==
    /\ pc' = [pc EXCEPT ![w] = "next"]
    /\ current' = [current EXCEPT ![w] = NoCopy]
    /\ snapshot' = [snapshot EXCEPT ![w] = NewItem]

\* A body with malformed JSON, missing fields or bad coordinates, an unknown
\* type, a reading its sensor module rejects: skipped.
Skip(w, k) ==
    /\ pc[w] = "next"
    /\ k \in todo[w]
    /\ FormOf[body[k]] = "invalid"
    /\ todo' = [todo EXCEPT ![w] = @ \ {k}]
    /\ dropped' = dropped \cup {body[k]}
    /\ UNCHANGED <<sqs, table, pc, batch, current, snapshot, failed, alerts, updates,
                   applied, written, unalerted, interrupted>>

\* A body that is JSON but not an object: payload.get raises outside every try,
\* and the invocation fails before the records behind it are read.
HandlerRaises(w, k) ==
    /\ pc[w] = "next"
    /\ k \in todo[w]
    /\ FormOf[body[k]] = "nonobject"
    /\ Release(w, "queue")
    /\ UNCHANGED interrupted

\* get_or_create_cell: get_item without ConsistentRead returns the item as it
\* is or as it was.
GetItem(w, k) ==
    /\ pc[w] = "next"
    /\ k \in todo[w]
    /\ FormOf[body[k]] = "valid"
    /\ \E item \in past[CellOf[body[k]]] \cup {table[CellOf[body[k]]]} :
            snapshot' = [snapshot EXCEPT ![w] = item]
    /\ current' = [current EXCEPT ![w] = k]
    /\ pc' = [pc EXCEPT ![w] = "put"]
    /\ todo' = [todo EXCEPT ![w] = @ \ {k}]
    /\ UNCHANGED <<sqs, table, batch, failed, alerts, updates, history>>

\* Mutant of Updated: the fused probability keeps the value of the snapshot.
UpdatedScoreOnly(item, r) ==
    [item EXCEPT !.exists = TRUE, !.score[ModalityOf[r]] = ScoreOf[r]]

\* Mutant of Updated: built from scratch, not from the item of the table.
UpdatedAfresh(item, r) ==
    LET score == [item.score EXCEPT ![ModalityOf[r]] = ScoreOf[r]]
    IN  [NewItem EXCEPT !.exists = TRUE, !.score = score, !.fused = Fused(score)]

\* The item after this reading: one new score, the fused probability again.
Updated(item, r) ==
    LET score == [item.score EXCEPT ![ModalityOf[r]] = ScoreOf[r]]
    IN  [item EXCEPT !.exists = TRUE, !.score = score, !.fused = Fused(score)]

\* Mutant of RaisesAlert: only when the probability crosses the threshold.
RaisesAlertOnCrossing(old, new) == new.fused >= Threshold /\ old.fused < Threshold

\* Every put at or above the threshold raises an alert, the first and the next.
RaisesAlert(old, new) == new.fused >= Threshold

\* What put_item does to the table: the whole item is written, whatever the
\* table holds by now.  After it comes the publish, or the call raises.
Put(w, raises) ==
    LET r == Reading(w)
        c == CellOf[r]
        new == Updated(snapshot[w], r)
    IN  /\ table' = [table EXCEPT ![c] = new]
        /\ past' = [past EXCEPT ![c] = past[c] \cup {table[c]}]
        /\ applied' = applied \cup {r}
        /\ overwritten' = IF table[c] # snapshot[w] THEN overwritten \cup {c} ELSE overwritten
        /\ lastScore' = [lastScore EXCEPT ![c][ModalityOf[r]] = ScoreOf[r]]
        /\ unalerted' = IF new.fused >= Threshold THEN unalerted \cup {current[w]} ELSE unalerted
        /\ interrupted' = IF new.fused < Threshold THEN interrupted
                          ELSE IF raises THEN interrupted \cup {current[w]}
                          ELSE interrupted \ {current[w]}

\* put_item returns.
PutItem(w) ==
    LET new == Updated(snapshot[w], Reading(w))
        high == RaisesAlert(snapshot[w], new)
    IN  /\ pc[w] = "put"
        /\ Put(w, FALSE)
        /\ snapshot' = [snapshot EXCEPT ![w] = IF high THEN new ELSE NewItem]
        /\ pc' = [pc EXCEPT ![w] = IF high THEN "alert" ELSE "next"]
        /\ current' = IF high THEN current ELSE [current EXCEPT ![w] = NoCopy]
        /\ UNCHANGED <<sqs, batch, todo, failed, alerts, updates, dropped, lastStatus>>

\* Mutant of PublishAlert: the alert is about what the cell holds now.
PublishFromTable(w) ==
    /\ pc[w] = "alert"
    /\ alerts' = alerts \cup {[cell |-> CellOf[Reading(w)],
                               score |-> table[CellOf[Reading(w)]].score]}
    /\ unalerted' = unalerted \ {current[w]}
    /\ NextRecord(w)
    /\ UNCHANGED <<sqs, table, batch, todo, failed, updates, applied, dropped, written,
                   interrupted>>

\* sns.publish, about the item just written.
PublishAlert(w) ==
    /\ pc[w] = "alert"
    /\ alerts' = alerts \cup {[cell |-> CellOf[Reading(w)], score |-> snapshot[w].score]}
    /\ unalerted' = unalerted \ {current[w]}
    /\ NextRecord(w)
    /\ UNCHANGED <<sqs, table, batch, todo, failed, updates, applied, dropped, written,
                   interrupted>>

\* The publish raises: the exception is printed and forgotten.
AlertFails(w) ==
    /\ pc[w] = "alert"
    /\ unalerted' = unalerted \ {current[w]}
    /\ NextRecord(w)
    /\ UNCHANGED <<sqs, table, batch, todo, failed, alerts, updates, applied, dropped, written,
                   interrupted>>

\* get_item or put_item raises: the table is as it was, or put_item took effect
\* although the answer was an error.
Stored == <<table, past, applied, overwritten, lastScore, unalerted, interrupted>>
Raises(w) == UNCHANGED Stored \/ Put(w, TRUE)

\* One of RETRYABLE_ERRORS: the record counts as failed.
TransientError(w) ==
    /\ pc[w] = "put"
    /\ Raises(w)
    /\ failed' = [failed EXCEPT ![w] = TRUE]
    /\ NextRecord(w)
    /\ UNCHANGED <<sqs, batch, todo, alerts, updates, dropped, lastStatus>>

\* Any other exception of process_reading (a tower lookup that fails, a missing
\* field, a connection that times out): the reading is logged and given up.
OtherError(w) ==
    /\ pc[w] = "put"
    /\ Raises(w)
    /\ dropped' = dropped \cup {Reading(w)}
    /\ NextRecord(w)
    /\ UNCHANGED <<sqs, batch, todo, failed, alerts, updates, lastStatus>>

\* All records handled: one failed record sends the whole batch back.
Finish(w) ==
    /\ pc[w] = "next"
    /\ todo[w] = {}
    /\ Release(w, IF failed[w] THEN "queue" ELSE "deleted")
    /\ UNCHANGED interrupted

\* The function times out, or its sandbox dies.
Kill(w) ==
    /\ pc[w] # "idle"
    /\ Release(w, "queue")
    /\ interrupted' = IF pc[w] = "alert" THEN interrupted \cup {current[w]} ELSE interrupted

-----------------------------------------------------------------------------
(* The dashboard and the replay function.                                  *)

\* The attributes update_cell_status sets; it creates the item when there is
\* none, then without scores and site_id.
StatusSet(item, status, by) ==
    [exists |-> TRUE, score |-> item.score, fused |-> item.fused, status |-> status,
     site |-> item.site /\ item.exists, confirmed_by |-> item.confirmed_by \/ by]

\* One update_item, atomic beside the puts of the engine.
UpdateStatus(c, status, by) ==
    /\ updates < MaxUpdates
    /\ status = "confirmed" => by
    /\ table' = [table EXCEPT ![c] = StatusSet(table[c], status, by)]
    /\ past' = [past EXCEPT ![c] = past[c] \cup {table[c]}]
    /\ lastStatus' = [lastStatus EXCEPT ![c] = status]
    /\ updates' = updates + 1
    /\ UNCHANGED <<sqs, worker, alerts, applied, dropped, overwritten, lastScore, unalerted,
                   interrupted>>

\* dlq_replay: a dead letter is received, sent to the main queue as a new
\* message, then deleted; an error between the two leaves it in the DLQ.
ReplayReceive(k) ==
    /\ place[k] = "dlq"
    /\ place' = [place EXCEPT ![k] = "replaying"]
    /\ UNCHANGED <<body, received, table, worker, alerts, updates, history>>

\* Mutant of ReplaySend: deleted before it is sent.
ReplayDeleteFirst(k, n) ==
    /\ place[k] = "replaying"
    /\ place[n] = "unused"
    /\ place' = [place EXCEPT ![k] = "deleted"]
    /\ UNCHANGED <<body, received, table, worker, alerts, updates, history>>

ReplaySend(k, n) ==
    /\ place[k] = "replaying"
    /\ Send(n, body[k])
    /\ place' = [place EXCEPT ![k] = "replayed", ![n] = "queue"]
    /\ UNCHANGED <<received, table, worker, alerts, updates, history>>

ReplayDelete(k) ==
    /\ place[k] = "replayed"
    /\ place' = [place EXCEPT ![k] = "deleted"]
    /\ UNCHANGED <<body, received, table, worker, alerts, updates, history>>

ReplayFails(k) ==
    /\ place[k] \in {"replaying", "replayed"}
    /\ place' = [place EXCEPT ![k] = "dlq"]
    /\ UNCHANGED <<body, received, table, worker, alerts, updates, history>>

-----------------------------------------------------------------------------
WorkerStep(w) ==
    \/ \E k \in Copies : Skip(w, k) \/ HandlerRaises(w, k) \/ GetItem(w, k)
    \/ PutItem(w) \/ PublishAlert(w) \/ AlertFails(w)
    \/ TransientError(w) \/ OtherError(w) \/ Finish(w) \/ Kill(w)

ReplayStep(k) ==
    \/ ReplayReceive(k) \/ ReplayDelete(k) \/ ReplayFails(k)
    \/ \E n \in Copies : ReplaySend(k, n)

Next ==
    \/ \E k \in Copies, r \in Readings : Ingest(k, r)
    \/ \E k \in Copies : Redrive(k) \/ ReplayStep(k)
    \/ \E w \in Workers : WorkerStep(w) \/ \E B \in SUBSET Copies : Receive(w, B)
    \/ \E c \in Cells, status \in OperatorStatus, by \in BOOLEAN : UpdateStatus(c, status, by)

Spec == Init /\ [][Next]_vars

\* SQS keeps offering a visible message until it is received or redriven, and
\* an invocation runs or is killed; operators and the manual replay promise
\* nothing.
Fairness ==
    /\ \A k \in Copies :
        WF_vars(Redrive(k)) /\ SF_vars(\E w \in Workers, B \in SUBSET Copies :
                                            k \in B /\ Receive(w, B))
    /\ \A w \in Workers : WF_vars(WorkerStep(w))

FairSpec == Spec /\ Fairness

-----------------------------------------------------------------------------
(* Properties.                                                             *)

Waiting == {r \in Readings :
    \E k \in Copies : body[k] = r /\ place[k] \notin {"unused", "deleted"}}
Sent == {r \in Readings : \E k \in Copies : body[k] = r}

\* A reading that entered the queue is in the table, discarded with a log line,
\* or still in a queue: no retry, kill, redrive or replay loses it.
EveryReadingAccountedFor == Sent \subseteq Waiting \cup applied \cup dropped

\* Every item is the outcome of one writer: the fused probability is that of
\* the scores beside it, and a confirmed cell names who confirmed it, however
\* reads and whole-item writes interleave.
ItemsAreConsistent ==
    \A c \in Cells :
        /\ table[c].fused = Fused(table[c].score)
        /\ table[c].status = "confirmed" => table[c].confirmed_by

\* No alert goes out on one modality alone, however strong: two corroborate it.
AlertsAreCorroborated ==
    \A a \in alerts : Corroborated(a.score) /\ Fused(a.score) >= Threshold

\* A message is deleted only after the alert of its last high-confidence put was
\* attempted, unless that very put was cut off: its invocation was killed before
\* the publish, or put_item raised although it had taken effect.
AlertAttemptedBeforeAck == \A k \in unalerted \ interrupted : place[k] # "deleted"

\* The last score of every modality and the last status set by an operator.
Accumulated(c) == table[c].score = lastScore[c] /\ table[c].status = lastStatus[c]

\* A cell whose puts never overlapped another write holds exactly the last
\* score of each modality and the operator's status.
ExactWithoutOverlap == \A c \in Cells \ overwritten : Accumulated(c)

\* "Multiple passes over the same place must accumulate" and "cell status is
\* updated by operators": no reading takes back what another one or an
\* operator wrote.
NothingReverted == \A c \in Cells : Accumulated(c)

\* A message does not circulate for ever: every invocation may fail, and the
\* message is still deleted or ends in the dead letter queue.
EveryMessageSettles ==
    \A k \in Copies : place[k] = "queue" ~> place[k] \in {"deleted", "dlq"}
=============================================================================
