# Verification of Operation Signal Forge

TLA+ models of Operation Signal Forge, the TLC runs that check them on small
instances and the theorems TLAPS proves about them for all instances.  Paths
below are those of the repository; a definition's comment names the function
it models and `PROJECT.json` gives its lines.

## The system

Two systems share the repository.

**The detection path** carries sensor readings from the field to the rescue
teams.

| Part | State | Operations | Talks to |
|------|-------|------------|----------|
| Field gateway (`lambda/field_gateway.py`) | SQLite table `reading_queue`, the MQTT connection object | collect loop, forward loop (connect, fetch a batch, publish, mark sent, prune) | sensors, AWS IoT Core over MQTT QoS 1 |
| Ingest queue, DLQ, replay (`infra/template.yaml`, `lambda/dlq_replay.py`) | SQS messages and their receive counts | IoT rule sends; redrive; replay of up to ten dead letters | gateway, fusion engine |
| Fusion engine (`lambda/fusion_engine.py`, Starlink and cell tower modules) | none between invocations; the detection table in DynamoDB | per record: validate, score, get item, fuse, put item, alert | SQS, DynamoDB, SNS, OpenCellID |
| Dashboard API (`lambda/dashboard_api.py`) | the detection table | list the cells of a site, update a cell's status | browsers |
| Subscription API (`lambda/subscription_api.py`) | table of subscriptions, SNS | subscribe, confirm, unsubscribe | users, SNS |

**The identity runtime** (`identity_runtime/`, `dapp_api/`) decides who may use
the advisory capabilities.

| Part | State | Operations | Talks to |
|------|-------|------------|----------|
| Trust registry (`trust_registry.py`, CLI `trust_gov.py`) | registry file, governance admins file, audit file | propose, review, approve, suspend, restore, revoke, set types, register admin; `issuer_allows_type` | governors, presentation, renewal |
| Nonce store (`nonce_store.py`) | one JSON file, a lock per process | issue, consume, purge | presentation |
| Presentation (`presentation.py`, `2ndservice.py`) | none | challenge, verify binding, present credential | nonce store, DID store, registry, status file, audit log |
| Credential status, renewal (`credential_status.py`, `renewal.py`) | status file | register, revoke, renew, rotate | issuers |
| Holder keys, DIDs, recovery (`holder_keys.py`, `did_*.py`, `recovery_*.py`) | DID documents, recovery requests | establish, rotate, request and approve recovery | holders, approvers |
| Audit (`presentation_audit.py`, `audit_governance.py`, `tamper_response.py`) | hash-chained log | append, seal, verify, purge | everything above |
| Authorization proof path (`zk_abstraction/`) | protocol catalog, scheme registry | verify a proof, build and validate evidence, evaluate the matrix, register, publish | verifiers |
| Verification levels | evidence log | classify, record | auditors |
| DApp API (`dapp_api/authz.py`, `app.py`) | sessions in memory | login, logout, authorize | browsers |
| Capability layer (`capability_layer/`) | none | advisory workflows | DApp API |

What makes the parts hard:

* **Concurrency without locks.**  The registry, status, DID and audit files and
  the detection table are read, changed in memory and written back whole.
  The nonce store locks, but only inside a process.
* **Crashes between two writes.**  Marking a row sent before the broker has the
  message; saving the registry before its audit record; putting an item before
  its alert; sending a replay before deleting the dead letter.
* **At-least-once delivery.**  The gateway, SQS and the replay all deliver a
  reading again; a batch is redelivered whole.
* **Time.**  Expiry, tolerance, retention and pruning use clocks read before
  locks are taken.
* **Sequences of legal calls.**  The registry's transitions are checked one by
  one; the life cycle they should add up to is written only in a comment.

What makes each part correct: no accepted reading is lost but in named
circumstances; the table accumulates readings and operator decisions; alerts are
corroborated and attempted; trust always comes from a governor and revocation
ends it; a nonce is accepted once; a rotated key or revoked credential no longer
presents; the audit trail explains the state; and no missing or failed proof
authorizes anything.  `PROJECT.json` lists the hazards at their lines with the
properties that cover them.

## Modules

| Module | What it is |
|--------|------------|
| `StoreAndForward` | Abstract buffer: readings are held, delivered, or lost while held; a delivery is final. |
| `FieldGateway` | The gateway: one action per step of the two loops, and the network, broker, client and clock as environment. |
| `FieldGatewayProofs` | Its inductive invariant and theorems. |
| `FusionScoring` | The scoring and fusion functions on integers. |
| `FusionPipeline` | SQS, concurrent invocations of the fusion engine, the detection table, operators, the alert topic and the DLQ replay. |
| `MCFusionPipeline` | Readings, scores and forms for TLC. |
| `FusionPipelineProofs` | Bounds and monotonicity of the fused probability; invariants and theorems of the pipeline. |
| `TrustRegistry`, `MCTrustRegistry` | Registry operations as check, load, save and audit steps of processes that may die. |
| `TrustRegistryProofs` | Theorems about the registry. |
| `OneTimeTokens` | Abstract challenge store: tokens are handed out and accepted once. |
| `NonceStore`, `MCNonceStore` | The nonce file, its temporary file, threads, processes and their locks. |
| `NonceStoreProofs` | A single process implements one-time tokens. |
| `CredentialLifecycle`, `MCCredentialLifecycle` | Minting, presentation, renewal, rotation and revocation over the registry and one status file. |
| `CredentialProofs` | Revocation and trust, for any number of processes and credentials. |
| `HolderKeys` | One holder's DID document, key rotation, recovery requests and possession proofs. |
| `HolderKeysProofs` | Replaced keys stay out of the document, proofs and recoveries. |
| `ProofVerification` | `verify_proof` and its four conditions beside changes of the scheme registry and the protocol catalog. |
| `RuntimePath` | From a verification result to an operation that proceeds: pure operators over `ProofVerification`. |
| `ProofVerificationProofs` | Theorems of both. |
| `AuditTrail` | The hash-chained log: append, purge, integrity check, deaths, alterations. |
| `Subscriptions` | One number's item in DynamoDB and its place in the SNS topic. |
| `Services` | `HolderKeys`, `ProofVerification` with `RuntimePath`, `AuditTrail` and `Subscriptions` side by side. |
| `MCServices` | Requests, policies and placements of threads for TLC. |
| `ServicesProofs` | The audit log and the subscriptions proved; the theorems of the other two for the same specification. |

### FieldGateway

`row[r]` follows a reading through the table: not collected, skipped by a failing
INSERT, unsent, sent, pruned.  `pc`, `batch` and `current` are the forward loop's
position and locals; `connected` is whether the connection object exists.  The
MQTT client's memory is `inflight`: `publish` puts the message there, `Arrive`
is its receipt by the broker, `PubAck` its removal.  An outage resets `arrived`,
so unacknowledged messages are sent again; `Crash` and a failing call
(`ForwardFails`) throw the client away, and what it had not delivered goes to
the history variable `abandoned`.  Faults of all kinds are counted so that
properties can speak of their absence; `MaxFaults` and `MaxClock` bound them.
Row order is by `queued_at` in ticks: rows of one tick come in any order, as in
SQL.

### FusionPipeline

A copy (`Copies`) is one SQS message; the same reading may be sent several
times.  `Receive` hands a batch to an idle invocation; the invisible messages
come back only when the invocation ends, because the visibility timeout (60 s)
outlasts the function timeout (30 s).  `GetItem` and `PutItem` are the two ends
of `process_reading`: the snapshot of the first is what the second writes.
`get_item` asks for no consistent read, so the snapshot is the item or one it
replaced (`past`).  `Skip`, `HandlerRaises`, `TransientError`, `OtherError` are the
handler's error paths; an error of `put_item` may come after the item was stored
(`Raises`), and a high-confidence put cut off in this way, or by a kill before its
publish, is remembered in `interrupted`.  `Finish` gives the whole batch back if one
record failed.  Records of a batch are taken in any order, as SQS promises none.
Scores come from `FusionScoring`, so the alert threshold meets real numbers.  The
scorers cap above only and the handler checks no reading's sign, so a score is any
integer up to one (`Score`) and a fused value may be negative; the instance has a
radar reading with a negative amplitude (`inverted`) beside the strong ones.

### TrustRegistry

An operation is `Request` (authority and status check), `Load`, `Save`, `Audit`,
or `EnsureRegistry` for `dev_issuer.py`, which checks and audits nothing.
`register_governance_admin` is `RegisterAdmin`, `LoadAdmins`, `SaveAdmins` over the
admins file, which nothing locks either: of two registrations that cross one is
lost, even of an admin who has granted types meanwhile.  So who may govern now
(`HasAuthority`) is not who ever could: `appointed` remembers every registration that
was saved and by whom, and `Governors` are those it traces back to the bootstrap
actor or an authz context.
`AllowedFrom` and `NewStatus` tabulate the nine functions.  The registry is a
function because every function of the module uses the first entry of an issuer;
an entry that a racing `propose_issuer` appends behind another is shadowed.
`stale` records the issuers whose entry was written from a check or a load that
another process had outdated, `unaudited` those changed without a record.

### NonceStore

`Begin` reads the clock and waits; `Read` takes the process's lock, reads the file
and computes the new dictionary; `WriteTmp` and `Rename` are the two halves of
`_write`; `Return` hands out the challenge or accepts the presentation.
`ProcessOf` groups threads into processes: one for all, or one each.

### CredentialLifecycle

A call (`op`) is a presentation, renewal, rotation, mint or revocation; `pc` is
where it is between its reads.  `CheckTrust` asks the registry, `CheckExpiry` the
clock, `Accept` and `Eligible` the status file, `Issue` the registry again.  A change of the status
file is `Load` (the whole file), `Truncate` (`write_text` opens it) and `Write`;
after a write between the two, the text may be a mixture that does not parse, and
every reader then raises.  `rotate_credential` registers the replacement, looks
the old credential up and revokes it in a second change.  `age` counts the
renewal window and the expiry in three steps instead of seconds.  Histories say
what was promised: `revoked` and `retired` ids, the pairs `seen` allowed while a
call checked, and `overwritten` for what a process that had loaded the file
before a revocation took back.  `CheckTrust`'s renewal and rotation ask with the
issuer the code passes at each place (`Pair`).

### HolderKeys

The document is its active key and its retired ones, since rotation only appends
methods.  `Resolve`, `BeginPut`, `Put` are `rotate_holder_key` around the two
halves of `write_text`; `LoadRequests`, `BeginSave`, `SaveRequests` are those of
the request file around it in `approve_and_execute`.  A failing rotation rejects
the request, a death leaves it as it was.  `Bind` is `verify_subject_binding`:
the key is compared with the resolved document, the nonce is consumed later.

### ProofVerification and RuntimePath

One verification runs (`Begin`, `ResolveScheme`, `Validate`, `CheckMinimum`,
`CheckPublic`, `CheckProof` or `Raises`, one step for each question it asks the
registry) while other threads register schemes, set minimum versions, set allowed
protocols and publish contracts.  `publish` is `LookUp` and `Store`: two threads may
both find no contract under a key and both store one, and `crossed` has the keys
where that may happen.  A request says what matters of it: which flaws its public
inputs have (`large` is a revision at or above the modulus of some schemes,
`bounded`), whether they bear the claim, whether context, revision and binding agree,
whether the proof was made for them, and whether its caller asks for the active
policy (`strict`, the default of `require_policy_match`).  `granted` records what the
registry granted at some moment of the call.  `RuntimePath` computes, from the
result, event selection over a list of events in which one may be twice, evidence
package, matrix and the claim-based authorizer; one result may serve several
operations, and the caller of `run_runtime_proof_path` may replace the operation or the
event after the selection.
Notes for a reader of the code: the taxonomy has a `STALE` class that nothing
produces; an `UNSUPPORTED_PROTOCOL_ID` is reported as `UNSUPPORTED_PROTOCOL`
because the mapping compares prefixes; the default matrix policy's supported
scheme ids do not contain `mock-digest`.

### AuditTrail

A hash is the sequence of the records it commits to, so equal hashes mean equal
histories.  `BeginAppend` takes the lock of the process and reads the last hash,
`AppendLine` writes; `processOf` places the threads in one process or two.  A
purge appends its own record, then `List`, `Empty` and `Rewrite` without the lock;
which records have expired is any set, and grows.  A death may leave half a line,
to which the next one is glued; `CheckAuditIntegrity` reads `Limit` lines (100,000
in the code) and verifies them from genesis, so a longer log raises alarms by
itself, each of which `LogFailure` appends to it.  `raced` says that since the log was
last sealed whole an append overlapped one of another process or a purge, in the
same process or not, or two purges overlapped, or a line was torn or altered;
`excused` has the records that were appended beside a purge, glued to a torn line or
held by a purge that died.

### Subscriptions

An invocation reads the item (`Begin`), or, without a consistent read, one it replaced
(`former`), goes to Twilio or SNS, and writes the item
(`PutItem`, `SaveConfirmed`, `SaveUnsubscribed`) without a condition.  A failing
SNS call may have taken effect or not; `handle_unsubscribe` goes on after one.
`apart` holds from the moment SNS failed, a call died between SNS and the item, or
an item was written that had changed since it was read, until a confirmation that
nothing disturbed.

## Runs

| Run | Instance | Shows |
|-----|----------|-------|
| `gateway` | 2 readings, batches of 2, 3 faults | Safety, refinement of the buffer, and that every queued reading is delivered or given up with its client. |
| `gateway_loss` | one crash suffices | **Violated**: "nothing is lost". |
| `pipeline` | radar, thermal and negative radar reading on one cell, 2 messages, 2 invocations, 2 receives, 1 operator update | Accounting of readings, consistent items, corroborated and attempted alerts, no change undone but by an overlapping write. |
| `pipeline_settles` | a valid, a skipped and a raising body | Every message is deleted or dead-lettered. |
| `pipeline_overlap` | two overlapping writers | **Violated**: passes accumulate, operators set the status. |
| `registry` | an issuer and the dev issuer, 2 processes, 2 actors, 4 operations or registrations of admins | Trust comes from governors, revocation holds unless stale, audit records balance. |
| `registry_revoked` | one issuer, 2 processes | **Violated**: revocation is terminal. |
| `registry_approval` | one issuer, 1 process | **Violated**: only approved issuers are active. |
| `nonces` | 2 nonces, 2 threads of one server, 4 ticks | One-time tokens, availability, replay recognition. |
| `nonces_workers` | 2 processes | **Violated**: multi-worker replay protection. |
| `credentials` | one credential from outside and two to be made, 2 processes, 3 calls | Revocation, trust and rotation over the shared status file. |
| `services` | keys: 3 keys, 2 processes, 1 recovery request, 1 presentation; proofs: 2 scheme versions, 2 protocols, 2 policies, 2 changes, 4 matrix policies, every naming of 2 events with lists of up to 2, an event replaced or not; audit: 3 records, 2 threads in one process or two, 1 fault, 2 lines read; subscriptions: 2 invocations, 4 calls | The properties of `HolderKeys`, `ProofVerification`, `RuntimePath`, `AuditTrail` and `Subscriptions`. |

`services` is one run of four state machines: `part` chooses in `ServicesInit` (module
`Services`, which takes the constants of all four) which of them acts, and the
others stay as they begin.  They share no state in the
program either.  Its requests differ from a right one in at most one field, which
reaches every branch of the four conditions.

**Bounds.**  Each of the violated properties needs at most two actors and one
fault, and each passing run has those and one more of something: a third
fault, a reading more than an alert needs, a fourth operation (propose, approve and two
that race), a clock that outlasts TTL, tolerance and retention, a
third call beside a rotation and a revocation that race, a third record beside a
purge.  The alert
threshold of the runs is 0.7 instead of 0.75, so that the strong radar and
thermal reading of the instance cross it together and neither does alone.  The
proofs remove the bounds for the properties they cover.

**Deadlock** is not checked (`CHECK_DEADLOCK FALSE`): the models stop when their
readings, operations or ticks are used up, as the bounds demand.

**Fairness.**  Gateway: the forward loop is an endless loop, so its steps are
weakly fair; the client and broker exchange messages while the network is up,
and outages end.  The collector, the clock and the faults are not fair, and the
faults are bounded.  Pipeline: SQS offers a visible message until it is taken
(strong fairness, since a message comes and goes as batches fail), a redrive
happens, an invocation runs on or is killed (weak fairness of the worker as a
whole: it may fail every time).  Nothing else is fair.

## What the violated runs found

1. `gateway_loss`: a reading is marked sent when `publish()` returns; its future
   is never awaited.  A restart before the PUBACK loses it.  During an outage the
   forward loop keeps draining the disk queue into the client's memory, since
   `ensure_connected` asks for the network only without a connection object.
2. `pipeline_overlap`: get, change, put without a condition: a concurrent reading
   or an operator's status is reverted.
3. `registry_revoked`: a process that loaded the registry before a revocation
   writes the issuer back.
4. `registry_approval`: propose, suspend, set types, restore: active without
   approval, no race needed.
5. `nonces_workers`: two processes accept one nonce.

## What the models show without a run of its own

The code also does the following, which a statement in the repository or the name of
a function would not let a reader expect.  The models contain each of them, and the
property named sets it apart by a named condition instead of promising it away.

1. `renewal.py:20`, "Revocation of A is never reversed by issuing B": any process that
   loaded the status file before a revocation writes the credential back as active
   (`overwritten`, excepted in `RevocationSticks`).
2. `trust_registry.py:28`, "revoked (terminal for this registration)": `dev_issuer.py:69`
   makes its issuer active whatever governors decided (`DevIssuers`, excepted in
   `RevokedUnlessStale` and `TrustComesFromGovernors`).  `RevokedIsTerminal` is false of
   it without a race.
3. `protocol_catalog.py:88`, "published contracts are immutable under their version
   key": two threads publishing different contracts both find none (line 121), and
   the second store (136) replaces the first (`crossed`, excepted in
   `ContractsStayUnlessCrossed`).
4. `runtime_proof_path.py:553`: the event of the package is replaced after the selection
   boundary and compared with nothing, so the operation proceeds on an event nobody
   named, selected or inventoried, where an overridden operation is refused as
   mismatched (`override`, excepted in `ProceedingIsGrounded` for the event only).  The
   docstring calls the parameter a seam for negative tests (line 476).
5. `audit_governance.py:239`: a purge and an append of one process that cross break the
   chain, because the purge does not take the append lock (`raced`, excepted in
   `ChainHolds`), and an event logged while the file is empty is lost (`excused`,
   excepted in `EventsAreKept`).
6. `audit_governance.py:234`: a purge seals an altered line again without having verified
   it.  That an altered line shows until then follows from what a hash is.
7. `tamper_response.py:53`: an intact log of more than 100,000 lines is reported as broken
   (`Len(log) > Limit`, excepted in `AlertsAreOfBrokenChains`).
8. `fusion_engine.py:56`, "Signal scoring (0.0 - 1.0)": three scorers have no lower bound,
   and a reading with a negative field lowers the fused value of its cell, below zero
   when it is alone there.
9. `nonce_store.py:185`: the purge removes a challenge that `consume` would still accept
   for 30 seconds of clock drift (`HandedStaysUsable` ends at the expiry).
10. `fusion_engine.py:227`: a kill between put and publish, or an error of a put that took
   effect, loses the alert when the retry finds the cell below the threshold or never
   comes (`interrupted`, excepted in `AlertAttemptedBeforeAck`).
11. `trust_registry.py:600`: a process that dies between save and audit leaves a change
   without a record (`unaudited`, excepted in `AuditBalances`).

## Proofs

TLAPS checks the theorems of the `*Proofs` modules for every value of the
constants that the named assumptions (`GatewayAssumption`, ...) allow.

* **Gateway.**  `LossOnlyByAbandonment` is not inductive: marking a row is harmless
  only because its message is with the client or the broker, a PUBACK because the
  broker has the message, collecting because nobody saw the reading before.
  `GatewayInv` adds those facts; each action preserves it, and it implies the two
  loss properties and the step simulation of `StoreAndForward`.  `OldestFirst` needs
  `OrderInv` (what waits outside the batch is no older than what is in it, and no
  reading is stamped later than the clock); `DuplicatesNeedFault` needs `PaidFor` (a
  reading that may still arrive has arrived at most once for each fault).
* **Scoring.**  Every scorer returns at most one, for readings of any sign
  (`ScorersStayBelowOne`), which is all `PipelineAssumption` asks of scores.
  `fuse_scores` never exceeds one, and returns a probability for scores that are not
  negative (`FusedIsProbability`); above 0.58 it needs two active modalities (one alone contributes at most 0.4 of the weighted sum, or 0.58 with
  the others just below the 0.3 that makes them active); stronger radar, thermal or
  acoustic evidence never lowers it.  A Starlink score may: the first one scales
  the other three down.
* **Pipeline.**  `Shape` (types, bodies known, batches held and disjoint) carries
  every other invariant.  `EveryReadingAccountedFor` needs `Handled` (a message of
  a batch is still to do, being put, failed, or done) and `LiveOrDone`, which does
  not count on a replayed original.  Items are consistent in the table because they
  are in every snapshot (`ItemsInv`).  `AlertsAreCorroborated` is proved from
  `HighThreshold` (a threshold above 0.58; the template says 0.75) and the scoring
  theorem.  `AlertAttemptedBeforeAck` needs that a put without a publish, unless it is
  in `interrupted`, still has its invocation at the publish (`AttemptPending`).  `ExactWithoutOverlap` is
  inductive with `Shape`.
* **Registry.**  An operation in progress passed its check (`OperationsChecked`) and
  its loaded file shows the checked status unless the issuer is in `stale`
  (`LoadedAsChecked`): so a save that takes a revocation back is stale, or is
  `dev_issuer.py`'s.  `TrustComesFromGovernors` holds of the loaded files and of
  the types of operations in progress as well (`GrantsInv`), since a lost update
  brings those back.  It needs that whoever is in the admins file, or in a list a
  registration has loaded or in its hands, is a governor (`GovernanceInv`), and that
  governors are never fewer than before, whatever a lost registration does to the
  file.  `AuditBalances` is not inductive while operations are under
  way: `BalanceInv` counts what has saved and not logged as if its record were
  there, and holds at every step, because a save that is not stale finds the
  status its check found, and so leaves it as its record will say
  (`OperationsChecked`, `LoadedAsChecked`).  It also carries that finitely many
  processes are at work, so `Clients` may be infinite.
* **Nonce store.**  Proved for threads that share one process (`OneLock`); the run
  `nonces_workers` shows what fails without it.  The lock holder writes what the
  file asks for (`LockInv`); a nonce being issued is in nobody's hands
  (`CallsInv`); a nonce is spent from the rename that consumes it and not only from
  the acceptance (`OnceInv`).  That gives the step simulation of `OneTimeTokens`.
  `HandedStaysUsable` also needs `LongRetention`, a retention no shorter than the
  time to live (a day against five minutes): a consume that died between its
  rename and its return leaves a consumed record that the purge may take earlier
  otherwise.

* **Credentials.**  `RevocationSticks` needs to know of every process past its `Load`
  that what it holds shows all revocations but those in `since`, and that its write
  goes where `overwritten` will record it; `NothingAfterRevocation` follows with
  "a late call was revoked when it began".  `AlwaysVouchedFor` needs that a passed
  check is remembered in `seen` until the answer.  `ReturnedRotationRetires` needs
  that a call about to return has revoked, by itself or another (`retired` is
  contained in `revoked`).
* **Holder keys.**  `HolderInv`: keys in the hands of rotations are fresh and pairwise
  different (`FreshKeys`), so that whichever rotation writes last, its key was never
  replaced; a late possession proof never gets past `Resolve` (`LateProofs`); and
  every copy of the request file, stored or loaded, calls a request completed only
  when the key it was filed against has been replaced (`RequestsSound`).  Lost
  updates of either file cannot undo that.
* **Proof path.**  The invariant follows the four conditions through the call: a C4 that
  passed has its three grants, a key under which `EvaluateC4` found a contract is never
  without one again (`StoresContent`), a C2 that passed a large revision was granted
  `wide`, and an accepted conclusion needs all four to pass.  `ContractsStay` needs
  `PublisherIsAlone`: of a key that is not in `crossed` one thread at most is between
  look-up and store.  Event selection is proved for lists of any length and any set of
  events.
* **Audit log.**  `ChainHolds` needs that where nothing overlapped only one thread is between
  reading the file and writing it, and that an append of it has read the last line's
  hash (`Alone`), which the lock gives for the threads of one process (`OneInLock`).
  Such an append continues from the last line (a sequence's `Append` is the next hash),
  and a purge that nobody crossed leaves `Resealed(kept)`, which is a chain of what it
  kept (`ResealedIsAChain`).  `AlertsAreOfBrokenChains` follows: a check that reads the
  whole of such a log finds a chain.  `EventsAreKept` is not inductive: while a purge has
  emptied the file, the events are only in its memory.  `PurgesHold` says that every
  purge past its listing holds all that is owed (returned, neither expired nor
  excused); the listing establishes it since `FilterExpired` drops the expired
  records and no other (`FilterKeeps`), an append beside a purge is excused, and a
  listing of an emptied file excuses everything.  `FilterExpired` numbers the places
  it keeps by how many come no later; `Ranks` proves that this is a numbering.
* **Subscriptions.**  The two properties speak of moments when no call is between SNS
  and its write.  `NumbersInv` adds the moments within: as long as no confirmation is
  there, the topic holds the number only under the ARN of a confirmed item, and an
  unsubscription that is about to write an item nobody changed has emptied the
  topic; a `put_item` never follows a read of a confirmed item.
* **Services.**  Every theorem about the four parts is one about `ServicesSpec`, from
  `ServicesAssumption`.  Those of the holder's keys are taken over: a step of
  `Services` is one of `HolderKeys` or leaves its variables alone (`HolderPart`).

Only model-checked: liveness under fairness (`EventuallyForwarded`,
`EveryMessageSettles`), which TLAPS does not do, and the violated properties, which
are false.  Every invariant and every other action property of a passing run is a
theorem.

## Not modelled, and why

Pure data (field arithmetic, encodings, the wording of alerts and audit
records), the browser front ends, the capability layer (read-only) and the
static phase 3 definitions have no behaviour to check.  The DApp server handles
one request at a time over a dictionary of tokens, and the verification levels
classify records by tables: nothing in them depends on another actor's step.
`migration.py` and `fail_closed_verifier.py` are called by nothing of the proof
path; `retention_governance.py` keeps a file of its own.

Inside the modelled parts: a registry or nonce file torn by a crash in
`write_text` (the same write is modelled for the status file, the DID document,
the request file and the audit log), a poisoned row at the gateway, SQS message
retention, `list_cells_for_site`, and the privacy and data-request routes of the
subscription API, which answer with a text.  One holder, one number and one
status file stand for all: no code relates two of them.

## What is left

1. A torn registry file, and with it the trust checks that raise.
2. `migration.py` and `fail_closed_verifier.py`, once the proof path calls them.
