----------------------------- MODULE NonceStore ------------------------------
(***************************************************************************)
(* FileNonceStore of identity_runtime/nonce_store.py and its use by        *)
(* identity_runtime/presentation.py: a challenge is issued with a nonce,   *)
(* and a presentation whose signature holds is accepted when the store     *)
(* consumes its nonce.                                                     *)
(*                                                                         *)
(* Threads of one process take the process's lock around the read, the     *)
(* change and the write of the file; processes that share the file share   *)
(* nothing else.  A write goes to <file>.tmp, the same name for everyone,  *)
(* and is then renamed.  Each operation reads the clock before it waits    *)
(* for the lock.                                                           *)
(***************************************************************************)
EXTENDS Integers, FiniteSets

CONSTANTS
    Nonces, Audiences,
    Threads, Processes,
    ProcessOf,      \* ProcessOf[t]: the process of thread t
    Free,           \* no thread
    NoFile,         \* <file>.tmp does not exist
    TTL, Skew, Retention,   \* ttl_seconds, the 30 s tolerance, the retention of
                            \* consumed records, in clock ticks
    MaxClock        \* bound on the clock

ASSUME NonceAssumption ==
    /\ ProcessOf \in [Threads -> Processes]
    /\ Free \notin Threads
    /\ Audiences # {}
    /\ TTL \in Nat /\ Skew \in Nat /\ Retention \in Nat /\ MaxClock \in Nat

VARIABLES
    file, tmp,      \* the store, and the file it is written to first
    lock,           \* per process: the thread that holds its lock
    pc, req, data,  \* per thread: where it is, its call, the dict it will write
    clock,
    handed,         \* nonces returned to a caller
    drawn,          \* history: nonces secrets.token_urlsafe has returned
    expires,        \* history: the expiry each nonce was issued with
    accepted,       \* history: how often each nonce was accepted
    accepted_at     \* history: the clock the last acceptance had read

thread == <<pc, req, data>>
store == <<file, tmp>>
past == <<drawn, expires, accepted, accepted_at>>
vars == <<store, lock, thread, clock, handed, past>>

-----------------------------------------------------------------------------
\* A record of the file; status "absent" when the nonce is no key of it.
Entry == [status : {"absent", "pending", "consumed"}, audience : Audiences,
          expires_at : Nat, consumed_at : Nat]
Dict == [Nonces -> Entry]
SomeAudience == CHOOSE a \in Audiences : TRUE
NoEntry == [status |-> "absent", audience |-> SomeAudience, expires_at |-> 0, consumed_at |-> 0]
Empty == [n \in Nonces |-> NoEntry]

Call == [kind : {"issue", "consume"}, nonce : Nonces, audience : Audiences, now : Nat]
            \cup [kind : {"purge"}, now : Nat]
NoCall == [kind |-> "none"]

TypeOK ==
    /\ file \in Dict
    /\ tmp \in Dict \cup {NoFile}
    /\ lock \in [Processes -> Threads \cup {Free}]
    /\ pc \in [Threads -> {"idle", "waiting", "write", "rename", "return"}]
    /\ req \in [Threads -> Call \cup {NoCall}]
    /\ data \in [Threads -> Dict]
    /\ clock \in Nat
    /\ handed \in SUBSET Nonces
    /\ drawn \in SUBSET Nonces
    /\ expires \in [Nonces -> Nat]
    /\ accepted \in [Nonces -> Nat]
    /\ accepted_at \in [Nonces -> Nat]

Init ==
    /\ file = Empty
    /\ tmp = NoFile
    /\ lock = [p \in Processes |-> Free]
    /\ pc = [t \in Threads |-> "idle"]
    /\ req = [t \in Threads |-> NoCall]
    /\ data = [t \in Threads |-> Empty]
    /\ clock = 0
    /\ handed = {}
    /\ drawn = {}
    /\ expires = [n \in Nonces |-> 0]
    /\ accepted = [n \in Nonces |-> 0]
    /\ accepted_at = [n \in Nonces |-> 0]

-----------------------------------------------------------------------------
(* The calls: the clock is read, then the thread waits for the lock.       *)

Begin(t, call) ==
    /\ pc[t] = "idle"
    /\ pc' = [pc EXCEPT ![t] = "waiting"]
    /\ req' = [req EXCEPT ![t] = call]
    /\ UNCHANGED <<store, lock, data, clock, handed, accepted, accepted_at>>

\* issue, with a nonce nobody has seen.
Issue(t, n, a) ==
    /\ n \notin drawn
    /\ drawn' = drawn \cup {n}
    /\ expires' = [expires EXCEPT ![n] = clock + TTL]
    /\ Begin(t, [kind |-> "issue", nonce |-> n, audience |-> a, now |-> clock])

\* consume, on behalf of a presentation whose signature covers n and a.  The
\* holder signs challenges it was handed, and whoever saw one may replay it.
Consume(t, n, a) ==
    /\ n \in handed
    /\ UNCHANGED <<drawn, expires>>
    /\ Begin(t, [kind |-> "consume", nonce |-> n, audience |-> a, now |-> clock])

Purge(t) ==
    /\ UNCHANGED <<drawn, expires>>
    /\ Begin(t, [kind |-> "purge", now |-> clock])

-----------------------------------------------------------------------------
(* Under the lock.                                                         *)

\* Mutant of Consumable: the status is not looked at.
ConsumableTwice(e, call) ==
    /\ e.status # "absent"
    /\ e.audience = call.audience
    /\ call.now <= e.expires_at + Skew

\* The checks of consume: known, right audience, not consumed, not expired.
Consumable(e, call) ==
    /\ e.status = "pending"
    /\ e.audience = call.audience
    /\ call.now <= e.expires_at + Skew

\* Mutant of Purgeable: whatever has expired goes, consumed or not.
PurgeableExpired(e, now) == e.status # "absent" /\ e.expires_at < now

\* What purge_expired removes: a pending record past its expiry (with no
\* tolerance), a consumed one past the retention.
Purgeable(e, now) ==
    \/ e.status = "pending" /\ e.expires_at < now
    \/ e.status = "consumed" /\ e.consumed_at + Retention < now

\* Mutant of Result: a purge marks what it should remove.
ResultMarksExpired(dict, call) ==
    CASE call.kind = "issue" ->
            [dict EXCEPT ![call.nonce] =
                [status |-> "pending", audience |-> call.audience,
                 expires_at |-> call.now + TTL, consumed_at |-> 0]]
      [] call.kind = "consume" -> [dict EXCEPT ![call.nonce].status = "consumed"]
      [] call.kind = "purge" ->
            [n \in Nonces |-> IF Purgeable(dict[n], call.now)
                              THEN [dict[n] EXCEPT !.status = "expired"] ELSE dict[n]]

\* The dict after the call.
Result(dict, call) ==
    CASE call.kind = "issue" ->
            [dict EXCEPT ![call.nonce] =
                [status |-> "pending", audience |-> call.audience,
                 expires_at |-> call.now + TTL, consumed_at |-> 0]]
      [] call.kind = "consume" ->
            [dict EXCEPT ![call.nonce].status = "consumed",
                         ![call.nonce].consumed_at = call.now]
      [] call.kind = "purge" ->
            [n \in Nonces |-> IF Purgeable(dict[n], call.now) THEN NoEntry ELSE dict[n]]

Refused(t) == req[t].kind = "consume" /\ ~Consumable(file[req[t].nonce], req[t])

\* Mutant of MayEnter: no lock.
MayEnterAnyway(t) == pc[t] = "waiting"

MayEnter(t) == pc[t] = "waiting" /\ lock[ProcessOf[t]] = Free

\* _read, the checks and the change.
Read(t) ==
    /\ MayEnter(t)
    /\ ~Refused(t)
    /\ lock' = [lock EXCEPT ![ProcessOf[t]] = t]
    /\ data' = [data EXCEPT ![t] = Result(file, req[t])]
    /\ pc' = [pc EXCEPT ![t] = "write"]
    /\ UNCHANGED <<store, req, clock, handed, past>>

\* The call is over: it gives the lock back if it has it.
Leave(t) ==
    /\ pc' = [pc EXCEPT ![t] = "idle"]
    /\ req' = [req EXCEPT ![t] = NoCall]
    /\ data' = [data EXCEPT ![t] = Empty]
    /\ lock' = [p \in Processes |-> IF lock[p] = t THEN Free ELSE lock[p]]

\* consume returns False: nothing is written.
Refuse(t) ==
    /\ MayEnter(t)
    /\ Refused(t)
    /\ Leave(t)
    /\ UNCHANGED <<store, clock, handed, past>>

\* The first half of _write: the temporary file, whoever else is using it.
WriteTmp(t) ==
    /\ pc[t] = "write"
    /\ tmp' = data[t]
    /\ pc' = [pc EXCEPT ![t] = "rename"]
    /\ UNCHANGED <<file, lock, req, data, clock, handed, past>>

\* The second half: the rename, after which the lock is free again.  It raises
\* when somebody else has renamed the temporary file.
Rename(t) ==
    /\ pc[t] = "rename"
    /\ IF tmp = NoFile
       THEN /\ UNCHANGED store
            /\ Leave(t)
       ELSE /\ file' = tmp
            /\ tmp' = NoFile
            /\ lock' = [lock EXCEPT ![ProcessOf[t]] = Free]
            /\ data' = [data EXCEPT ![t] = Empty]
            /\ pc' = [pc EXCEPT ![t] = "return"]
            /\ UNCHANGED req
    /\ UNCHANGED <<clock, handed, past>>

\* The call returns: a challenge is handed out, a presentation accepted.
Return(t) ==
    /\ pc[t] = "return"
    /\ handed' = IF req[t].kind = "issue" THEN handed \cup {req[t].nonce} ELSE handed
    /\ IF req[t].kind = "consume"
       THEN /\ accepted' = [accepted EXCEPT ![req[t].nonce] = @ + 1]
            /\ accepted_at' = [accepted_at EXCEPT ![req[t].nonce] = req[t].now]
       ELSE UNCHANGED <<accepted, accepted_at>>
    /\ Leave(t)
    /\ UNCHANGED <<store, clock, drawn, expires>>

\* A process dies and starts again: its lock and its calls are gone.
Crash(p) ==
    /\ \E t \in Threads : ProcessOf[t] = p /\ pc[t] # "idle"
    /\ pc' = [t \in Threads |-> IF ProcessOf[t] = p THEN "idle" ELSE pc[t]]
    /\ req' = [t \in Threads |-> IF ProcessOf[t] = p THEN NoCall ELSE req[t]]
    /\ data' = [t \in Threads |-> IF ProcessOf[t] = p THEN Empty ELSE data[t]]
    /\ lock' = [lock EXCEPT ![p] = Free]
    /\ UNCHANGED <<store, clock, handed, past>>

Tick ==
    /\ clock < MaxClock
    /\ clock' = clock + 1
    /\ UNCHANGED <<store, lock, thread, handed, past>>

Next ==
    \/ \E t \in Threads :
        \/ \E n \in Nonces, a \in Audiences : Issue(t, n, a) \/ Consume(t, n, a)
        \/ Purge(t) \/ Read(t) \/ Refuse(t) \/ WriteTmp(t) \/ Rename(t) \/ Return(t)
    \/ \E p \in Processes : Crash(p)
    \/ Tick

Spec == Init /\ [][Next]_vars

-----------------------------------------------------------------------------
(* Properties.                                                             *)

\* "Replay protection durable across process restarts (and multi-worker if they
\* share the file)": no nonce is accepted twice.
AcceptedAtMostOnce == \A n \in Nonces : accepted[n] <= 1

\* A challenge somebody holds stays usable until it expires or a consume has
\* written it: no other issue, consume, purge or crash takes it out of the file.
HandedStaysUsable ==
    \A n \in handed :
        accepted[n] = 0 /\ clock <= expires[n] =>
            file[n].status \in {"pending", "consumed"} /\ file[n].expires_at = expires[n]

\* As long as the retention lasts, a second presentation is recognised as a
\* replay and not taken for an unknown nonce.
ReplayIsRecognised ==
    \A n \in Nonces :
        accepted[n] > 0 /\ clock <= accepted_at[n] + Retention => file[n].status = "consumed"

\* The store hands out tokens that are accepted at most once.
Abstract == INSTANCE OneTimeTokens WITH Tokens <- Nonces, uses <- accepted

ImplementsOneTimeTokens == Abstract!TSpec
=============================================================================
