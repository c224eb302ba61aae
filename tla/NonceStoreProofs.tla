-------------------------- MODULE NonceStoreProofs ---------------------------
(***************************************************************************)
(* Proofs about NonceStore when the threads that use a file belong to one  *)
(* process, as the module's lock supposes: for any nonces, threads, times  *)
(* to live, and any number of crashes.                                     *)
(***************************************************************************)
EXTENDS NonceStore, TLAPS

USE NonceAssumption

OneLock == \A t, u \in Threads : ProcessOf[t] = ProcessOf[u]

-----------------------------------------------------------------------------
(***************************************************************************)
(* What one call makes of the dict.                                        *)
(***************************************************************************)
LEMMA CallKinds ==
    ASSUME NEW call \in Call
    PROVE  /\ call.kind \in {"issue", "consume", "purge"} /\ call.now \in Nat
           /\ call.kind # "purge" => call.nonce \in Nonces /\ call.audience \in Audiences
  BY DEF Call

LEMMA EmptyOK == Empty \in Dict
  <1>1. SomeAudience \in Audiences
    BY DEF SomeAudience
  <1> QED
    BY <1>1 DEF Empty, Dict, NoEntry, Entry

LEMMA ResultOK ==
    ASSUME NEW dict \in Dict, NEW call \in Call
    PROVE  /\ Result(dict, call) \in Dict
           /\ call.kind # "purge" =>
                \A n \in Nonces : n # call.nonce => Result(dict, call)[n] = dict[n]
           /\ call.kind = "issue" =>
                /\ Result(dict, call)[call.nonce].status = "pending"
                /\ Result(dict, call)[call.nonce].expires_at = call.now + TTL
           /\ call.kind = "consume" =>
                /\ Result(dict, call)[call.nonce].status = "consumed"
                /\ Result(dict, call)[call.nonce].consumed_at = call.now
                /\ Result(dict, call)[call.nonce].expires_at = dict[call.nonce].expires_at
           /\ call.kind = "purge" =>
                \A n \in Nonces : \/ Result(dict, call)[n] = dict[n]
                                  \/ /\ Purgeable(dict[n], call.now)
                                     /\ Result(dict, call)[n] = NoEntry
  <1>0. call.kind \in {"issue", "consume", "purge"}
    BY CallKinds
  <1>1. CASE call.kind = "issue"
    <2> DEFINE e == [status |-> "pending", audience |-> call.audience,
                     expires_at |-> call.now + TTL, consumed_at |-> 0]
    <2>1. call.nonce \in Nonces /\ e \in Entry
      BY <1>1, CallKinds DEF Entry
    <2>2. Result(dict, call) = [dict EXCEPT ![call.nonce] = e]
      BY <1>1 DEF Result
    <2>3. e.status = "pending" /\ e.expires_at = call.now + TTL
      OBVIOUS
    <2> HIDE DEF e
    <2> QED
      BY <1>1, <2>1, <2>2, <2>3 DEF Dict
  <1>2. CASE call.kind = "consume"
    <2> DEFINE e == [dict[call.nonce] EXCEPT !.status = "consumed", !.consumed_at = call.now]
    <2>1. call.nonce \in Nonces /\ e \in Entry
      BY <1>2, CallKinds DEF Entry, Dict
    <2>2. Result(dict, call) = [dict EXCEPT ![call.nonce] = e]
      BY <1>2, <2>1 DEF Result, Dict, Entry
    <2>3. e.status = "consumed" /\ e.consumed_at = call.now
          /\ e.expires_at = dict[call.nonce].expires_at
      BY <2>1 DEF Dict, Entry
    <2> HIDE DEF e
    <2> QED
      BY <1>2, <2>1, <2>2, <2>3 DEF Dict
  <1>3. CASE call.kind = "purge"
    <2>1. NoEntry \in Entry
      BY EmptyOK DEF Empty, Dict, NoEntry, Entry, SomeAudience
    <2>2. Result(dict, call) =
              [n \in Nonces |-> IF Purgeable(dict[n], call.now) THEN NoEntry ELSE dict[n]]
      BY <1>3 DEF Result
    <2> QED
      BY <1>3, <2>1, <2>2 DEF Dict
  <1> QED
    BY <1>0, <1>1, <1>2, <1>3

-----------------------------------------------------------------------------
(***************************************************************************)
(* Calls in progress: a nonce being issued is in nobody's hands yet and    *)
(* belongs to one issue, a nonce being consumed is in somebody's.          *)
(***************************************************************************)
Issuing(t) == pc[t] # "idle" /\ req[t].kind = "issue"
Consuming(t) == pc[t] # "idle" /\ req[t].kind = "consume"

CallsInv ==
    /\ \A t \in Threads : pc[t] # "idle" => req[t] \in Call /\ req[t].now <= clock
    /\ \A t \in Threads : Issuing(t) =>
            /\ req[t].nonce \in drawn \ handed
            /\ expires[req[t].nonce] = req[t].now + TTL
    /\ \A t, u \in Threads : Issuing(t) /\ Issuing(u) /\ req[t].nonce = req[u].nonce => t = u
    /\ \A t \in Threads : Consuming(t) =>
            /\ req[t].nonce \in handed
            /\ expires[req[t].nonce] <= req[t].now + TTL
    /\ handed \subseteq drawn
    /\ \A n \in drawn : expires[n] <= clock + TTL
    /\ \A n \in Nonces : accepted[n] > 0 => n \in handed

\* The thread that holds the lock writes what the file asks for.
LockInv ==
    \A t \in Threads :
        /\ pc[t] \in {"write", "rename"} =>
              /\ lock[ProcessOf[t]] = t
              /\ data[t] = Result(file, req[t])
              /\ ~Refused(t)
        /\ pc[t] = "rename" => tmp = data[t]

StoreInv == TypeOK /\ CallsInv /\ LockInv

LEMMA StoreInit == Init => StoreInv
  BY EmptyOK DEF Init, StoreInv, TypeOK, CallsInv, LockInv, Issuing, Consuming

LEMMA NonceTypesStep == TypeOK /\ CallsInv /\ [Next]_vars => TypeOK'
  <1> SUFFICES ASSUME TypeOK, CallsInv, [Next]_vars
               PROVE  TypeOK'
    OBVIOUS
  <1> USE DEF TypeOK
  <1>1. ASSUME NEW t \in Threads, NEW n \in Nonces, NEW a \in Audiences, Issue(t, n, a)
        PROVE  TypeOK'
    BY <1>1 DEF Issue, Begin, Call, store, past
  <1>2. ASSUME NEW t \in Threads, NEW n \in Nonces, NEW a \in Audiences, Consume(t, n, a)
        PROVE  TypeOK'
    BY <1>2 DEF Consume, Begin, Call, store, past
  <1>3. ASSUME NEW t \in Threads, Purge(t)
        PROVE  TypeOK'
    BY <1>3 DEF Purge, Begin, Call, store, past
  <1>4. ASSUME NEW t \in Threads, Read(t)
        PROVE  TypeOK'
    BY <1>4, ResultOK DEF Read, MayEnter, CallsInv, store, past
  <1>5. ASSUME NEW t \in Threads, Refuse(t)
        PROVE  TypeOK'
    BY <1>5, EmptyOK DEF Refuse, Leave, store, past
  <1>6. ASSUME NEW t \in Threads, WriteTmp(t)
        PROVE  TypeOK'
    BY <1>6 DEF WriteTmp, past
  <1>7. ASSUME NEW t \in Threads, Rename(t)
        PROVE  TypeOK'
    BY <1>7, EmptyOK DEF Rename, Leave, store, past
  <1>8. ASSUME NEW t \in Threads, Return(t)
        PROVE  TypeOK'
    BY <1>8, CallKinds, EmptyOK DEF Return, Leave, CallsInv, store, past
  <1>9. ASSUME NEW p \in Processes, Crash(p)
        PROVE  TypeOK'
    BY <1>9, EmptyOK DEF Crash, store, past
  <1>10. CASE Tick
    BY <1>10 DEF Tick, thread, store, past
  <1>11. CASE UNCHANGED vars
    BY <1>11 DEF vars, thread, store, past
  <1> QED
    BY <1>1, <1>2, <1>3, <1>4, <1>5, <1>6, <1>7, <1>8, <1>9, <1>10, <1>11 DEF Next

LEMMA CallsStep == TypeOK /\ CallsInv /\ [Next]_vars => CallsInv'
  <1> SUFFICES ASSUME TypeOK, CallsInv, [Next]_vars
               PROVE  CallsInv'
    OBVIOUS
  <1> USE DEF TypeOK, CallsInv, Issuing, Consuming
  <1>1. ASSUME NEW t \in Threads, NEW n \in Nonces, NEW a \in Audiences, Issue(t, n, a)
        PROVE  CallsInv'
    BY <1>1, CallKinds DEF Issue, Begin, Call, store, past
  <1>2. ASSUME NEW t \in Threads, NEW n \in Nonces, NEW a \in Audiences, Consume(t, n, a)
        PROVE  CallsInv'
    BY <1>2, CallKinds DEF Consume, Begin, Call, store, past
  <1>3. ASSUME NEW t \in Threads, Purge(t)
        PROVE  CallsInv'
    BY <1>3, CallKinds DEF Purge, Begin, Call, store, past
  <1>4. ASSUME NEW t \in Threads, Read(t)
        PROVE  CallsInv'
    <2>1. \A u \in Threads : (pc'[u] # "idle") = (pc[u] # "idle")
      BY <1>4 DEF Read, MayEnter
    <2>2. UNCHANGED <<req, clock, handed, drawn, expires, accepted>>
      BY <1>4 DEF Read, past
    <2> QED
      BY <2>1, <2>2
  <1>5. ASSUME NEW t \in Threads, Refuse(t)
        PROVE  CallsInv'
    BY <1>5 DEF Refuse, Leave, store, past
  <1>6. ASSUME NEW t \in Threads, WriteTmp(t)
        PROVE  CallsInv'
    BY <1>6 DEF WriteTmp, store, past
  <1>7. ASSUME NEW t \in Threads, Rename(t)
        PROVE  CallsInv'
    BY <1>7 DEF Rename, Leave, store, past
  <1>8. ASSUME NEW t \in Threads, Return(t)
        PROVE  CallsInv'
    BY <1>8, CallKinds DEF Return, Leave, store, past
  <1>9. ASSUME NEW p \in Processes, Crash(p)
        PROVE  CallsInv'
    BY <1>9 DEF Crash, store, past
  <1>10. CASE Tick
    <2>1. clock \in Nat /\ clock' = clock + 1
      BY <1>10 DEF Tick
    <2>2. UNCHANGED <<pc, req, handed, drawn, expires, accepted>>
      BY <1>10 DEF Tick, thread, past
    <2>3. \A t \in Threads : pc[t] # "idle" => req[t].now \in Nat
      BY CallKinds
    <2>4. \A n \in drawn : expires[n] \in Nat
      OBVIOUS
    <2>5. \A n \in drawn : expires[n] <= clock' + TTL
      BY <2>1, <2>4
    <2>6. \A t \in Threads : pc[t] # "idle" => req[t].now <= clock'
      BY <2>1, <2>3
    <2> QED
      BY <2>2, <2>5, <2>6
  <1>11. CASE UNCHANGED vars
    BY <1>11 DEF vars, thread, store, past
  <1> QED
    BY <1>1, <1>2, <1>3, <1>4, <1>5, <1>6, <1>7, <1>8, <1>9, <1>10, <1>11 DEF Next

LEMMA LockStep ==
    ASSUME OneLock
    PROVE  TypeOK /\ LockInv /\ [Next]_vars => LockInv'
  <1> SUFFICES ASSUME TypeOK, LockInv, [Next]_vars
               PROVE  LockInv'
    OBVIOUS
  <1> USE DEF TypeOK, LockInv, OneLock, Refused
  <1>1. ASSUME NEW t \in Threads, NEW n \in Nonces, NEW a \in Audiences, Issue(t, n, a)
        PROVE  LockInv'
    BY <1>1 DEF Issue, Begin, store, past
  <1>2. ASSUME NEW t \in Threads, NEW n \in Nonces, NEW a \in Audiences, Consume(t, n, a)
        PROVE  LockInv'
    BY <1>2 DEF Consume, Begin, store, past
  <1>3. ASSUME NEW t \in Threads, Purge(t)
        PROVE  LockInv'
    BY <1>3 DEF Purge, Begin, store, past
  <1>4. ASSUME NEW t \in Threads, Read(t)
        PROVE  LockInv'
    BY <1>4 DEF Read, MayEnter, store, past
  <1>5. ASSUME NEW t \in Threads, Refuse(t)
        PROVE  LockInv'
    BY <1>5 DEF Refuse, Leave, MayEnter, store, past
  <1>6. ASSUME NEW t \in Threads, WriteTmp(t)
        PROVE  LockInv'
    BY <1>6 DEF WriteTmp, store, past
  <1>7. ASSUME NEW t \in Threads, Rename(t)
        PROVE  LockInv'
    BY <1>7 DEF Rename, Leave, store, past
  <1>8. ASSUME NEW t \in Threads, Return(t)
        PROVE  LockInv'
    BY <1>8 DEF Return, Leave, store, past
  <1>9. ASSUME NEW p \in Processes, Crash(p)
        PROVE  LockInv'
    BY <1>9 DEF Crash, store, past
  <1>10. CASE Tick
    BY <1>10 DEF Tick, thread, store, past
  <1>11. CASE UNCHANGED vars
    BY <1>11 DEF vars, thread, store, past
  <1> QED
    BY <1>1, <1>2, <1>3, <1>4, <1>5, <1>6, <1>7, <1>8, <1>9, <1>10, <1>11 DEF Next

LEMMA StoreAlways ==
    ASSUME OneLock
    PROVE  Spec => []StoreInv
  <1>1. StoreInv /\ [Next]_vars => StoreInv'
    BY NonceTypesStep, CallsStep, LockStep DEF StoreInv
  <1> QED
    BY <1>1, StoreInit, PTL DEF Spec

\* The rename replaces the file with what the call makes of it.
LEMMA RenameResult ==
    ASSUME StoreInv, NEW t \in Threads, Rename(t)
    PROVE  /\ req[t] \in Call /\ req[t].now <= clock /\ ~Refused(t) /\ file \in Dict
           /\ UNCHANGED <<clock, handed, drawn, expires, accepted, accepted_at>>
           /\ \/ file' = file /\ pc' = [pc EXCEPT ![t] = "idle"]
                              /\ \A u \in Threads : u # t => req'[u] = req[u]
              \/ file' = Result(file, req[t]) /\ pc' = [pc EXCEPT ![t] = "return"] /\ req' = req
  BY DEF Rename, Leave, StoreInv, TypeOK, CallsInv, LockInv, store, past

-----------------------------------------------------------------------------
(***************************************************************************)
(* A nonce is spent from the rename that consumes it on, not only from the *)
(* acceptance: whoever reads the file later no longer finds it pending.    *)
(***************************************************************************)
Returning(t, n) == pc[t] = "return" /\ req[t].kind = "consume" /\ req[t].nonce = n

Spent(n) == accepted[n] > 0 \/ \E t \in Threads : Returning(t, n)

OnceInv ==
    \A n \in Nonces :
        /\ accepted[n] <= 1
        /\ Spent(n) => file[n].status # "pending"
        /\ \A t, u \in Threads : Returning(t, n) => /\ accepted[n] = 0
                                                    /\ Returning(u, n) => u = t

\* Every step but a rename and a return.
LEMMA OtherStep ==
    ASSUME StoreInv, Next,
           ~ \E t \in Threads : Rename(t) \/ Return(t)
    PROVE  /\ UNCHANGED <<file, handed, accepted, accepted_at>>
           /\ clock <= clock' /\ clock' \in Nat
           /\ \A t \in Threads : pc'[t] = "return" => pc[t] = "return" /\ req'[t] = req[t]
           /\ drawn \subseteq drawn' /\ \A n \in drawn : expires'[n] = expires[n]
  <1> USE DEF StoreInv, TypeOK, store, past, thread
  <1>1. ASSUME NEW t \in Threads, NEW n \in Nonces, NEW a \in Audiences,
               Issue(t, n, a) \/ Consume(t, n, a) \/ Purge(t)
        PROVE  /\ UNCHANGED <<file, handed, accepted, accepted_at>>
               /\ clock' = clock
               /\ \A u \in Threads : pc'[u] = "return" => pc[u] = "return" /\ req'[u] = req[u]
               /\ drawn \subseteq drawn' /\ \A m \in drawn : expires'[m] = expires[m]
    BY <1>1 DEF Issue, Consume, Purge, Begin
  <1> QED
    BY <1>1 DEF Next, Purge, Begin, Read, Refuse, Leave, WriteTmp, Crash, Tick

LEMMA OnceStep == StoreInv /\ OnceInv /\ [Next]_vars => OnceInv'
  <1> SUFFICES ASSUME StoreInv, OnceInv, [Next]_vars
               PROVE  OnceInv'
    OBVIOUS
  <1> USE DEF OnceInv, Spent, Returning
  <1>1. ASSUME NEW t \in Threads, Rename(t)
        PROVE  OnceInv'
    <2>0. /\ req[t] \in Call /\ file \in Dict /\ ~Refused(t)
          /\ accepted' = accepted /\ accepted \in [Nonces -> Nat]
      BY <1>1, RenameResult DEF StoreInv, TypeOK
    <2>1. CASE file' = file /\ pc' = [pc EXCEPT ![t] = "idle"]
                            /\ \A u \in Threads : u # t => req'[u] = req[u]
      <3>1. \A u \in Threads, n \in Nonces : Returning(u, n)' => Returning(u, n)
        BY <2>1 DEF StoreInv, TypeOK
      <3> HIDE DEF Returning
      <3> QED
        BY <2>0, <2>1, <3>1
    <2>2. CASE file' = Result(file, req[t]) /\ pc' = [pc EXCEPT ![t] = "return"] /\ req' = req
      <3> DEFINE n == req[t].nonce
      <3>1. \A u \in Threads, m \in Nonces :
                Returning(u, m)' <=> IF u = t THEN req[t].kind = "consume" /\ m = n
                                     ELSE Returning(u, m)
        BY <2>2 DEF StoreInv, TypeOK
      <3>2. pc[t] = "rename"
        BY <1>1 DEF Rename
      <3>3. CASE req[t].kind = "issue"
        <4>1. n \in Nonces /\ ~Spent(n)
          BY <2>0, <3>2, <3>3, CallKinds DEF StoreInv, CallsInv, TypeOK, Issuing, Consuming
        <4>2. \A m \in Nonces : m # n => file'[m] = file[m]
          BY <2>0, <2>2, <3>3, ResultOK
        <4> HIDE DEF Returning, n
        <4> QED
          BY <2>0, <3>1, <3>3, <4>1, <4>2
      <3>4. CASE req[t].kind = "consume"
        <4>1. n \in Nonces /\ ~Spent(n)
          BY <2>0, <3>4, CallKinds DEF Refused, Consumable
        <4>2. /\ \A m \in Nonces : m # n => file'[m] = file[m]
              /\ file'[n].status = "consumed"
          BY <2>0, <2>2, <3>4, ResultOK
        <4> HIDE DEF Returning, n
        <4>3. accepted[n] = 0 /\ \A u \in Threads : ~Returning(u, n)
          BY <2>0, <4>1
        <4> QED
          BY <2>0, <3>1, <3>4, <4>1, <4>2, <4>3
      <3>5. CASE req[t].kind = "purge"
        <4>1. \A m \in Nonces : file'[m].status = "pending" => file[m].status = "pending"
          BY <2>0, <2>2, <3>5, ResultOK DEF NoEntry
        <4>2. \A u \in Threads, m \in Nonces : Returning(u, m)' => Returning(u, m)
          BY <3>1, <3>5
        <4> HIDE DEF Returning, n
        <4> QED
          BY <2>0, <4>1, <4>2
      <3> QED
        BY <2>0, <3>3, <3>4, <3>5, CallKinds
    <2> QED
      BY <1>1, <2>1, <2>2, RenameResult
  <1>2. ASSUME NEW t \in Threads, Return(t)
        PROVE  OnceInv'
    <2>1. file' = file
      BY <1>2 DEF Return, store
    <2>2. \A u \in Threads : pc'[u] = "return" => u # t /\ pc[u] = "return" /\ req'[u] = req[u]
      BY <1>2 DEF Return, Leave, StoreInv, TypeOK
    <2>3. CASE req[t].kind = "consume"
      <3>1. Returning(t, req[t].nonce) /\ req[t].nonce \in Nonces
        BY <1>2, <2>3, CallKinds DEF Return, StoreInv, CallsInv
      <3>2. accepted' = [accepted EXCEPT ![req[t].nonce] = 1]
        BY <1>2, <2>3, <3>1 DEF Return, StoreInv, TypeOK
      <3> QED
        BY <2>1, <2>2, <3>1, <3>2 DEF StoreInv, TypeOK
    <2>4. CASE req[t].kind # "consume"
      BY <1>2, <2>1, <2>2, <2>4 DEF Return
    <2> QED
      BY <2>3, <2>4
  <1>3. CASE Next /\ ~ \E t \in Threads : Rename(t) \/ Return(t)
    BY <1>3, OtherStep
  <1>4. CASE UNCHANGED vars
    BY <1>4 DEF vars, thread, store, past
  <1> QED
    BY <1>1, <1>2, <1>3, <1>4

LEMMA OnceAlways ==
    ASSUME OneLock
    PROVE  Spec => []OnceInv
  <1>1. Init => OnceInv
    BY DEF Init, OnceInv, Spent, Returning
  <1> QED
    BY <1>1, StoreAlways, OnceStep, PTL DEF Spec

\* One process never accepts a nonce twice, however its threads interleave and
\* wherever it dies.
THEOREM AcceptedOncePerProcess ==
    ASSUME OneLock
    PROVE  Spec => []AcceptedAtMostOnce
  <1>1. OnceInv => AcceptedAtMostOnce
    BY DEF OnceInv, AcceptedAtMostOnce
  <1> QED
    BY <1>1, OnceAlways, PTL

-----------------------------------------------------------------------------
(***************************************************************************)
(* The store implements one-time tokens: a returning issue hands its token *)
(* out, a returning consume accepts it, every other step stutters.         *)
(***************************************************************************)
THEOREM NonceStoreImplementsTokens ==
    ASSUME OneLock
    PROVE  Spec => ImplementsOneTimeTokens
  <1>1. Init => Abstract!TInit
    BY DEF Init, Abstract!TInit
  <1>2. StoreInv /\ OnceInv /\ [Next]_vars => [Abstract!TNext]_(Abstract!tokens)
    <2> SUFFICES ASSUME StoreInv, OnceInv, [Next]_vars
                 PROVE  [Abstract!TNext]_(Abstract!tokens)
      OBVIOUS
    <2> USE DEF Abstract!tokens
    <2>1. ASSUME NEW t \in Threads, Return(t)
          PROVE  [Abstract!TNext]_(Abstract!tokens)
      <3>1. /\ pc[t] = "return" /\ req[t] \in Call
            /\ req[t].kind # "purge" => req[t].nonce \in Nonces
        BY <2>1, CallKinds DEF Return, StoreInv, CallsInv
      <3>2. CASE req[t].kind = "issue"
        <4>1. req[t].nonce \notin handed
          BY <3>1, <3>2 DEF StoreInv, CallsInv, Issuing
        <4>2. Abstract!Hand(req[t].nonce)
          BY <2>1, <3>2, <4>1 DEF Return, Abstract!Hand
        <4> QED
          BY <3>1, <3>2, <4>2 DEF Abstract!TNext
      <3>3. CASE req[t].kind = "consume"
        <4>1. req[t].nonce \in handed
          BY <3>1, <3>3 DEF StoreInv, CallsInv, Consuming
        <4>2. accepted[req[t].nonce] = 0
          BY <3>1, <3>3 DEF OnceInv, Returning
        <4>3. Abstract!Accept(req[t].nonce)
          BY <2>1, <3>3, <4>1, <4>2 DEF Return, Abstract!Accept
        <4> QED
          BY <3>1, <3>3, <4>3 DEF Abstract!TNext
      <3>4. CASE req[t].kind = "purge"
        BY <2>1, <3>4 DEF Return
      <3> QED
        BY <3>1, <3>2, <3>3, <3>4, CallKinds
    <2>2. ASSUME NEW t \in Threads, Rename(t)
          PROVE  [Abstract!TNext]_(Abstract!tokens)
      BY <2>2, RenameResult
    <2>3. CASE Next /\ ~ \E t \in Threads : Rename(t) \/ Return(t)
      BY <2>3, OtherStep
    <2>4. CASE UNCHANGED vars
      BY <2>4 DEF vars, past
    <2> QED
      BY <2>1, <2>2, <2>3, <2>4
  <1> QED
    BY <1>1, <1>2, StoreAlways, OnceAlways, PTL DEF Spec, ImplementsOneTimeTokens, Abstract!TSpec

-----------------------------------------------------------------------------
(***************************************************************************)
(* Records are kept long enough.  A purge takes a pending record only when *)
(* its nonce has expired, and a consumed one only when its retention is    *)
(* over: that is no sooner than the expiry when TTL <= Retention (300 s    *)
(* against a day), which the handed challenge needs if the consume that    *)
(* wrote the record died before it returned.                               *)
(***************************************************************************)
Given(n) == n \in handed \/ \E t \in Threads : pc[t] = "return" /\ Issuing(t) /\ req[t].nonce = n

RecordsInv ==
    /\ \A n \in Nonces : file[n].status # "absent" =>
            /\ n \in drawn /\ file[n].expires_at = expires[n]
            /\ file[n].status = "consumed" => expires[n] <= file[n].consumed_at + TTL
    /\ \A n \in Nonces : Given(n) /\ accepted[n] = 0 /\ clock <= expires[n] =>
            file[n].status # "absent"

LongRetention == TTL <= Retention

LEMMA RecordsStep ==
    ASSUME LongRetention
    PROVE  StoreInv /\ StoreInv' /\ RecordsInv /\ [Next]_vars => RecordsInv'
  <1> SUFFICES ASSUME StoreInv, StoreInv', RecordsInv, [Next]_vars
               PROVE  RecordsInv'
    OBVIOUS
  <1> USE DEF RecordsInv
  <1>0. /\ file \in Dict /\ expires \in [Nonces -> Nat] /\ clock \in Nat
        /\ \A n \in Nonces : /\ file[n].status \in {"absent", "pending", "consumed"}
                             /\ file[n].expires_at \in Nat /\ file[n].consumed_at \in Nat
    BY DEF StoreInv, TypeOK, Dict, Entry
  <1>1. ASSUME NEW t \in Threads, Rename(t)
        PROVE  RecordsInv'
    <2>0. /\ req[t] \in Call /\ req[t].now <= clock /\ ~Refused(t)
          /\ UNCHANGED <<clock, handed, drawn, expires, accepted>>
          /\ req[t].now \in Nat
      BY <1>1, RenameResult, CallKinds
    <2>1. CASE file' = file /\ pc' = [pc EXCEPT ![t] = "idle"]
                            /\ \A u \in Threads : u # t => req'[u] = req[u]
      <3>1. \A n \in Nonces : Given(n)' => Given(n)
        BY <2>0, <2>1 DEF Given, Issuing, StoreInv, TypeOK
      <3> HIDE DEF Given
      <3> QED
        BY <2>0, <2>1, <3>1
    <2>2. CASE file' = Result(file, req[t]) /\ pc' = [pc EXCEPT ![t] = "return"] /\ req' = req
      <3> DEFINE n == req[t].nonce
      <3>1. \A m \in Nonces : Given(m)' => Given(m) \/ (req[t].kind = "issue" /\ m = n)
        BY <2>0, <2>2 DEF Given, Issuing, StoreInv, TypeOK
      <3>2. pc[t] = "rename"
        BY <1>1 DEF Rename
      <3>3. CASE req[t].kind = "issue"
        <4>1. n \in drawn /\ expires[n] = req[t].now + TTL /\ n \in Nonces
          BY <2>0, <3>2, <3>3, CallKinds DEF StoreInv, CallsInv, Issuing
        <4>2. /\ \A m \in Nonces : m # n => file'[m] = file[m]
              /\ file'[n].status = "pending" /\ file'[n].expires_at = req[t].now + TTL
          BY <1>0, <2>0, <2>2, <3>3, ResultOK
        <4> HIDE DEF Given, n
        <4> QED
          BY <2>0, <3>1, <4>1, <4>2
      <3>4. CASE req[t].kind = "consume"
        <4>1. /\ n \in Nonces /\ file[n].status = "pending"
              /\ expires[n] <= req[t].now + TTL
          BY <2>0, <3>2, <3>4, CallKinds DEF Refused, Consumable, StoreInv, CallsInv, Consuming
        <4>2. /\ \A m \in Nonces : m # n => file'[m] = file[m]
              /\ file'[n].status = "consumed" /\ file'[n].expires_at = file[n].expires_at
              /\ file'[n].consumed_at = req[t].now
          BY <1>0, <2>0, <2>2, <3>4, ResultOK
        <4>3. \A m \in Nonces : Given(m)' => Given(m)
          BY <3>1, <3>4
        <4> HIDE DEF Given, n
        <4> QED
          BY <2>0, <4>1, <4>2, <4>3
      <3>5. CASE req[t].kind = "purge"
        <4>1. ASSUME NEW m \in Nonces
              PROVE  \/ file'[m] = file[m]
                     \/ file'[m] = NoEntry /\ expires[m] < clock
          <5>1. \/ file'[m] = file[m]
                \/ file'[m] = NoEntry /\ Purgeable(file[m], req[t].now)
            BY <1>0, <2>0, <2>2, <3>5, ResultOK
          <5>2. Purgeable(file[m], req[t].now) => expires[m] < clock
            BY <1>0, <2>0 DEF Purgeable, LongRetention
          <5> QED
            BY <5>1, <5>2
        <4>2. \A m \in Nonces : Given(m)' => Given(m)
          BY <3>1, <3>5
        <4>3. NoEntry.status = "absent"
          BY DEF NoEntry
        <4> HIDE DEF Given, n
        <4> QED
          BY <1>0, <2>0, <4>1, <4>2, <4>3
      <3> QED
        BY <2>0, <3>3, <3>4, <3>5, CallKinds
    <2> QED
      BY <1>1, <2>1, <2>2, RenameResult
  <1>2. ASSUME NEW t \in Threads, Return(t)
        PROVE  RecordsInv'
    <2>1. UNCHANGED <<file, clock, drawn, expires>>
      BY <1>2 DEF Return, store
    <2>2. \A n \in Nonces : Given(n)' => Given(n)
      BY <1>2 DEF Return, Leave, Given, Issuing, StoreInv, TypeOK
    <2>3. \A n \in Nonces : accepted'[n] = 0 => accepted[n] = 0
      BY <1>2 DEF Return, StoreInv, TypeOK
    <2> HIDE DEF Given
    <2> QED
      BY <2>1, <2>2, <2>3
  <1>3. CASE Next /\ ~ \E t \in Threads : Rename(t) \/ Return(t)
    <2>1. /\ UNCHANGED <<file, handed, accepted>>
          /\ clock <= clock' /\ clock' \in Nat
          /\ drawn \subseteq drawn' /\ \A n \in drawn : expires'[n] = expires[n]
      BY <1>3, OtherStep
    <2>2. \A n \in Nonces : Given(n)' => Given(n)
      BY <1>3, OtherStep DEF Given, Issuing
    <2>3. \A n \in Nonces : Given(n) => n \in drawn
      BY DEF Given, StoreInv, CallsInv
    <2> HIDE DEF Given
    <2> QED
      BY <1>0, <2>1, <2>2, <2>3
  <1>4. CASE UNCHANGED vars
    BY <1>4 DEF vars, thread, store, past, Given, Issuing
  <1> QED
    BY <1>1, <1>2, <1>3, <1>4

\* A challenge somebody holds and nobody accepted stays in the file until it
\* expires.
THEOREM HandedChallengesStayUsable ==
    ASSUME OneLock, LongRetention
    PROVE  Spec => []HandedStaysUsable
  <1>1. Init => RecordsInv
    BY DEF Init, RecordsInv, Given, Issuing, Empty, NoEntry
  <1>2. StoreInv /\ RecordsInv => HandedStaysUsable
    BY DEF StoreInv, TypeOK, CallsInv, Dict, Entry, RecordsInv, Given, HandedStaysUsable
  <1>3. Spec => []RecordsInv
    BY <1>1, StoreAlways, RecordsStep, PTL DEF Spec
  <1> QED
    BY <1>2, <1>3, StoreAlways, PTL

-----------------------------------------------------------------------------
(***************************************************************************)
(* The record of a spent nonce: consumed at the time its consume had read, *)
(* as long as the retention lasts, from the rename on.                     *)
(***************************************************************************)
KeptAs(n, at) ==
    clock <= at + Retention => file[n].status = "consumed" /\ file[n].consumed_at = at

ReplayInv ==
    \A n \in Nonces :
        /\ accepted[n] > 0 => KeptAs(n, accepted_at[n])
        /\ \A t \in Threads : Returning(t, n) => KeptAs(n, req[t].now)

LEMMA ReplayStep == StoreInv /\ StoreInv' /\ OnceInv /\ ReplayInv /\ [Next]_vars => ReplayInv'
  <1> SUFFICES ASSUME StoreInv, StoreInv', OnceInv, ReplayInv, [Next]_vars
               PROVE  ReplayInv'
    OBVIOUS
  <1> USE DEF ReplayInv
  <1>0. /\ file \in Dict /\ clock \in Nat /\ accepted \in [Nonces -> Nat]
        /\ accepted_at \in [Nonces -> Nat]
        /\ \A n \in Nonces : file[n].consumed_at \in Nat
        /\ \A t \in Threads : pc[t] # "idle" => req[t].now \in Nat
    BY CallKinds DEF StoreInv, TypeOK, CallsInv, Dict, Entry
  <1>1. ASSUME NEW t \in Threads, Rename(t)
        PROVE  ReplayInv'
    <2>0. /\ req[t] \in Call /\ req[t].now <= clock /\ req[t].now \in Nat /\ ~Refused(t)
          /\ UNCHANGED <<clock, accepted, accepted_at>>
      BY <1>1, RenameResult, CallKinds
    <2>1. CASE file' = file /\ pc' = [pc EXCEPT ![t] = "idle"]
                            /\ \A u \in Threads : u # t => req'[u] = req[u]
      <3>1. \A u \in Threads, n \in Nonces : Returning(u, n)' =>
                Returning(u, n) /\ req'[u].now = req[u].now
        BY <2>1 DEF Returning, StoreInv, TypeOK
      <3> HIDE DEF Returning
      <3> QED
        BY <2>0, <2>1, <3>1 DEF KeptAs
    <2>2. CASE file' = Result(file, req[t]) /\ pc' = [pc EXCEPT ![t] = "return"] /\ req' = req
      <3> DEFINE n == req[t].nonce
      <3>1. \A u \in Threads, m \in Nonces :
                Returning(u, m)' <=> IF u = t THEN req[t].kind = "consume" /\ m = n
                                     ELSE Returning(u, m)
        BY <2>2 DEF Returning, StoreInv, TypeOK
      <3>2. pc[t] = "rename"
        BY <1>1 DEF Rename
      <3>3. CASE req[t].kind = "issue"
        <4>1. n \in Nonces /\ ~Spent(n)
          BY <1>0, <2>0, <3>2, <3>3, CallKinds DEF StoreInv, CallsInv, Issuing, Consuming,
             Spent, Returning
        <4>2. \A m \in Nonces : m # n => file'[m] = file[m]
          BY <1>0, <2>0, <2>2, <3>3, ResultOK
        <4> HIDE DEF Returning, n
        <4> QED
          BY <2>0, <2>2, <3>1, <3>3, <4>1, <4>2 DEF KeptAs, Spent
      <3>4. CASE req[t].kind = "consume"
        <4>1. n \in Nonces /\ ~Spent(n)
          BY <2>0, <3>4, CallKinds DEF Refused, Consumable, OnceInv
        <4>2. /\ \A m \in Nonces : m # n => file'[m] = file[m]
              /\ file'[n].status = "consumed" /\ file'[n].consumed_at = req[t].now
          BY <1>0, <2>0, <2>2, <3>4, ResultOK
        <4> HIDE DEF Returning, n
        <4> QED
          BY <2>0, <2>2, <3>1, <3>4, <4>1, <4>2 DEF KeptAs, Spent
      <3>5. CASE req[t].kind = "purge"
        <4>1. ASSUME NEW m \in Nonces, NEW at \in Nat, KeptAs(m, at)
              PROVE  KeptAs(m, at)'
          <5>1. \/ file'[m] = file[m]
                \/ Purgeable(file[m], req[t].now)
            BY <1>0, <2>0, <2>2, <3>5, ResultOK
          <5>2. CASE file'[m] = file[m]
            BY <2>0, <4>1, <5>2 DEF KeptAs
          <5>3. CASE Purgeable(file[m], req[t].now)
            <6>1. ~(clock <= at + Retention)
              BY <1>0, <2>0, <4>1, <5>3 DEF Purgeable, KeptAs
            <6> QED
              BY <2>0, <6>1 DEF KeptAs
          <5> QED
            BY <5>1, <5>2, <5>3
        <4>2. \A u \in Threads, m \in Nonces : Returning(u, m)' =>
                  Returning(u, m) /\ req[u].now \in Nat
          BY <1>0, <3>1, <3>5 DEF Returning
        <4> HIDE DEF Returning, n
        <4>3. \A u \in Threads, m \in Nonces : Returning(u, m) /\ req[u].now \in Nat =>
                  KeptAs(m, req[u].now)'
          <5> SUFFICES ASSUME NEW u \in Threads, NEW m \in Nonces, Returning(u, m),
                              req[u].now \in Nat
                       PROVE  KeptAs(m, req[u].now)'
            OBVIOUS
          <5>1. PICK at \in Nat : at = req[u].now
            OBVIOUS
          <5>2. KeptAs(m, at)'
            BY <4>1, <5>1
          <5> QED
            BY <5>1, <5>2, <2>2 DEF KeptAs
        <4>4. \A m \in Nonces : accepted[m] > 0 => KeptAs(m, accepted_at[m])'
          <5> SUFFICES ASSUME NEW m \in Nonces, accepted[m] > 0
                       PROVE  KeptAs(m, accepted_at[m])'
            OBVIOUS
          <5>1. PICK at \in Nat : at = accepted_at[m]
            BY <1>0
          <5>2. KeptAs(m, at)'
            BY <4>1, <5>1
          <5> QED
            BY <2>0, <5>1, <5>2 DEF KeptAs
        <4> QED
          BY <2>0, <2>2, <4>2, <4>3, <4>4
      <3> QED
        BY <2>0, <3>3, <3>4, <3>5, CallKinds
    <2> QED
      BY <1>1, <2>1, <2>2, RenameResult
  <1>2. ASSUME NEW t \in Threads, Return(t)
        PROVE  ReplayInv'
    <2>1. UNCHANGED <<file, clock>>
      BY <1>2 DEF Return, store
    <2>2. \A u \in Threads, n \in Nonces : Returning(u, n)' => Returning(u, n) /\ req'[u] = req[u]
      BY <1>2 DEF Return, Leave, Returning, StoreInv, TypeOK
    <2>3. \A n \in Nonces : accepted'[n] > 0 =>
              \/ accepted[n] > 0 /\ accepted_at'[n] = accepted_at[n]
              \/ Returning(t, n) /\ accepted_at'[n] = req[t].now
      BY <1>0, <1>2 DEF Return, Returning
    <2> HIDE DEF Returning
    <2> QED
      BY <2>1, <2>2, <2>3 DEF KeptAs
  <1>3. CASE Next /\ ~ \E t \in Threads : Rename(t) \/ Return(t)
    <2>1. /\ UNCHANGED <<file, accepted, accepted_at>>
          /\ clock <= clock' /\ clock' \in Nat
      BY <1>3, OtherStep
    <2>2. \A u \in Threads, n \in Nonces : Returning(u, n)' =>
              Returning(u, n) /\ req'[u] = req[u] /\ req[u].now \in Nat
      BY <1>0, <1>3, OtherStep DEF Returning
    <2> HIDE DEF Returning
    <2> QED
      BY <1>0, <2>1, <2>2 DEF KeptAs
  <1>4. CASE UNCHANGED vars
    BY <1>4 DEF vars, thread, store, past, KeptAs, Returning
  <1> QED
    BY <1>1, <1>2, <1>3, <1>4

\* While the retention lasts, a second presentation meets a consumed record.
THEOREM ReplaysAreRecognised ==
    ASSUME OneLock
    PROVE  Spec => []ReplayIsRecognised
  <1>1. Init => ReplayInv
    BY DEF Init, ReplayInv, Returning
  <1>2. ReplayInv => ReplayIsRecognised
    BY DEF ReplayInv, KeptAs, ReplayIsRecognised
  <1>3. Spec => []ReplayInv
    BY <1>1, StoreAlways, OnceAlways, ReplayStep, PTL DEF Spec
  <1> QED
    BY <1>2, <1>3, PTL

\* Every value of the store has the type the code gives it; a record is absent,
\* pending or consumed, whatever was lost on the way to the file.
THEOREM NonceTypes == Spec => []TypeOK
  <1>1. Init => TypeOK /\ CallsInv
    BY StoreInit DEF StoreInv
  <1>2. TypeOK /\ CallsInv /\ [Next]_vars => (TypeOK /\ CallsInv)'
    BY NonceTypesStep, CallsStep
  <1> QED
    BY <1>1, <1>2, PTL DEF Spec
=============================================================================
