-------------------------- MODULE CredentialProofs --------------------------
(***************************************************************************)
(* Proofs about CredentialLifecycle: for any credentials, issuers, types   *)
(* and number of processes, wherever they interleave or die.               *)
(***************************************************************************)
EXTENDS CredentialLifecycle, TLAPS

USE LifecycleAssumption

(***************************************************************************)
(* The inductive invariant.                                                *)
(***************************************************************************)

\* An id that is in a wallet, in a revocation or in a call has been made.
Made ==
    /\ \A c \in External \cup wallet \cup revoked : age[c] # "unmade"
    /\ \A p \in Clients : op[p].cred # None => age[op[p].cred] # "unmade"

\* A call is about a credential or registers a new one, and when it comes to
\* its end the new one is registered.
CallsMakeSense ==
    \A p \in Clients :
        /\ pc[p] \in {"trust", "expiry", "status", "issue"} =>
               op[p].cred # None /\ op[p].kind \in {"present", "renew", "rotate"}
        /\ pc[p] = "issue" => op[p].kind # "present"
        /\ pc[p] \in {"load", "loaded", "writing"} => op[p].cred # None \/ Registers(p)
        /\ pc[p] \in {"lookup", "done"} => ~Registers(p)
        /\ pc[p] = "lookup" => op[p].cred # None
        /\ op[p].cred = None => op[p].kind \in {"none", "mint"} /\ ~op[p].revoke_old
        /\ op[p].kind \in {"none", "revoke"} => op[p].new = None

NewIdsDiffer ==
    \A p, q \in Clients : p # q /\ op[p].new # None => op[p].new # op[q].new

\* What a process loaded, and the file, hold every revocation they may not
\* have missed; and a credential either of them calls revoked is.
ViewsCurrent ==
    \A p \in Clients : pc[p] \in {"loaded", "writing"} =>
        \A c \in revoked \ (overwritten \cup since[p]) : view[p][c] = "revoked"

OnlyRevokedListed ==
    \A c \in Creds : /\ db[c] = "revoked" => c \in revoked
                     /\ \A p \in Clients : view[p][c] = "revoked" => c \in revoked

RetiredAreRevoked ==
    /\ retired \subseteq revoked
    /\ \A p \in Clients : pc[p] = "done" /\ (op[p].kind = "revoke" \/ op[p].revoke_old)
                          => op[p].cred \in revoked

\* While a process checks, it has seen all that is allowed now.
ChecksSeen ==
    \A p \in Clients :
        /\ pc[p] \in {"trust", "expiry", "status", "issue"} => trusted \subseteq seen[p]
        /\ pc[p] \in {"expiry", "status"} /\ op[p].kind = "present" => Pair(p) \in seen[p]

LateCalls ==
    \A p \in Clients :
        /\ op[p].late => op[p].cred \in revoked
        /\ pc[p] = "issue" /\ op[p].kind = "renew" /\ op[p].late => op[p].cred \in overwritten

Calls == TypeOK /\ Made /\ CallsMakeSense /\ NewIdsDiffer
Revocations == RevocationSticks /\ ViewsCurrent /\ OnlyRevokedListed /\ RetiredAreRevoked
Answers == ChecksSeen /\ AlwaysVouchedFor /\ LateCalls /\ NothingAfterRevocation

-----------------------------------------------------------------------------
LEMMA BlankOK == Blank \in Envelope
  <1>1. Envelope # {}
    <2>1. PICK i \in Issuers, t \in Types : TRUE
      OBVIOUS
    <2>2. [issuer |-> i, type |-> t] \in Envelope
      BY DEF Envelope
    <2> QED
      BY <2>2
  <1> QED
    BY <1>1 DEF Blank

LEMMA NothingsOK ==
    /\ NoCall \in Call /\ NoAnswer \in Answer /\ Unlisted \in [Creds -> Listing]
    /\ NoCall.cred = None /\ NoCall.new = None /\ NoCall.kind = "none"
    /\ NoCall.revoke_old = FALSE /\ NoCall.late = FALSE
    /\ \A c \in Creds : Unlisted[c] # "revoked"
  BY BlankOK DEF NoCall, NoAnswer, Unlisted, Call, Answer, Listing, Envelope, Kinds

(***************************************************************************)
(* The calls.                                                              *)
(***************************************************************************)

\* A call that begins keeps the calls in order.
LEMMA BeginKeepsCalls ==
    ASSUME Calls, NEW p \in Clients, NEW step \in Steps \ {"idle", "loaded", "writing", "lookup", "done"},
           NEW call \in Call, Begin(p, step, call),
           call.new # None => IsNew(call.new) /\ call.cred = None,
           call.cred # None => age[call.cred] # "unmade",
           call.cred = None => step = "load" /\ call.new # None /\ call.kind = "mint" /\ ~call.revoke_old,
           call.kind \in {"none", "revoke"} => call.new = None,
           step # "issue",
           step \in {"trust", "expiry", "status", "issue"} => call.kind \in {"present", "renew", "rotate"},
           trusted' \in SUBSET (Issuers \X Types),
           seen' \in [Clients -> SUBSET (Issuers \X Types)]
    PROVE  Calls'
  <1> DEFINE late == call.cred \in revoked
             o == [call EXCEPT !.late = late]
  <1>0. late \in BOOLEAN
    OBVIOUS
  <1>1. /\ o \in Call /\ o.cred = call.cred /\ o.new = call.new /\ o.kind = call.kind
        /\ o.revoke_old = call.revoke_old
    <2> HIDE DEF late
    <2> QED
      BY <1>0 DEF Call
  <1>2. /\ op' = [op EXCEPT ![p] = o] /\ pc' = [pc EXCEPT ![p] = step]
        /\ requests' = requests + 1 /\ answer' = [answer EXCEPT ![p] = NoAnswer]
        /\ UNCHANGED <<envelope, age, wallet, file, view, revoked, overwritten, since, retired>>
    BY DEF Begin, Goto
  <1> HIDE DEF o, late
  <1>3. TypeOK'
    BY <1>1, <1>2, NothingsOK DEF Calls, TypeOK, file
  <1>4. Made'
    BY <1>1, <1>2 DEF Calls, TypeOK, Made
  <1>5. CallsMakeSense'
    BY <1>1, <1>2 DEF Calls, TypeOK, CallsMakeSense, Registers, IsNew
  <1>6. NewIdsDiffer'
    BY <1>1, <1>2 DEF Calls, TypeOK, NewIdsDiffer, IsNew
  <1> QED
    BY <1>3, <1>4, <1>5, <1>6 DEF Calls

\* A call that ends keeps them in order.
LEMMA EndKeepsCalls ==
    ASSUME Calls, NEW p \in Clients, End(p),
           UNCHANGED <<envelope, age, trusted, file, requests, revoked, overwritten>>,
           wallet' \in SUBSET Creds, \A c \in wallet' : age[c] # "unmade",
           retired' \in SUBSET Creds, answer' \in [Clients -> Answer]
    PROVE  Calls'
  <1>1. /\ op' = [op EXCEPT ![p] = NoCall] /\ pc' = [pc EXCEPT ![p] = "idle"]
        /\ view' = [view EXCEPT ![p] = Unlisted] /\ since' = [since EXCEPT ![p] = {}]
        /\ seen' = [seen EXCEPT ![p] = {}]
    BY DEF End, Goto
  <1>2. TypeOK'
    BY <1>1, NothingsOK DEF Calls, TypeOK, file, Steps
  <1>3. Made'
    BY <1>1, NothingsOK DEF Calls, TypeOK, Made
  <1>4. CallsMakeSense'
    BY <1>1, NothingsOK DEF Calls, TypeOK, CallsMakeSense, Registers
  <1>5. NewIdsDiffer'
    BY <1>1, NothingsOK DEF Calls, TypeOK, NewIdsDiffer
  <1> QED
    BY <1>2, <1>3, <1>4, <1>5 DEF Calls
\* A step that only moves a call along, with what it loaded.
LEMMA MoveKeepsCalls ==
    ASSUME Calls, NEW p \in Clients, NEW step \in Steps, Goto(p, step),
           UNCHANGED <<envelope, age, wallet, trusted, requests, revoked, overwritten, retired>>,
           db' \in [Creds -> Listing], text' \in {"whole", "empty", "mixed"},
           view' \in [Clients -> [Creds -> Listing]], since' \in [Clients -> SUBSET Creds],
           seen' \in [Clients -> SUBSET (Issuers \X Types)], answer' \in [Clients -> Answer],
           NEW o \in Call, op' = [op EXCEPT ![p] = o],
           o.cred = op[p].cred, o.kind = op[p].kind, o.revoke_old = op[p].revoke_old,
           o.new = op[p].new \/ (o.new # None /\ IsNew(o.new) /\ o.kind \notin {"none", "revoke"}),
           step \in {"trust", "expiry", "status", "issue"} =>
               o.cred # None /\ pc[p] \in {"trust", "expiry", "status", "issue"},
           step \in {"load", "loaded", "writing"} =>
               o.cred # None \/ (o.new = op[p].new /\ pc[p] \in {"load", "loaded", "writing"}),
           step # "lookup", step = "issue" => o.kind # "present",
           step = "done" => o.new = op[p].new /\ (pc[p] = "lookup" \/ ~Registers(p))
    PROVE  Calls'
  <1>1. TypeOK'
    BY DEF Calls, TypeOK, Goto
  <1>2. Made'
    BY DEF Calls, TypeOK, Made, Goto
  <1>3. CallsMakeSense'
    BY DEF Calls, TypeOK, CallsMakeSense, Registers, IsNew, Goto
  <1>4. NewIdsDiffer'
    BY DEF Calls, TypeOK, NewIdsDiffer, IsNew
  <1> QED
    BY <1>1, <1>2, <1>3, <1>4 DEF Calls

LEMMA EditedOK ==
    ASSUME TypeOK, NEW p \in Clients
    PROVE  Edited(p) \in [Creds -> Listing]
  BY DEF TypeOK, Edited, Listing

LEMMA AnsweredOK ==
    ASSUME TypeOK, NEW p \in Clients
    PROVE  Answered(p) \in Answer
  <1> DEFINE vouched == Pair(p) \in seen[p]
  <1>1. vouched \in BOOLEAN
    OBVIOUS
  <1>2. Answered(p) = [kind |-> op[p].kind, cred |-> op[p].cred, late |-> op[p].late, vouched |-> vouched]
    BY DEF Answered
  <1> HIDE DEF vouched
  <1> QED
    BY <1>1, <1>2 DEF TypeOK, Call, Answer

\* The credential that p registers, or the revocation it saves.
LEMMA WriteKeepsCalls ==
    ASSUME Calls, NEW p \in Clients, Write(p)
    PROVE  Calls'
  <1> DEFINE step == IF ~Registers(p) \/ ~op[p].revoke_old THEN "done"
                     ELSE IF op[p].kind = "rotate" THEN "lookup" ELSE "load"
             now == IF Registers(p) THEN {} ELSE {op[p].cred}
  <1>1. /\ pc[p] = "writing" /\ pc' = [pc EXCEPT ![p] = step] /\ Enters(p)
        /\ db' = IF text' = "whole" THEN Edited(p) ELSE Unlisted
        /\ text' \in {"whole", "mixed"}
        /\ view' = [view EXCEPT ![p] = Unlisted]
        /\ revoked' = revoked \cup now /\ overwritten' = overwritten \cup (since[p] \ now)
        /\ since' = [q \in Clients |-> IF q # p /\ pc[q] \in {"loaded", "writing"}
                                       THEN since[q] \cup now ELSE {}]
        /\ UNCHANGED <<wallet, trusted, op, requests, seen, answer, retired>>
    BY DEF Write, Goto
  <1>2. /\ op[p] \in Call /\ (~Registers(p) => op[p].cred \in Creds)
        /\ Registers(p) => op[p].new \in Creds
    BY <1>1 DEF Calls, CallsMakeSense, TypeOK, Call, Registers
  <1>3. now \in SUBSET Creds /\ step \in Steps
        /\ step \notin {"idle", "trust", "expiry", "status", "issue", "loaded", "writing"}
        /\ (step \in {"load", "lookup"} => Registers(p) /\ op[p].revoke_old)
    BY <1>2 DEF Steps
  <1>4. /\ age' \in [Creds -> Ages] /\ envelope' \in [Creds -> Envelope]
        /\ \A c \in Creds : age'[c] = "unmade" <=> age[c] = "unmade" /\ (Registers(p) => c # op[p].new)
    <2>1. CASE Registers(p)
      <3>1. PICK t \in Types : envelope' = [envelope EXCEPT ![op[p].new] = [issuer |-> op[p].issuer, type |-> t]]
        <4>1. CASE op[p].kind = "mint"
          BY <1>1, <2>1, <4>1 DEF Enters
        <4>2. CASE op[p].kind # "mint"
          <5>1. op[p].cred \in Creds
            BY <1>1, <1>2, <2>1, <4>2 DEF Calls, CallsMakeSense, Call, Registers
          <5> QED
            BY <1>1, <2>1, <4>2, <5>1 DEF Enters, Calls, TypeOK, Envelope
        <4> QED
          BY <4>1, <4>2
      <3>2. [issuer |-> op[p].issuer, type |-> t] \in Envelope
        BY <1>2 DEF Call, Envelope
      <3>3. age' = [age EXCEPT ![op[p].new] = "fresh"]
        BY <1>1, <2>1 DEF Enters
      <3> QED
        BY <1>2, <2>1, <3>1, <3>2, <3>3 DEF Calls, TypeOK, Ages
    <2>2. CASE ~Registers(p)
      BY <1>1, <2>2 DEF Enters, Calls, TypeOK
    <2> QED
      BY <2>1, <2>2
  <1> HIDE DEF step, now
  <1>5. TypeOK'
    BY <1>1, <1>3, <1>4, EditedOK, NothingsOK DEF Calls, TypeOK
  <1>6. Made'
    <2>1. \A c \in now : age[c] # "unmade"
      BY <1>2 DEF now, Calls, Made, TypeOK
    <2>2. \A c \in Creds : age[c] # "unmade" => age'[c] # "unmade"
      BY <1>4
    <2>3. \A q \in Clients : op[q].cred # None => op[q].cred \in Creds
      BY DEF Calls, TypeOK, Call
    <2> QED
      BY <1>1, <1>3, <2>1, <2>2, <2>3 DEF Calls, Made, TypeOK
  <1>7. CallsMakeSense'
    <2>1. \A q \in Clients : op[q].new \in Creds \cup {None}
      BY DEF Calls, TypeOK, Call
    <2>2. \A q \in Clients \ {p} : Registers(q)' = Registers(q)
      BY <1>1, <1>4, <2>1 DEF Calls, NewIdsDiffer, Registers
    <2>3. ~Registers(p)'
      BY <1>1, <1>4, <2>1 DEF Registers
    <2>4. \A q \in Clients \ {p} : pc'[q] = pc[q]
      BY <1>1 DEF Calls, TypeOK
    <2>5. pc'[p] = step
      BY <1>1 DEF Calls, TypeOK
    <2> QED
      BY <1>1, <1>2, <1>3, <2>2, <2>3, <2>4, <2>5 DEF Calls, CallsMakeSense
  <1>8. NewIdsDiffer'
    BY <1>1 DEF Calls, NewIdsDiffer
  <1> QED
    BY <1>5, <1>6, <1>7, <1>8 DEF Calls
LEMMA CallsInit == Init => Calls
  <1> SUFFICES ASSUME Init
               PROVE  Calls
    OBVIOUS
  <1>1. /\ op = [p \in Clients |-> NoCall] /\ answer = [p \in Clients |-> NoAnswer]
        /\ pc = [p \in Clients |-> "idle"] /\ view = [p \in Clients |-> Unlisted]
        /\ db = Unlisted /\ text = "whole" /\ requests = 0 /\ wallet = External
        /\ trusted = Issuers \X Types /\ revoked = {} /\ overwritten = {} /\ retired = {}
        /\ since = [p \in Clients |-> {}] /\ seen = [p \in Clients |-> {}]
        /\ envelope \in [Creds -> Envelope]
        /\ age = [c \in Creds |-> IF c \in External THEN "undated" ELSE "unmade"]
    BY DEF Init
  <1>2. TypeOK
    <2>1. age \in [Creds -> Ages]
      BY <1>1 DEF Ages
    <2> QED
      BY <1>1, <2>1, NothingsOK DEF TypeOK, Steps
  <1>3. Made
    BY <1>1, NothingsOK DEF Made
  <1>4. CallsMakeSense
    BY <1>1, NothingsOK DEF CallsMakeSense
  <1>5. NewIdsDiffer
    BY <1>1, NothingsOK DEF NewIdsDiffer
  <1> QED
    BY <1>2, <1>3, <1>4, <1>5 DEF Calls

LEMMA AllowTypes ==
    ASSUME TypeOK, NEW pairs \in SUBSET (Issuers \X Types), Allow(pairs)
    PROVE  trusted' \in SUBSET (Issuers \X Types) /\ seen' \in [Clients -> SUBSET (Issuers \X Types)]
  BY DEF TypeOK, Allow

\* A registry change or the passing of time keeps the calls in order.
LEMMA WorldKeepsCalls ==
    ASSUME Calls, UNCHANGED <<envelope, wallet, file, process, requests, revoked, overwritten, since, answer, retired>>,
           trusted' \in SUBSET (Issuers \X Types), seen' \in [Clients -> SUBSET (Issuers \X Types)],
           age' \in [Creds -> Ages], \A c \in Creds : age'[c] = "unmade" <=> age[c] = "unmade"
    PROVE  Calls'
  <1>1. TypeOK'
    BY DEF Calls, TypeOK, file, process
  <1>2. \A q \in Clients : op[q] \in Call /\ Registers(q)' = Registers(q)
    BY DEF Calls, TypeOK, Registers, process, Call
  <1>3. Made'
    <2>1. \A q \in Clients : op[q].cred \in Creds \cup {None}
      BY <1>2 DEF Call
    <2> QED
      BY <2>1 DEF Calls, TypeOK, Made, process
  <1>4. CallsMakeSense' /\ NewIdsDiffer'
    BY <1>2 DEF Calls, CallsMakeSense, NewIdsDiffer, process
  <1> QED
    BY <1>1, <1>3, <1>4 DEF Calls

LEMMA CallsStep == Calls /\ [Next]_vars => Calls'
  <1> SUFFICES ASSUME Calls, [Next]_vars
               PROVE  Calls'
    OBVIOUS
  <1>t. /\ TypeOK /\ \A c \in External \cup wallet : c \in Creds /\ age[c] # "unmade"
        /\ \A p \in Clients : op[p] \in Call
    BY DEF Calls, TypeOK, Made
  <1>e. \A p \in Clients : UNCHANGED op => op' = [op EXCEPT ![p] = op[p]]
    BY <1>t DEF TypeOK
  <1>1. ASSUME NEW p \in Clients, NEW c \in Creds, Present(p, c)
        PROVE  Calls'
    <2> DEFINE call == [NoCall EXCEPT !.kind = "present", !.cred = c]
    <2>1. call \in Call /\ call.cred = c /\ call.new = None /\ call.kind = "present"
      BY NothingsOK DEF Call, Kinds
    <2>2. Begin(p, "trust", call) /\ c \in wallet /\ UNCHANGED trusted
          /\ seen' = [seen EXCEPT ![p] = trusted]
      BY <1>1 DEF Present
    <2> HIDE DEF call
    <2>3. seen' \in [Clients -> SUBSET (Issuers \X Types)] /\ trusted' \in SUBSET (Issuers \X Types)
      BY <2>2, <1>t DEF TypeOK
    <2>4. c # None /\ age[c] # "unmade" /\ "trust" \in Steps \ {"idle", "loaded", "writing", "lookup", "done"}
      BY <1>t, <2>2 DEF Steps
    <2> QED
      BY <2>1, <2>2, <2>3, <2>4, BeginKeepsCalls
  <1>2. ASSUME NEW p \in Clients, NEW kind \in {"renew", "rotate"}, NEW c \in Creds, NEW i \in Issuers,
               NEW revoke_old \in BOOLEAN, NEW force \in BOOLEAN, Replace(p, kind, c, i, revoke_old, force)
        PROVE  Calls'
    <2> DEFINE call == [NoCall EXCEPT !.kind = kind, !.cred = c, !.issuer = i,
                                      !.revoke_old = revoke_old, !.force = force]
    <2>1. call \in Call /\ call.cred = c /\ call.new = None /\ call.kind = kind
      BY NothingsOK DEF Call, Kinds
    <2>2. Begin(p, "trust", call) /\ c \in wallet /\ UNCHANGED trusted
          /\ seen' = [seen EXCEPT ![p] = trusted]
      BY <1>2 DEF Replace
    <2> HIDE DEF call
    <2>3. seen' \in [Clients -> SUBSET (Issuers \X Types)] /\ trusted' \in SUBSET (Issuers \X Types)
      BY <2>2, <1>t DEF TypeOK
    <2>4. c # None /\ age[c] # "unmade" /\ "trust" \in Steps \ {"idle", "loaded", "writing", "lookup", "done"}
      BY <1>t, <2>2 DEF Steps
    <2> QED
      BY <2>1, <2>2, <2>3, <2>4, BeginKeepsCalls
  <1>3. ASSUME NEW p \in Clients, NEW i \in DevIssuers, NEW new \in Creds, Mint(p, i, new)
        PROVE  Calls'
    <2> DEFINE call == [NoCall EXCEPT !.kind = "mint", !.new = new, !.issuer = i]
    <2>1. call \in Call /\ call.cred = None /\ call.new = new /\ call.kind = "mint" /\ ~call.revoke_old
      BY NothingsOK DEF Call, Kinds
    <2>2. Begin(p, "load", call) /\ IsNew(new) /\ Allow({i} \X Types)
      BY <1>3 DEF Mint
    <2> HIDE DEF call
    <2>3. seen' \in [Clients -> SUBSET (Issuers \X Types)] /\ trusted' \in SUBSET (Issuers \X Types)
      BY <2>2, <1>t, AllowTypes
    <2>4. new # None /\ "load" \in Steps \ {"idle", "loaded", "writing", "lookup", "done"}
      BY DEF Steps
    <2> QED
      BY <2>1, <2>2, <2>3, <2>4, BeginKeepsCalls
  <1>4. ASSUME NEW p \in Clients, NEW c \in Creds, Revoke(p, c)
        PROVE  Calls'
    <2> DEFINE call == [NoCall EXCEPT !.kind = "revoke", !.cred = c]
    <2>1. call \in Call /\ call.cred = c /\ call.new = None /\ call.kind = "revoke"
      BY NothingsOK DEF Call, Kinds
    <2>2. Begin(p, "load", call) /\ age[c] # "unmade" /\ UNCHANGED <<trusted, seen>>
      BY <1>4, <1>t DEF Revoke
    <2> HIDE DEF call
    <2>3. seen' \in [Clients -> SUBSET (Issuers \X Types)] /\ trusted' \in SUBSET (Issuers \X Types)
      BY <2>2, <1>t DEF TypeOK
    <2>4. c # None /\ "load" \in Steps \ {"idle", "loaded", "writing", "lookup", "done"}
      BY DEF Steps
    <2> QED
      BY <2>1, <2>2, <2>3, <2>4, BeginKeepsCalls
  <1>5. ASSUME NEW p \in Clients, NEW new \in Creds, Issue(p, new)
        PROVE  Calls'
    <2> DEFINE o == [op[p] EXCEPT !.new = new, !.late = FALSE]
    <2>1. /\ o \in Call /\ o.cred = op[p].cred /\ o.new = new /\ o.kind = op[p].kind
          /\ o.revoke_old = op[p].revoke_old
      BY <1>t DEF Call
    <2>2. /\ op' = [op EXCEPT ![p] = o] /\ pc[p] = "issue" /\ Goto(p, "load") /\ IsNew(new)
          /\ answer' = [answer EXCEPT ![p] = Answered(p)] /\ seen' = [seen EXCEPT ![p] = {}]
          /\ UNCHANGED <<envelope, age, wallet, trusted, file, view, requests, revoked, overwritten, since, retired>>
      BY <1>5 DEF Issue
    <2> HIDE DEF o
    <2>3. /\ answer' \in [Clients -> Answer] /\ seen' \in [Clients -> SUBSET (Issuers \X Types)]
          /\ db' \in [Creds -> Listing] /\ text' \in {"whole", "empty", "mixed"}
          /\ view' \in [Clients -> [Creds -> Listing]] /\ since' \in [Clients -> SUBSET Creds]
          /\ "load" \in Steps
      BY <1>t, <2>2, AnsweredOK DEF TypeOK, file, Steps
    <2>4. op[p].cred # None /\ op[p].kind \notin {"none", "revoke"} /\ new # None
      BY <2>2 DEF Calls, CallsMakeSense
    <2>5. UNCHANGED <<envelope, age, wallet, trusted, requests, revoked, overwritten, retired>>
      BY <2>2
    <2> QED
      BY <2>1, <2>2, <2>3, <2>4, <2>5, MoveKeepsCalls
  <1>6. ASSUME NEW p \in Clients, End(p),
               \/ CheckTrust(p) \/ CheckExpiry(p) \/ Accept(p) \/ Refused(p) \/ Return(p) \/ Raise(p) \/ Die(p)
        PROVE  Calls'
    <2>1. wallet' \in SUBSET Creds /\ \A c \in wallet' : age[c] # "unmade"
      <3>1. CASE Return(p)
        <4>1. op[p].new \in Creds \cup {None} /\ (op[p].new = None \/ age[op[p].new] # "unmade")
          BY <1>t, <3>1 DEF Return, Calls, CallsMakeSense, Registers, Call
        <4> QED
          BY <1>t, <3>1, <4>1 DEF Return, TypeOK
      <3>2. CASE ~Return(p)
        BY <1>6, <1>t, <3>2 DEF TypeOK, CheckTrust, CheckExpiry, Accept, Refused, Raise, Die
      <3> QED
        BY <3>1, <3>2
    <2>2. retired' \in SUBSET Creds
      <3>1. CASE Return(p)
        <4>1. op[p].kind = "revoke" \/ op[p].revoke_old => op[p].cred \in Creds
          BY <1>t DEF Calls, CallsMakeSense, Call
        <4> QED
          BY <1>t, <3>1, <4>1 DEF Return, TypeOK
      <3>2. CASE ~Return(p)
        BY <1>6, <1>t, <3>2 DEF TypeOK, CheckTrust, CheckExpiry, Accept, Refused, Raise, Die
      <3> QED
        BY <3>1, <3>2
    <2>3. answer' \in [Clients -> Answer]
      BY <1>6, <1>t, AnsweredOK DEF TypeOK, CheckTrust, CheckExpiry, Accept, Refused, Return, Raise, Die
    <2>4. UNCHANGED <<envelope, age, trusted, file, requests, revoked, overwritten>>
      BY <1>6 DEF CheckTrust, CheckExpiry, Accept, Refused, Return, Raise, Die
    <2> QED
      BY <1>6, <2>1, <2>2, <2>3, <2>4, EndKeepsCalls
  <1>7. ASSUME NEW p \in Clients, CheckTrust(p) \/ CheckExpiry(p), ~End(p)
        PROVE  Calls'
    <2>1. /\ pc[p] \in {"trust", "expiry"} /\ (Goto(p, "expiry") \/ Goto(p, "status")) /\ op[p].cred # None
          /\ UNCHANGED <<envelope, age, wallet, trusted, file, op, view, requests, revoked, overwritten, since,
                         seen, answer, retired>>
      BY <1>7 DEF CheckTrust, CheckExpiry, AfterTrust, Calls, CallsMakeSense
    <2>2. /\ db' \in [Creds -> Listing] /\ text' \in {"whole", "empty", "mixed"} /\ {"expiry", "status"} \subseteq Steps
          /\ view' \in [Clients -> [Creds -> Listing]] /\ since' \in [Clients -> SUBSET Creds]
          /\ answer' \in [Clients -> Answer] /\ seen' \in [Clients -> SUBSET (Issuers \X Types)]
      BY <1>t, <2>1 DEF TypeOK, file, Steps
    <2>3. UNCHANGED <<envelope, age, wallet, trusted, requests, revoked, overwritten, retired>>
      BY <2>1
    <2>4. PICK o \in Call : o = op[p]
      BY <1>t
    <2>5. /\ op' = [op EXCEPT ![p] = o] /\ o.cred # None /\ o.cred = op[p].cred /\ o.new = op[p].new
          /\ o.kind = op[p].kind /\ o.revoke_old = op[p].revoke_old
      BY <1>e, <2>1, <2>4
    <2>6. PICK step \in Steps : step \in {"expiry", "status"} /\ Goto(p, step)
      BY <2>1, <2>2
    <2>7. /\ Goto(p, step) /\ pc[p] \in {"trust", "expiry", "status", "issue"}
          /\ step \notin {"load", "loaded", "writing", "lookup", "issue", "done"}
      BY <2>1, <2>6
    <2> QED
      BY <2>2, <2>3, <2>5, <2>7, MoveKeepsCalls
  <1>8. ASSUME NEW p \in Clients, Eligible(p)
        PROVE  Calls'
    <2> DEFINE o == [op[p] EXCEPT !.force = FALSE]
    <2>1. /\ o \in Call /\ o.cred = op[p].cred /\ o.new = op[p].new /\ o.kind = op[p].kind
          /\ o.revoke_old = op[p].revoke_old
      BY <1>t DEF Call
    <2>2. /\ pc[p] = "status" /\ Goto(p, "issue") /\ op' = [op EXCEPT ![p] = o]
          /\ op[p].kind # "present"
          /\ UNCHANGED <<envelope, age, wallet, trusted, file, view, requests, revoked, overwritten, since,
                         seen, answer, retired>>
      BY <1>8 DEF Eligible, history
    <2> HIDE DEF o
    <2>3. op[p].cred # None
      BY <2>2 DEF Calls, CallsMakeSense
    <2>4. /\ db' \in [Creds -> Listing] /\ text' \in {"whole", "empty", "mixed"} /\ "issue" \in Steps
          /\ view' \in [Clients -> [Creds -> Listing]] /\ since' \in [Clients -> SUBSET Creds]
          /\ answer' \in [Clients -> Answer] /\ seen' \in [Clients -> SUBSET (Issuers \X Types)]
      BY <1>t, <2>2 DEF TypeOK, file, Steps
    <2>5. UNCHANGED <<envelope, age, wallet, trusted, requests, revoked, overwritten, retired>>
      BY <2>2
    <2> QED
      BY <2>1, <2>2, <2>3, <2>4, <2>5, MoveKeepsCalls
  <1>9. ASSUME NEW p \in Clients, Load(p) \/ Truncate(p) \/ LookUp(p)
        PROVE  Calls'
    <2>1. PICK step \in {"loaded", "writing", "load", "done"} : Goto(p, step)
      BY <1>9 DEF Load, Truncate, LookUp
    <2>2. /\ step \in {"loaded", "writing"} => pc[p] \in {"load", "loaded"}
          /\ step = "load" => pc[p] = "lookup"
          /\ step = "done" => pc[p] = "lookup" \/ ~Registers(p)
      BY <1>9, <1>t, <2>1 DEF Load, Truncate, LookUp, Goto, TypeOK
    <2>3. UNCHANGED <<envelope, age, wallet, trusted, op, requests, revoked, overwritten, seen, answer, retired>>
      BY <1>9 DEF Load, Truncate, LookUp, history
    <2>4. /\ db' \in [Creds -> Listing] /\ text' \in {"whole", "empty", "mixed"}
          /\ view' \in [Clients -> [Creds -> Listing]] /\ since' \in [Clients -> SUBSET Creds]
      <3>1. CASE Load(p)
        BY <3>1, <1>t DEF Load, TypeOK, file
      <3>2. CASE Truncate(p)
        BY <3>2, <1>t, NothingsOK DEF Truncate, TypeOK, history
      <3>3. CASE LookUp(p)
        BY <3>3, <1>t DEF LookUp, TypeOK, file, history
      <3> QED
        BY <1>9, <3>1, <3>2, <3>3
    <2>5. answer' \in [Clients -> Answer] /\ seen' \in [Clients -> SUBSET (Issuers \X Types)] /\ step \in Steps
      BY <1>t, <2>1, <2>3 DEF TypeOK, Steps
    <2>6. pc[p] = "lookup" => op[p].cred # None
      BY <1>t DEF Calls, CallsMakeSense, Registers, Call
    <2>7. PICK o \in Call : o = op[p]
      BY <1>t
    <2>8. op' = [op EXCEPT ![p] = o]
      BY <1>e, <2>3, <2>7
    <2> QED
      BY <2>1, <2>2, <2>3, <2>4, <2>5, <2>6, <2>7, <2>8, MoveKeepsCalls
  <1>10. ASSUME NEW p \in Clients, Write(p)
         PROVE  Calls'
    BY <1>10, WriteKeepsCalls
  <1>11. CASE Pass
    <2>1. age' \in [Creds -> Ages] /\ \A c \in Creds : age'[c] = "unmade" <=> age[c] = "unmade"
      BY <1>11, <1>t DEF Pass, TypeOK, Ages
    <2>2. /\ UNCHANGED <<envelope, wallet, file, process, requests, revoked, overwritten, since, answer, retired>>
          /\ UNCHANGED <<trusted, seen>>
      BY <1>11 DEF Pass, history
    <2> QED
      BY <1>t, <2>1, <2>2, WorldKeepsCalls DEF TypeOK
  <1>12. ASSUME NEW i \in Issuers, NEW t \in Types, Withdraw(i, t) \/ Grant(i, t)
         PROVE  Calls'
    <2>1. /\ UNCHANGED <<envelope, wallet, file, process, requests, revoked, overwritten, since, answer, retired>>
          /\ UNCHANGED age
      BY <1>12 DEF Withdraw, Grant, history
    <2>2. trusted' \in SUBSET (Issuers \X Types) /\ seen' \in [Clients -> SUBSET (Issuers \X Types)]
      BY <1>12, <1>t, AllowTypes DEF TypeOK, Withdraw, Grant, history
    <2> QED
      BY <1>t, <2>1, <2>2, WorldKeepsCalls DEF TypeOK
  <1>13. CASE UNCHANGED vars
    BY <1>13 DEF vars, file, process, history, Calls, TypeOK, Made, CallsMakeSense, NewIdsDiffer, Registers
  <1> QED
    BY <1>1, <1>2, <1>3, <1>4, <1>5, <1>6, <1>7, <1>8, <1>9, <1>10, <1>11, <1>12, <1>13
       DEF Next, Refused, Accept, Return, Raise, Die
-----------------------------------------------------------------------------
(***************************************************************************)
(* Revocations.                                                            *)
(***************************************************************************)

\* A step that leaves the file alone and loads nothing.
LEMMA QuietKeepsRevocations ==
    ASSUME TypeOK, Revocations, UNCHANGED <<db, text, revoked, overwritten>>,
           retired' \subseteq revoked,
           \A q \in Clients : view'[q] \in {view[q], Unlisted},
           \A q \in Clients : pc'[q] \in {"loaded", "writing"} =>
               pc'[q] = pc[q] /\ view'[q] = view[q] /\ since'[q] = since[q],
           \A q \in Clients : pc'[q] = "done" =>
               (pc[q] = "done" /\ op'[q] = op[q]) \/ op'[q].cred \in revoked
    PROVE  Revocations'
  <1>1. RevocationSticks'
    BY DEF Revocations, RevocationSticks
  <1>2. ViewsCurrent'
    BY DEF Revocations, ViewsCurrent
  <1>3. OnlyRevokedListed'
    BY NothingsOK DEF Revocations, OnlyRevokedListed
  <1>4. RetiredAreRevoked'
    BY DEF Revocations, RetiredAreRevoked
  <1> QED
    BY <1>1, <1>2, <1>3, <1>4 DEF Revocations

\* The process writes what it loaded, which lacks only what was revoked since.
LEMMA WriteKeepsRevocations ==
    ASSUME Calls, Revocations, NEW p \in Clients, Write(p)
    PROVE  Revocations'
  <1> DEFINE now == IF Registers(p) THEN {} ELSE {op[p].cred}
  <1>1. /\ pc[p] = "writing"
        /\ db' = IF text' = "whole" THEN Edited(p) ELSE Unlisted
        /\ view' = [view EXCEPT ![p] = Unlisted]
        /\ revoked' = revoked \cup now /\ overwritten' = overwritten \cup (since[p] \ now)
        /\ since' = [q \in Clients |-> IF q # p /\ pc[q] \in {"loaded", "writing"}
                                       THEN since[q] \cup now ELSE {}]
        /\ UNCHANGED <<op, retired>>
    BY DEF Write, Goto
  <1>2. /\ pc' = [pc EXCEPT ![p] = pc'[p]] /\ pc'[p] \notin {"loaded", "writing"}
        /\ pc'[p] = "done" => ~Registers(p) \/ ~op[p].revoke_old
    BY DEF Write, Goto, Calls, TypeOK
  <1>3. /\ TypeOK /\ op[p].cred \in Creds \cup {None} /\ op[p].new \in Creds \cup {None}
        /\ ~Registers(p) => op[p].cred \in Creds
    BY <1>1 DEF Calls, TypeOK, Call, CallsMakeSense
  <1>4. \A c \in revoked : Registers(p) => c # op[p].new
    BY DEF Calls, Made, Registers
  <1>5. \A c \in Creds : /\ Edited(p)[c] = "revoked" => c \in revoked'
                         /\ c \in revoked' \ overwritten' => Edited(p)[c] = "revoked"
    <2>1. \A c \in Creds : view[p][c] = "revoked" => c \in revoked
      BY DEF Revocations, OnlyRevokedListed
    <2>2. \A c \in revoked \ (overwritten \cup since[p]) : view[p][c] = "revoked"
      BY <1>1 DEF Revocations, ViewsCurrent
    <2>3. CASE Registers(p)
      <3>1. Edited(p) = [view[p] EXCEPT ![op[p].new] = "active"] /\ now = {} /\ op[p].new \in Creds
        BY <1>3, <2>3 DEF Edited, Registers
      <3>2. revoked' = revoked /\ overwritten' = overwritten \cup since[p]
        BY <1>1, <3>1
      <3> HIDE DEF now
      <3> QED
        BY <1>3, <1>4, <2>1, <2>2, <2>3, <3>1, <3>2 DEF TypeOK
    <2>4. CASE ~Registers(p)
      <3>1. Edited(p) = [view[p] EXCEPT ![op[p].cred] = "revoked"] /\ now = {op[p].cred}
        BY <2>4 DEF Edited
      <3> HIDE DEF now
      <3> QED
        BY <1>1, <1>3, <2>1, <2>2, <3>1, <2>4 DEF TypeOK
    <2> QED
      BY <2>3, <2>4
  <1>6. (now = {op[p].cred} /\ ~Registers(p)) \/ (now = {} /\ Registers(p))
    OBVIOUS
  <1> HIDE DEF now
  <1>7. RevocationSticks'
    <2>1. revoked' \subseteq Creds
      BY <1>1, <1>3, <1>6 DEF TypeOK
    <2>2. text' = "whole" => db' = Edited(p)
      BY <1>1
    <2> QED
      BY <1>5, <2>1, <2>2 DEF RevocationSticks
  <1>8. ViewsCurrent'
    BY <1>1, <1>2, <1>3 DEF ViewsCurrent, Revocations, TypeOK
  <1>9. OnlyRevokedListed'
    BY <1>1, <1>3, <1>5, NothingsOK DEF OnlyRevokedListed, Revocations, TypeOK
  <1>10. RetiredAreRevoked'
    <2>1. pc'[p] = "done" /\ (op[p].kind = "revoke" \/ op[p].revoke_old) => op[p].cred \in revoked'
      BY <1>1, <1>2, <1>6 DEF Calls, CallsMakeSense, Registers
    <2> QED
      BY <1>1, <1>2, <2>1 DEF RetiredAreRevoked, Revocations, Calls, TypeOK
  <1> QED
    BY <1>7, <1>8, <1>9, <1>10 DEF Revocations

LEMMA RevocationsStep == Calls /\ Revocations /\ [Next]_vars => Revocations'
  <1> SUFFICES ASSUME Calls, Revocations, [Next]_vars
               PROVE  Revocations'
    OBVIOUS
  <1>t. TypeOK /\ retired \subseteq revoked
    BY DEF Calls, Revocations, RetiredAreRevoked
  <1>1. ASSUME NEW p \in Clients, NEW step \in {"trust", "load"}, NEW call, Begin(p, step, call)
        PROVE  Revocations'
    <2>1. /\ UNCHANGED <<db, text, revoked, overwritten, retired, view, since>>
          /\ pc' = [pc EXCEPT ![p] = step]
          /\ \A q \in Clients : q # p => op'[q] = op[q]
      BY <1>1, <1>t DEF Begin, Goto, file, TypeOK
    <2> QED
      BY <1>1, <1>t, <2>1, QuietKeepsRevocations DEF TypeOK
  <1>2. ASSUME NEW p \in Clients, End(p),
               \/ CheckTrust(p) \/ CheckExpiry(p) \/ Accept(p) \/ Refused(p) \/ Return(p) \/ Raise(p) \/ Die(p)
        PROVE  Revocations'
    <2>1. UNCHANGED <<db, text, revoked, overwritten>>
      BY <1>2 DEF CheckTrust, CheckExpiry, Accept, Refused, Return, Raise, Die, file
    <2>2. retired' \subseteq revoked
      <3>1. CASE Return(p)
        BY <1>t, <3>1 DEF Return, Revocations, RetiredAreRevoked
      <3>2. CASE ~Return(p)
        BY <1>2, <1>t, <3>2 DEF CheckTrust, CheckExpiry, Accept, Refused, Raise, Die
      <3> QED
        BY <3>1, <3>2
    <2>3. /\ pc' = [pc EXCEPT ![p] = "idle"] /\ view' = [view EXCEPT ![p] = Unlisted]
          /\ since' = [since EXCEPT ![p] = {}] /\ op' = [op EXCEPT ![p] = NoCall]
      BY <1>2 DEF End, Goto
    <2> QED
      BY <1>t, <2>1, <2>2, <2>3, QuietKeepsRevocations DEF TypeOK
  <1>3. ASSUME NEW p \in Clients,
               ((CheckTrust(p) \/ CheckExpiry(p)) /\ ~End(p)) \/ Eligible(p) \/ (\E new \in Creds : Issue(p, new))
        PROVE  Revocations'
    <2>1. UNCHANGED <<db, text, revoked, overwritten, view, since, retired>>
      BY <1>3 DEF CheckTrust, CheckExpiry, Eligible, Issue, file, history
    <2>2. PICK step \in {"expiry", "status", "issue", "load"} : pc' = [pc EXCEPT ![p] = step]
      BY <1>3 DEF CheckTrust, AfterTrust, CheckExpiry, Eligible, Issue, Goto
    <2>3. \A q \in Clients : q # p => op'[q] = op[q]
      BY <1>3, <1>t DEF CheckTrust, CheckExpiry, Eligible, Issue, TypeOK
    <2> QED
      BY <1>t, <2>1, <2>2, <2>3, QuietKeepsRevocations DEF TypeOK
  <1>4. ASSUME NEW p \in Clients, LookUp(p)
        PROVE  Revocations'
    <2>1. /\ UNCHANGED <<db, text, revoked, overwritten, view, since, retired, op>>
          /\ pc[p] = "lookup"
          /\ pc' = [pc EXCEPT ![p] = IF db[op[p].cred] = "revoked" THEN "done" ELSE "load"]
      BY <1>4 DEF LookUp, file, history, Goto
    <2>2. op[p].cred \in Creds
      BY <1>t, <2>1 DEF Calls, CallsMakeSense, TypeOK, Call
    <2>3. pc'[p] = "done" => op'[p].cred \in revoked
      BY <1>t, <2>1, <2>2 DEF Revocations, OnlyRevokedListed, TypeOK
    <2> QED
      BY <1>t, <2>1, <2>3, QuietKeepsRevocations DEF TypeOK
  <1>5. ASSUME NEW p \in Clients, Load(p)
        PROVE  Revocations'
    <2> DEFINE step == IF ~Registers(p) /\ db[op[p].cred] = "revoked" THEN "done" ELSE "loaded"
    <2>1. /\ pc[p] = "load" /\ text = "whole" /\ pc' = [pc EXCEPT ![p] = step]
          /\ view' = [view EXCEPT ![p] = db] /\ since' = [since EXCEPT ![p] = {}]
          /\ UNCHANGED <<db, text, op, revoked, overwritten, retired>>
      BY <1>5 DEF Load, Goto, file
    <2>2. ~Registers(p) => op[p].cred \in Creds
      BY <1>t, <2>1 DEF Calls, CallsMakeSense, TypeOK, Call
    <2>3. \A c \in revoked \ overwritten : db[c] = "revoked"
      BY <2>1 DEF Revocations, RevocationSticks
    <2>4. step = "done" => op[p].cred \in revoked
      BY <2>2 DEF Revocations, OnlyRevokedListed
    <2> HIDE DEF step
    <2>5. RevocationSticks'
      BY <2>1, <2>3 DEF RevocationSticks
    <2>6. ViewsCurrent'
      BY <1>t, <2>1, <2>3 DEF Revocations, ViewsCurrent, TypeOK
    <2>7. OnlyRevokedListed'
      BY <1>t, <2>1 DEF Revocations, OnlyRevokedListed, TypeOK
    <2>8. RetiredAreRevoked'
      BY <1>t, <2>1, <2>4 DEF Revocations, RetiredAreRevoked, TypeOK
    <2> QED
      BY <2>5, <2>6, <2>7, <2>8 DEF Revocations
  <1>6. ASSUME NEW p \in Clients, Truncate(p)
        PROVE  Revocations'
    <2>1. /\ pc[p] = "loaded" /\ pc' = [pc EXCEPT ![p] = "writing"] /\ db' = Unlisted /\ text' = "empty"
          /\ UNCHANGED <<op, view, since, revoked, overwritten, retired>>
      BY <1>6 DEF Truncate, Goto, history
    <2>2. RevocationSticks' /\ OnlyRevokedListed'
      BY <2>1, NothingsOK DEF Revocations, RevocationSticks, OnlyRevokedListed
    <2>3. ViewsCurrent' /\ RetiredAreRevoked'
      BY <1>t, <2>1 DEF Revocations, ViewsCurrent, RetiredAreRevoked, TypeOK
    <2> QED
      BY <2>2, <2>3 DEF Revocations
  <1>7. ASSUME NEW p \in Clients, Write(p)
        PROVE  Revocations'
    BY <1>7, WriteKeepsRevocations
  <1>8. ASSUME UNCHANGED <<file, process, revoked, overwritten, since, retired>>
        PROVE  Revocations'
    BY <1>8 DEF Revocations, RevocationSticks, ViewsCurrent, OnlyRevokedListed, RetiredAreRevoked, file, process
  <1>9. ASSUME Pass \/ (\E i \in Issuers, t \in Types : Withdraw(i, t) \/ Grant(i, t)) \/ UNCHANGED vars
        PROVE  UNCHANGED <<file, process, revoked, overwritten, since, retired>>
    BY <1>9 DEF Pass, Withdraw, Grant, vars, history
  <1>10. ASSUME NEW p \in Clients, NEW c \in Creds, Present(p, c) \/ Revoke(p, c)
         PROVE  Revocations'
    BY <1>1, <1>10 DEF Present, Revoke
  <1>11. ASSUME NEW p \in Clients, NEW kind \in {"renew", "rotate"}, NEW c \in Creds, NEW i \in Issuers,
                NEW revoke_old \in BOOLEAN, NEW force \in BOOLEAN, Replace(p, kind, c, i, revoke_old, force)
         PROVE  Revocations'
    BY <1>1, <1>11 DEF Replace
  <1>12. ASSUME NEW p \in Clients, NEW i \in DevIssuers, NEW new \in Creds, Mint(p, i, new)
         PROVE  Revocations'
    BY <1>1, <1>12 DEF Mint
  <1> QED
    BY <1>2, <1>3, <1>4, <1>5, <1>6, <1>7, <1>8, <1>9, <1>10, <1>11, <1>12
       DEF Next, Accept, Refused, Return, Raise, Die
-----------------------------------------------------------------------------
(***************************************************************************)
(* Answers.                                                                *)
(***************************************************************************)

\* A step that answers nothing new, after which a process checks only if it
\* checked the same before.
LEMMA QuietKeepsAnswers ==
    ASSUME Calls, Answers,
           \A q \in Clients : answer'[q] \in {answer[q], NoAnswer},
           revoked \subseteq revoked', overwritten \subseteq overwritten',
           \A q \in Clients : pc'[q] \in {"trust", "expiry", "status", "issue"} =>
               pc'[q] = pc[q] /\ trusted' \subseteq seen'[q] /\ seen[q] \subseteq seen'[q]
               /\ op'[q] = op[q],
           \A q \in Clients : op'[q] = op[q] \/ op'[q].late = FALSE,
           \A c \in Creds : age[c] # "unmade" => envelope'[c] = envelope[c]
    PROVE  Answers'
  <1>1. ChecksSeen'
    <2> SUFFICES ASSUME NEW q \in Clients, pc'[q] \in {"trust", "expiry", "status", "issue"}
                 PROVE  /\ trusted' \subseteq seen'[q]
                        /\ pc'[q] \in {"expiry", "status"} /\ op'[q].kind = "present" => Pair(q)' \in seen'[q]
      BY DEF ChecksSeen
    <2>1. op[q].cred \in Creds /\ envelope'[op[q].cred] = envelope[op[q].cred]
      BY DEF Calls, CallsMakeSense, Made, TypeOK, Call
    <2>2. op[q].kind = "present" => Pair(q)' = Pair(q)
      BY <2>1 DEF Pair
    <2> QED
      BY <2>1, <2>2 DEF Answers, ChecksSeen
  <1>2. AlwaysVouchedFor'
    BY DEF Answers, AlwaysVouchedFor, NoAnswer
  <1>3. LateCalls'
    BY DEF Answers, LateCalls
  <1>4. NothingAfterRevocation'
    BY DEF Answers, NothingAfterRevocation, NoAnswer
  <1> QED
    BY <1>1, <1>2, <1>3, <1>4 DEF Answers

\* A call that begins has seen all that is allowed at that moment.
LEMMA BeginKeepsAnswers ==
    ASSUME Calls, Answers, NEW p \in Clients, NEW step \in {"trust", "load"}, NEW call \in Call,
           Begin(p, step, call),
           \A q \in Clients : pc'[q] \in {"trust", "expiry", "status", "issue"} => trusted' \subseteq seen'[q],
           \A q \in Clients \ {p} : pc[q] \in {"trust", "expiry", "status", "issue"} => seen[q] \subseteq seen'[q]
    PROVE  Answers'
  <1> DEFINE late == call.cred \in revoked
  <1>1. /\ op' = [op EXCEPT ![p] = [call EXCEPT !.late = late]]
        /\ pc' = [pc EXCEPT ![p] = step]
        /\ answer' = [answer EXCEPT ![p] = NoAnswer]
        /\ UNCHANGED <<envelope, revoked, overwritten>>
    BY DEF Begin, Goto
  <1>2. /\ op'[p].late = late /\ op'[p].cred = call.cred
        /\ pc'[p] = step /\ answer'[p] = NoAnswer
        /\ \A q \in Clients \ {p} : op'[q] = op[q] /\ pc'[q] = pc[q] /\ answer'[q] = answer[q]
    <2> HIDE DEF late
    <2> QED
      BY <1>1 DEF Calls, TypeOK, Call
  <1>3. ChecksSeen'
    <2> SUFFICES ASSUME NEW q \in Clients, pc'[q] \in {"trust", "expiry", "status", "issue"}
                 PROVE  /\ trusted' \subseteq seen'[q]
                        /\ pc'[q] \in {"expiry", "status"} /\ op'[q].kind = "present" => Pair(q)' \in seen'[q]
      BY DEF ChecksSeen
    <2>1. CASE q = p
      BY <1>2, <2>1
    <2>2. CASE q # p
      <3>1. op[q].kind = "present" => Pair(q)' = Pair(q)
        BY <1>1, <1>2, <2>2 DEF Pair
      <3> QED
        BY <1>2, <2>2, <3>1 DEF Answers, ChecksSeen
    <2> QED
      BY <2>1, <2>2
  <1>4. AlwaysVouchedFor'
    BY <1>2 DEF Answers, AlwaysVouchedFor, NoAnswer
  <1>5. LateCalls'
    <2>1. op'[p].late => op'[p].cred \in revoked
      BY <1>2
    <2> HIDE DEF late
    <2> QED
      BY <1>1, <1>2, <2>1 DEF Answers, LateCalls
  <1>6. NothingAfterRevocation'
    BY <1>1, <1>2 DEF Answers, NothingAfterRevocation, NoAnswer
  <1> QED
    BY <1>3, <1>4, <1>5, <1>6 DEF Answers

\* What is accepted or replaced was vouched for, and its revocation, if saved
\* before the call, was overwritten.
LEMMA AnsweredKeepsAnswers ==
    ASSUME Calls, Answers, NEW p \in Clients, pc[p] \in {"status", "issue"},
           answer' = [answer EXCEPT ![p] = Answered(p)],
           Pair(p) \in seen[p],
           op[p].late /\ op[p].kind \in {"present", "renew"} => op[p].cred \in overwritten,
           UNCHANGED <<envelope, trusted, revoked, overwritten>>,
           pc'[p] \notin {"trust", "expiry", "status", "issue"}, op'[p].late = FALSE,
           \A q \in Clients \ {p} : pc'[q] = pc[q] /\ op'[q] = op[q] /\ seen'[q] = seen[q]
    PROVE  Answers'
  <1>1. /\ answer'[p] = Answered(p) /\ \A q \in Clients \ {p} : answer'[q] = answer[q]
    BY DEF Calls, TypeOK
  <1>2. ChecksSeen'
    <2> SUFFICES ASSUME NEW q \in Clients, pc'[q] \in {"trust", "expiry", "status", "issue"}
                 PROVE  /\ trusted' \subseteq seen'[q]
                        /\ pc'[q] \in {"expiry", "status"} /\ op'[q].kind = "present" => Pair(q)' \in seen'[q]
      BY DEF ChecksSeen
    <2>1. q # p
      OBVIOUS
    <2>2. op[q].kind = "present" => Pair(q)' = Pair(q)
      BY <2>1 DEF Pair
    <2> QED
      BY <2>1, <2>2 DEF Answers, ChecksSeen
  <1>3. AlwaysVouchedFor'
    <2> DEFINE vouched == Pair(p) \in seen[p]
    <2>1. Answered(p) = [kind |-> op[p].kind, cred |-> op[p].cred, late |-> op[p].late, vouched |-> vouched]
      BY DEF Answered
    <2>2. vouched
      OBVIOUS
    <2> HIDE DEF vouched
    <2>3. Answered(p).vouched = vouched
      BY <2>1
    <2>4. answer'[p].vouched
      BY <1>1, <2>2, <2>3
    <2> QED
      BY <1>1, <2>4 DEF Answers, AlwaysVouchedFor
  <1>4. LateCalls'
    BY DEF Answers, LateCalls
  <1>5. NothingAfterRevocation'
    BY <1>1 DEF Answers, NothingAfterRevocation, Answered
  <1> QED
    BY <1>2, <1>3, <1>4, <1>5 DEF Answers
LEMMA AllowSeen ==
    ASSUME Calls, Answers, NEW pairs, Allow(pairs),
           \A q \in Clients : pc'[q] \in {"trust", "expiry", "status", "issue"} => pc'[q] = pc[q]
    PROVE  \A q \in Clients :
             /\ pc'[q] \in {"trust", "expiry", "status", "issue"} => trusted' \subseteq seen'[q]
             /\ pc[q] \in {"trust", "expiry", "status", "issue"} => seen[q] \subseteq seen'[q]
  <1> SUFFICES ASSUME NEW q \in Clients
               PROVE  /\ pc'[q] \in {"trust", "expiry", "status", "issue"} => trusted' \subseteq seen'[q]
                      /\ pc[q] \in {"trust", "expiry", "status", "issue"} => seen[q] \subseteq seen'[q]
    OBVIOUS
  <1>1. pc[q] \in {"trust", "expiry", "status", "issue"} => trusted \subseteq seen[q]
    BY DEF Answers, ChecksSeen
  <1>2. /\ trusted' = trusted \cup pairs
        /\ seen'[q] = IF pc[q] \in {"trust", "expiry", "status", "issue"} THEN seen[q] \cup pairs ELSE {}
    BY DEF Allow
  <1> QED
    BY <1>1, <1>2

LEMMA AnswersStep == Calls /\ Revocations /\ Answers /\ [Next]_vars => Answers'
  <1> SUFFICES ASSUME Calls, Revocations, Answers, [Next]_vars
               PROVE  Answers'
    OBVIOUS
  <1>t. TypeOK /\ NoCall \in Call
    BY NothingsOK DEF Calls
  <1>s. \A q \in Clients : pc[q] \in {"trust", "expiry", "status", "issue"} => trusted \subseteq seen[q]
    BY DEF Answers, ChecksSeen
  <1>1. ASSUME NEW p \in Clients, NEW call \in Call, Begin(p, "trust", call), UNCHANGED trusted,
               seen' = [seen EXCEPT ![p] = trusted]
        PROVE  Answers'
    <2>1. /\ pc' = [pc EXCEPT ![p] = "trust"] /\ trusted' = trusted
      BY <1>1 DEF Begin, Goto
    <2>2. /\ \A q \in Clients : pc'[q] \in {"trust", "expiry", "status", "issue"} => trusted' \subseteq seen'[q]
          /\ \A q \in Clients \ {p} : seen[q] \subseteq seen'[q]
      BY <1>1, <1>t, <1>s, <2>1 DEF TypeOK
    <2> QED
      BY <1>1, <2>2, BeginKeepsAnswers
  <1>2. ASSUME NEW p \in Clients, NEW c \in Creds, Present(p, c)
        PROVE  Answers'
    <2>1. [NoCall EXCEPT !.kind = "present", !.cred = c] \in Call
      BY <1>t DEF Call, Kinds
    <2> QED
      BY <1>1, <1>2, <2>1 DEF Present
  <1>3. ASSUME NEW p \in Clients, NEW kind \in {"renew", "rotate"}, NEW c \in Creds, NEW i \in Issuers,
               NEW revoke_old \in BOOLEAN, NEW force \in BOOLEAN, Replace(p, kind, c, i, revoke_old, force)
        PROVE  Answers'
    <2>1. [NoCall EXCEPT !.kind = kind, !.cred = c, !.issuer = i, !.revoke_old = revoke_old, !.force = force] \in Call
      BY <1>t DEF Call, Kinds
    <2> QED
      BY <1>1, <1>3, <2>1 DEF Replace
  <1>4. ASSUME NEW p \in Clients, NEW i \in DevIssuers, NEW new \in Creds, Mint(p, i, new)
        PROVE  Answers'
    <2> DEFINE call == [NoCall EXCEPT !.kind = "mint", !.new = new, !.issuer = i]
    <2>1. call \in Call
      BY <1>t DEF Call, Kinds
    <2>2. Begin(p, "load", call) /\ Allow({i} \X Types)
      BY <1>4 DEF Mint
    <2> HIDE DEF call
    <2>3. pc' = [pc EXCEPT ![p] = "load"]
      BY <2>2 DEF Begin, Goto
    <2>4. \A q \in Clients : pc'[q] \in {"trust", "expiry", "status", "issue"} => pc'[q] = pc[q]
      BY <1>t, <2>3 DEF TypeOK
    <2>5. /\ \A q \in Clients : pc'[q] \in {"trust", "expiry", "status", "issue"} => trusted' \subseteq seen'[q]
          /\ \A q \in Clients \ {p} : pc[q] \in {"trust", "expiry", "status", "issue"} => seen[q] \subseteq seen'[q]
      BY <2>2, <2>4, AllowSeen
    <2> QED
      BY <2>1, <2>2, <2>5, BeginKeepsAnswers
  <1>5. ASSUME NEW p \in Clients, NEW c \in Creds, Revoke(p, c)
        PROVE  Answers'
    <2> DEFINE call == [NoCall EXCEPT !.kind = "revoke", !.cred = c]
    <2>1. call \in Call
      BY <1>t DEF Call, Kinds
    <2>2. Begin(p, "load", call) /\ UNCHANGED <<trusted, seen>>
      BY <1>5 DEF Revoke
    <2> HIDE DEF call
    <2>3. pc' = [pc EXCEPT ![p] = "load"]
      BY <2>2 DEF Begin, Goto
    <2>4. \A q \in Clients : pc'[q] \in {"trust", "expiry", "status", "issue"} => trusted' \subseteq seen'[q]
      BY <1>t, <1>s, <2>2, <2>3 DEF TypeOK
    <2> QED
      BY <2>1, <2>2, <2>4, BeginKeepsAnswers
  <1>6. ASSUME NEW p \in Clients, Accept(p)
        PROVE  Answers'
    <2>1. /\ pc[p] = "status" /\ op[p].kind = "present" /\ StatusOK(p) /\ text = "whole" /\ End(p)
          /\ answer' = [answer EXCEPT ![p] = Answered(p)]
          /\ UNCHANGED <<envelope, trusted, revoked, overwritten>>
      BY <1>6 DEF Accept
    <2>2. Pair(p) \in seen[p]
      BY <2>1 DEF Answers, ChecksSeen
    <2>3. op[p].late => op[p].cred \in overwritten
      BY <2>1 DEF StatusOK, Answers, LateCalls, Revocations, RevocationSticks
    <2>4. /\ pc' = [pc EXCEPT ![p] = "idle"] /\ op' = [op EXCEPT ![p] = NoCall]
          /\ seen' = [seen EXCEPT ![p] = {}]
      BY <2>1 DEF End, Goto
    <2>5. /\ pc'[p] = "idle" /\ op'[p].late = FALSE
          /\ \A q \in Clients \ {p} : pc'[q] = pc[q] /\ op'[q] = op[q] /\ seen'[q] = seen[q]
      BY <1>t, <2>4, NothingsOK DEF TypeOK
    <2> QED
      BY <2>1, <2>2, <2>3, <2>5, AnsweredKeepsAnswers
  <1>7. ASSUME NEW p \in Clients, NEW new \in Creds, Issue(p, new)
        PROVE  Answers'
    <2>1. /\ pc[p] = "issue" /\ Allowed(p)
          /\ answer' = [answer EXCEPT ![p] = Answered(p)]
          /\ UNCHANGED <<envelope, trusted, revoked, overwritten>>
          /\ pc' = [pc EXCEPT ![p] = "load"] /\ seen' = [seen EXCEPT ![p] = {}]
          /\ op' = [op EXCEPT ![p] = [op[p] EXCEPT !.new = new, !.late = FALSE]]
      BY <1>7, <1>t DEF Issue, Goto, TypeOK
    <2>2. Pair(p) \in seen[p]
      BY <1>s, <2>1 DEF Allowed
    <2>3. op[p].late /\ op[p].kind \in {"present", "renew"} => op[p].cred \in overwritten
      BY <2>1 DEF Answers, LateCalls, Calls, CallsMakeSense
    <2>4. /\ pc'[p] = "load" /\ op'[p].late = FALSE
          /\ \A q \in Clients \ {p} : pc'[q] = pc[q] /\ op'[q] = op[q] /\ seen'[q] = seen[q]
      BY <1>t, <2>1 DEF TypeOK, Call
    <2> QED
      BY <2>1, <2>2, <2>3, <2>4, AnsweredKeepsAnswers
  <1>8. ASSUME NEW p \in Clients, CheckTrust(p) \/ CheckExpiry(p), ~End(p)
        PROVE  Answers'
    <2>1. /\ (pc[p] = "trust" /\ Allowed(p)) \/ pc[p] = "expiry"
          /\ pc' = [pc EXCEPT ![p] = "expiry"] \/ pc' = [pc EXCEPT ![p] = "status"]
          /\ UNCHANGED <<envelope, trusted, op, seen, answer, revoked, overwritten>>
      BY <1>8 DEF CheckTrust, AfterTrust, CheckExpiry, Goto
    <2>2. op[p].kind = "present" => Pair(p)' = Pair(p)
      BY <2>1 DEF Pair
    <2>3. ChecksSeen'
      <3> SUFFICES ASSUME NEW q \in Clients, pc'[q] \in {"trust", "expiry", "status", "issue"}
                   PROVE  /\ trusted \subseteq seen[q]
                          /\ pc'[q] \in {"expiry", "status"} /\ op[q].kind = "present" => Pair(q)' \in seen[q]
        BY <2>1 DEF ChecksSeen
      <3>1. CASE q = p
        BY <1>s, <2>1, <2>2, <3>1 DEF Allowed, Answers, ChecksSeen
      <3>2. CASE q # p
        <4>1. pc'[q] = pc[q]
          BY <1>t, <2>1, <3>2 DEF TypeOK
        <4>2. op[q].kind = "present" => Pair(q)' = Pair(q)
          BY <2>1 DEF Pair
        <4> QED
          BY <4>1, <4>2 DEF Answers, ChecksSeen
      <3> QED
        BY <3>1, <3>2
    <2>4. LateCalls'
      BY <1>t, <2>1 DEF Answers, LateCalls, TypeOK
    <2>5. AlwaysVouchedFor' /\ NothingAfterRevocation'
      BY <2>1 DEF Answers, AlwaysVouchedFor, NothingAfterRevocation
    <2> QED
      BY <2>3, <2>4, <2>5 DEF Answers
  <1>9. ASSUME NEW p \in Clients, Eligible(p)
        PROVE  Answers'
    <2> DEFINE o == [op[p] EXCEPT !.force = FALSE]
    <2>1. /\ pc[p] = "status" /\ text = "whole" /\ pc' = [pc EXCEPT ![p] = "issue"]
          /\ op[p].kind \in {"renew", "rotate"} /\ (op[p].kind = "renew" => StatusOK(p))
          /\ op' = [op EXCEPT ![p] = o]
          /\ UNCHANGED <<envelope, trusted, seen, answer, revoked, overwritten>>
      BY <1>9 DEF Eligible, Goto, Renewable, history
    <2>2. o.kind = op[p].kind /\ o.late = op[p].late /\ o.cred = op[p].cred /\ o.issuer = op[p].issuer
      BY <1>t DEF TypeOK, Call
    <2> HIDE DEF o
    <2>3. /\ op'[p] = o /\ pc'[p] = "issue"
          /\ \A q \in Clients \ {p} : op'[q] = op[q] /\ pc'[q] = pc[q]
      BY <1>t, <2>1 DEF TypeOK
    <2>4. ChecksSeen'
      <3> SUFFICES ASSUME NEW q \in Clients, pc'[q] \in {"trust", "expiry", "status", "issue"}
                   PROVE  /\ trusted \subseteq seen[q]
                          /\ pc'[q] \in {"expiry", "status"} /\ op'[q].kind = "present" => Pair(q)' \in seen[q]
        BY <2>1 DEF ChecksSeen
      <3>1. CASE q = p
        BY <1>s, <2>1, <2>3, <3>1
      <3>2. CASE q # p
        <4>1. op[q].kind = "present" => Pair(q)' = Pair(q)
          BY <2>1, <2>3, <3>2 DEF Pair
        <4> QED
          BY <2>3, <3>2, <4>1 DEF Answers, ChecksSeen
      <3> QED
        BY <3>1, <3>2
    <2>5. op[p].kind = "renew" /\ op[p].late => op[p].cred \in overwritten
      BY <2>1 DEF StatusOK, Answers, LateCalls, Revocations, RevocationSticks
    <2>6. LateCalls'
      BY <2>1, <2>2, <2>3, <2>5 DEF Answers, LateCalls
    <2>7. AlwaysVouchedFor' /\ NothingAfterRevocation'
      BY <2>1 DEF Answers, AlwaysVouchedFor, NothingAfterRevocation
    <2> QED
      BY <2>4, <2>6, <2>7 DEF Answers
  <1>10. ASSUME NEW p \in Clients, End(p),
                CheckTrust(p) \/ CheckExpiry(p) \/ Refused(p) \/ Return(p) \/ Raise(p) \/ Die(p)
         PROVE  Answers'
    <2>1. UNCHANGED <<envelope, trusted, revoked, overwritten, answer>>
      BY <1>10 DEF CheckTrust, CheckExpiry, Refused, Return, Raise, Die
    <2>2. /\ pc' = [pc EXCEPT ![p] = "idle"] /\ seen' = [seen EXCEPT ![p] = {}]
          /\ op' = [op EXCEPT ![p] = NoCall]
      BY <1>10 DEF End, Goto
    <2>3. \A q \in Clients : /\ op'[q] = op[q] \/ op'[q].late = FALSE
                             /\ pc'[q] \in {"trust", "expiry", "status", "issue"} =>
                                  q # p /\ pc'[q] = pc[q] /\ seen'[q] = seen[q] /\ op'[q] = op[q]
      BY <1>t, <2>2, NothingsOK DEF TypeOK
    <2> QED
      BY <1>s, <2>1, <2>3, QuietKeepsAnswers
  <1>11. ASSUME NEW p \in Clients, Load(p) \/ Truncate(p) \/ LookUp(p) \/ Write(p)
         PROVE  Answers'
    <2>1. UNCHANGED <<trusted, op, seen, answer>> /\ revoked \subseteq revoked' /\ overwritten \subseteq overwritten'
      BY <1>11 DEF Load, Truncate, LookUp, Write, history
    <2>2. PICK step \in {"loaded", "writing", "done", "load", "lookup"} : pc' = [pc EXCEPT ![p] = step]
      BY <1>11 DEF Load, Truncate, LookUp, Write, Goto
    <2>3. \A c \in Creds : age[c] # "unmade" => envelope'[c] = envelope[c]
      <3>1. CASE Write(p) /\ Registers(p)
        <4>1. PICK e : envelope' = [envelope EXCEPT ![op[p].new] = e]
          <5>1. Enters(p) /\ Registers(p)
            BY <3>1 DEF Write
          <5> QED
            BY <5>1 DEF Enters
        <4> QED
          BY <1>t, <3>1, <4>1 DEF Registers, TypeOK
      <3>2. CASE ~(Write(p) /\ Registers(p))
        BY <1>11, <3>2 DEF Load, Truncate, LookUp, Write, Enters
      <3> QED
        BY <3>1, <3>2
    <2>4. \A q \in Clients : pc'[q] \in {"trust", "expiry", "status", "issue"} => pc'[q] = pc[q]
      BY <1>t, <2>2 DEF TypeOK
    <2> QED
      BY <1>s, <2>1, <2>3, <2>4, QuietKeepsAnswers
  <1>12. ASSUME Pass \/ (\E i \in Issuers, t \in Types : Withdraw(i, t)) \/ UNCHANGED vars
         PROVE  Answers'
    <2>1. UNCHANGED <<envelope, pc, op, seen, answer, revoked, overwritten>> /\ trusted' \subseteq trusted
      BY <1>12 DEF Pass, Withdraw, vars, process, history
    <2> QED
      BY <1>s, <2>1, QuietKeepsAnswers
  <1>13. ASSUME NEW i \in Issuers, NEW t \in Types, Grant(i, t)
         PROVE  Answers'
    <2>1. UNCHANGED <<envelope, pc, op, answer, revoked, overwritten>> /\ Allow({<<i, t>>})
      BY <1>13 DEF Grant, process
    <2>2. \A q \in Clients : pc[q] \in {"trust", "expiry", "status", "issue"} =>
              trusted' \subseteq seen'[q] /\ seen[q] \subseteq seen'[q]
      BY <2>1, AllowSeen
    <2> QED
      BY <2>1, <2>2, QuietKeepsAnswers
  <1> QED
    BY <1>2, <1>3, <1>4, <1>5, <1>6, <1>7, <1>8, <1>9, <1>10, <1>11, <1>12, <1>13
       DEF Next, Refused, Return, Raise, Die

-----------------------------------------------------------------------------
LEMMA LifecycleInit == Init => Calls /\ Revocations /\ Answers
  <1> SUFFICES ASSUME Init
               PROVE  Calls /\ Revocations /\ Answers
    OBVIOUS
  <1>1. Calls
    BY CallsInit
  <1>2. /\ db = Unlisted /\ revoked = {} /\ retired = {} /\ pc = [p \in Clients |-> "idle"]
        /\ view = [p \in Clients |-> Unlisted] /\ op = [p \in Clients |-> NoCall]
        /\ answer = [p \in Clients |-> NoAnswer]
    BY DEF Init
  <1>3. Revocations
    BY <1>2, NothingsOK
       DEF Revocations, RevocationSticks, ViewsCurrent, OnlyRevokedListed, RetiredAreRevoked
  <1>4. Answers
    <2>1. \A p \in Clients : answer[p].vouched = TRUE /\ answer[p].late = FALSE /\ op[p].late = FALSE /\ pc[p] = "idle"
      BY <1>2, NothingsOK DEF NoAnswer
    <2> QED
      BY <2>1 DEF Answers, ChecksSeen, AlwaysVouchedFor, LateCalls, NothingAfterRevocation
  <1> QED
    BY <1>1, <1>3, <1>4

LEMMA LifecycleInv == Spec => [](Calls /\ Revocations /\ Answers)
  <1>1. Calls /\ Revocations /\ Answers /\ [Next]_vars => (Calls /\ Revocations /\ Answers)'
    BY CallsStep, RevocationsStep, AnswersStep
  <1> QED
    BY LifecycleInit, <1>1, PTL DEF Spec

(***************************************************************************)
(* Type correctness: the status file, the calls and what they loaded.      *)
(***************************************************************************)
THEOREM LifecycleTypes == Spec => []TypeOK
  <1>1. Calls => TypeOK
    BY DEF Calls
  <1> QED
    BY LifecycleInv, <1>1, PTL

(***************************************************************************)
(* Whoever interleaves, dies or tears the file: a saved revocation (revoke *)
(* in credential_status.py) is only undone by the write of a process that  *)
(* had loaded the file before.                                             *)
(***************************************************************************)
THEOREM RevocationsStick == Spec => []RevocationSticks
  <1>1. Revocations => RevocationSticks
    BY DEF Revocations
  <1> QED
    BY LifecycleInv, <1>1, PTL

(***************************************************************************)
(* present_credential and renew_credential, called after a revocation was  *)
(* saved, succeed only if it was undone that way.                          *)
(***************************************************************************)
THEOREM NothingSucceedsAfterRevocation == Spec => []NothingAfterRevocation
  <1>1. Answers => NothingAfterRevocation
    BY DEF Answers
  <1> QED
    BY LifecycleInv, <1>1, PTL

(***************************************************************************)
(* Every presentation accepted and every replacement issued was allowed by *)
(* the trust registry at some moment of the call.                          *)
(***************************************************************************)
THEOREM EveryAnswerVouchedFor == Spec => []AlwaysVouchedFor
  <1>1. Answers => AlwaysVouchedFor
    BY DEF Answers
  <1> QED
    BY LifecycleInv, <1>1, PTL

(***************************************************************************)
(* What rotate_credential, renew_credential or cmd_revoke returned from    *)
(* having revoked is revoked.                                              *)
(***************************************************************************)
THEOREM RotationsRetire == Spec => []ReturnedRotationRetires
  <1>1. Revocations => ReturnedRotationRetires
    BY DEF Revocations, RevocationSticks, RetiredAreRevoked, ReturnedRotationRetires
  <1> QED
    BY LifecycleInv, <1>1, PTL
=============================================================================
