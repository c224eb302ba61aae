----------------------- MODULE ProofVerificationProofs -----------------------
(***************************************************************************)
(* Proofs about ProofVerification and RuntimePath: for any schemes,        *)
(* protocols, policies and requests, and any number of changes of registry *)
(* and catalog while a proof is verified.                                  *)
(***************************************************************************)
EXTENDS RuntimePath, TLAPS

USE VerificationAssumption

(***************************************************************************)
(* A set of positions in a list of at most eight has a first one.          *)
(***************************************************************************)
LEMMA FirstExists ==
    ASSUME NEW S \in SUBSET (1 .. 8), S # {}
    PROVE  \E i \in S : \A j \in S : i <= j
  <1> SUFFICES ASSUME \A i \in S : \E j \in S : j < i
               PROVE  FALSE
    OBVIOUS
  <1>1. 1 \notin S
    OBVIOUS
  <1>2. 2 \notin S
    BY <1>1
  <1>3. 3 \notin S
    BY <1>1, <1>2
  <1>4. 4 \notin S
    BY <1>1, <1>2, <1>3
  <1>5. 5 \notin S
    BY <1>1, <1>2, <1>3, <1>4
  <1>6. 6 \notin S
    BY <1>1, <1>2, <1>3, <1>4, <1>5
  <1>7. 7 \notin S
    BY <1>1, <1>2, <1>3, <1>4, <1>5, <1>6
  <1>8. 8 \notin S
    BY <1>1, <1>2, <1>3, <1>4, <1>5, <1>6, <1>7
  <1>9. \A i \in 1 .. 8 : i \notin S
    BY <1>1, <1>2, <1>3, <1>4, <1>5, <1>6, <1>7, <1>8
  <1> QED
    BY <1>9

(***************************************************************************)
(* What the conditions return.                                             *)
(***************************************************************************)
LEMMA EvaluateC4Passes ==
    ASSUME NEW r, EvaluateC4(r).outcome = "PASS"
    PROVE  /\ r.protocol \in AllowedProtocols
           /\ entries[r.protocol].content # None
           /\ r.strict => r.policy = ActivePolicy
  BY DEF EvaluateC4, Cond

LEMMA EvaluateC4Outcome ==
    ASSUME NEW r
    PROVE  /\ EvaluateC4(r).outcome \in Outcomes
           /\ EvaluateC4(r).outcome = "PASS" => EvaluateC4(r) = Pass
  BY DEF EvaluateC4, Cond, Pass, Outcomes

LEMMA AllowedVersionOutcome ==
    ASSUME NEW state, NEW r
    PROVE  /\ AllowedVersion(state, r).outcome \in Outcomes
           /\ AllowedVersion(state, r) = Pass => r.protocol \in allowed
           /\ AllowedVersion(state, r).outcome = "PASS" => AllowedVersion(state, r) = Pass
  BY DEF AllowedVersion, Cond, Pass, Outcomes

LEMMA MinimumVersionPasses ==
    ASSUME NEW state \in States \ {"unregistered"}, NEW r, MinimumVersion(state, r).outcome = "PASS"
    PROVE  Usable(state) /\ ~Below(r.scheme)
  BY DEF MinimumVersion, Cond, States, Usable

LEMMA MinimumVersionOutcome ==
    ASSUME NEW state, NEW r
    PROVE  MinimumVersion(state, r).outcome \in Outcomes
  BY DEF MinimumVersion, Cond, Pass, Outcomes

LEMMA EvalC3Passes ==
    ASSUME NEW r
    PROVE  /\ EvalC3(r).outcome \in Outcomes
           /\ EvalC3(r).outcome = "PASS" => r.claim \notin {"absent", "other"} /\ r.bound
  BY DEF EvalC3, Cond, Pass, Outcomes

LEMMA EvalC1Passes ==
    ASSUME NEW r
    PROVE  /\ EvalC1(r).outcome \in Outcomes
           /\ EvalC1(r).outcome = "PASS" => r.proof \notin {"malformed", "wrong"}
  BY DEF EvalC1, Cond, Pass, Outcomes

\* _eval_c2 passes only what has none of the flaws it looks for, but for a large
\* revision where the scheme has no low modulus.
LEMMA EvalC2Passes ==
    ASSUME NEW r
    PROVE  /\ EvalC2(r).outcome \in Outcomes
           /\ EvalC2(r).outcome = "PASS" =>
                  /\ r.flaws \cap (Flaws \ {"raises", "large"}) = {}
                  /\ "large" \in r.flaws => r.scheme \notin bounded
  <1> DEFINE seen == r.flaws \ (IF r.scheme \in bounded THEN {} ELSE {"large"})
             found == {i \in DOMAIN FlawOutcomes : FlawOutcomes[i][1] \in seen}
             first == CHOOSE i \in found : \A j \in found : i <= j
  <1>1. DOMAIN FlawOutcomes = 1 .. 8
    BY DEF FlawOutcomes
  <1>2. \A i \in 1 .. 8 : FlawOutcomes[i][2] \in Outcomes \ {"PASS"}
    BY DEF FlawOutcomes, Outcomes
  <1>3. \A f \in Flaws \ {"raises"} : \E i \in 1 .. 8 : FlawOutcomes[i][1] = f
    BY DEF FlawOutcomes, Flaws
  <1>4. EvalC2(r) = IF found = {} THEN Pass ELSE Cond(FlawOutcomes[first][2], FlawOutcomes[first][1])
    BY DEF EvalC2
  <1>5. CASE found = {}
    <2>1. seen \cap (Flaws \ {"raises"}) = {}
      <3> HIDE DEF seen
      <3> QED
        BY <1>1, <1>3, <1>5
    <2>2. "large" \in Flaws \ {"raises"}
      BY DEF Flaws
    <2>3. EvalC2(r).outcome = "PASS"
      BY <1>4, <1>5 DEF Pass, Cond
    <2> QED
      BY <2>1, <2>2, <2>3 DEF Outcomes
  <1>6. CASE found # {}
    <2>1. found \subseteq 1 .. 8
      BY <1>1
    <2> HIDE DEF found
    <2>2. \E i \in found : \A j \in found : i <= j
      BY <1>6, <2>1, FirstExists
    <2>3. first \in found
      BY <2>2
    <2>4. FlawOutcomes[first][2] \in Outcomes \ {"PASS"}
      BY <1>2, <2>1, <2>3
    <2> HIDE DEF first
    <2>5. EvalC2(r).outcome = FlawOutcomes[first][2]
      BY <1>4, <1>6 DEF Cond
    <2> QED
      BY <2>4, <2>5
  <1> QED
    BY <1>5, <1>6

\* evaluate_acceptance finds no failure only where all four conditions passed.
LEMMA NoFailurePasses ==
    ASSUME NEW cs, PrimaryFailure(cs) = None
    PROVE  \A c \in Conditions : cs[c].outcome = "PASS"
  <1> DEFINE failed == {i \in DOMAIN FAILURE_PRECEDENCE : cs[FAILURE_PRECEDENCE[i]].outcome # "PASS"}
             first == CHOOSE i \in failed : \A j \in failed : i <= j
  <1>1. DOMAIN FAILURE_PRECEDENCE = 1 .. 4
    BY DEF FAILURE_PRECEDENCE
  <1>2. \A i \in 1 .. 4 : FAILURE_PRECEDENCE[i] \in Conditions
    BY DEF FAILURE_PRECEDENCE, Conditions
  <1>3. \A c \in Conditions : \E i \in 1 .. 4 : FAILURE_PRECEDENCE[i] = c
    BY DEF FAILURE_PRECEDENCE, Conditions
  <1>4. None = IF failed = {} THEN None ELSE FAILURE_PRECEDENCE[first]
    BY DEF PrimaryFailure
  <1>5. failed \subseteq 1 .. 4
    BY <1>1
  <1>6. failed = {}
    <2> SUFFICES ASSUME failed # {}
                 PROVE  FALSE
      OBVIOUS
    <2> HIDE DEF failed
    <2>1. failed \in SUBSET (1 .. 8)
      BY <1>5
    <2>2. \E i \in failed : \A j \in failed : i <= j
      BY <2>1, FirstExists
    <2>3. first \in 1 .. 4
      BY <2>2, <1>5
    <2> HIDE DEF first
    <2> QED
      BY <1>2, <1>4, <2>3
  <1> QED
    BY <1>1, <1>3, <1>6

-----------------------------------------------------------------------------
(***************************************************************************)
(* The call in progress: whatever the registry grants now was granted      *)
(* during the call, and each condition that passed tells what it found.    *)
(***************************************************************************)
Admitted(r) ==
    /\ r.protocol \in Protocols
    /\ entries[r.protocol].content # None
    /\ r.strict => r.policy = ActivePolicy

Needed == {"scheme", "protocol", "version"}

GrantsAreKept == pc # "idle" => Grants(request) \subseteq granted

PassedC4 ==
    /\ pc \in {"scheme", "validate", "minimum"} => Admitted(request)
    /\ pc \in {"validate", "minimum"} /\ Usable(descriptor) => "scheme" \in granted
    /\ pc = "minimum" => "protocol" \in granted /\ descriptor # "unregistered"
    /\ pc \in {"public", "proof"} /\ conditions["C4"].outcome = "PASS" =>
         Admitted(request) /\ Needed \subseteq granted

\* The flaws a request may have and pass.
Excused(r) == r.flaws \subseteq {"large"} /\ (r.flaws # {} => "wide" \in granted)

PassedPublic ==
    pc = "proof" =>
      /\ conditions["C2"].outcome = "PASS" => Excused(request)
      /\ conditions["C3"].outcome = "PASS" => request.bound /\ request.claim \in {"shown", "unshown"}

AcceptedOfProtocol == result.accepted => result.request.protocol \in Protocols

\* Whoever publishes has a content to store.
StoresContent == \A k \in Publishers : Publishing(k) => pending[k].content # None

VerificationInv ==
    TypeOK /\ StoresContent /\ GrantsAreKept /\ PassedC4 /\ PassedPublic /\ AcceptedOfProtocol
    /\ AcceptedIsGrounded

LEMMA VerificationInit == Init => VerificationInv
  <1> SUFFICES ASSUME Init
               PROVE  VerificationInv
    OBVIOUS
  <1>1. TypeOK
    BY DEF Init, TypeOK, States, Pass, Cond, Outcomes, NoResult
  <1>2. ~result.accepted /\ pc = "idle"
    BY DEF Init, NoResult
  <1> QED
    BY <1>1, <1>2 DEF Init, VerificationInv, StoresContent, Publishing, GrantsAreKept, PassedC4, PassedPublic,
                      AcceptedOfProtocol, AcceptedIsGrounded

\* What the other threads do: they unpublish no contract, and the running call is
\* granted what a change grants.
LEMMA GovernanceKeepsInv ==
    ASSUME VerificationInv, Change,
           schemes' \in [Schemes -> States], bounded' \in SUBSET Schemes,
           minimum' \in [SchemeIds -> Nat], allowed' \in SUBSET Protocols,
           entries' = entries, crossed' \in SUBSET Protocols, StoresContent',
           pending' \in [Publishers -> [protocol : Protocols \cup {None}, content : Contents \cup {None}]]
    PROVE  VerificationInv'
  <1>1. UNCHANGED verification /\ granted \subseteq granted'
    BY DEF Change
  <1>2. Grants(request)' \subseteq {"scheme", "protocol", "version", "wide"}
    BY DEF Grants
  <1>3. TypeOK'
    <2>1. granted' \in SUBSET {"scheme", "protocol", "version", "wide"} /\ changes' \in Nat
      <3>1. granted' = granted \/ granted' = granted \cup Grants(request)'
        BY DEF Change
      <3>2. granted \in SUBSET {"scheme", "protocol", "version", "wide"} /\ changes \in Nat
        BY DEF VerificationInv, TypeOK
      <3>3. changes' \in Nat
        BY <3>2 DEF Change
      <3> QED
        BY <1>2, <3>1, <3>2, <3>3
    <2>2. UNCHANGED <<pc, request, descriptor, conditions, result>>
      BY <1>1 DEF verification
    <2>3. /\ pc' \in {"idle", "scheme", "validate", "minimum", "public", "proof"}
          /\ request' \in Requests \cup {None} /\ (pc' = "idle" <=> request' = None)
          /\ descriptor' \in States
          /\ DOMAIN conditions' = Conditions /\ \A c \in Conditions : conditions'[c].outcome \in Outcomes
          /\ result'.accepted \in BOOLEAN /\ result'.request \in Requests \cup {None}
          /\ entries' \in [Protocols -> [content : Contents \cup {None}, seal : Contents \cup {None}]]
      BY <2>2 DEF VerificationInv, TypeOK
    <2> QED
      BY <2>1, <2>3 DEF TypeOK
  <1>4. GrantsAreKept'
    BY <1>1 DEF GrantsAreKept, Change, verification
  <1>5. PassedC4'
    BY <1>1 DEF VerificationInv, PassedC4, Admitted, verification, Usable
  <1>6. PassedPublic' /\ AcceptedOfProtocol' /\ AcceptedIsGrounded'
    BY <1>1 DEF VerificationInv, PassedPublic, Excused, AcceptedOfProtocol, AcceptedIsGrounded, verification
  <1> QED
    BY <1>3, <1>4, <1>5, <1>6 DEF VerificationInv

\* What a publisher stores is a contract of its protocol.
LEMMA StoreKeeps ==
    ASSUME VerificationInv, NEW k \in Publishers, Store(k)
    PROVE  VerificationInv'
  <1> DEFINE new == pending[k]
  <1>1. /\ new.protocol \in Protocols /\ new.content \in Contents \cup {None}
        /\ entries' = [entries EXCEPT ![new.protocol] = [content |-> new.content, seal |-> new.content]]
        /\ pending' = [pending EXCEPT ![k] = [protocol |-> None, content |-> None]]
        /\ UNCHANGED <<registry, crossed, changes, verification, granted>>
    BY DEF Store, Publishing, VerificationInv, TypeOK
  <1>2. new.content # None
    BY DEF VerificationInv, StoresContent, Store
  <1> HIDE DEF new
  <1>3. /\ entries' \in [Protocols -> [content : Contents \cup {None}, seal : Contents \cup {None}]]
        /\ \A p \in Protocols : entries[p].content # None => entries'[p].content # None
    BY <1>1, <1>2 DEF VerificationInv, TypeOK
  <1>4. TypeOK' /\ StoresContent'
    BY <1>1, <1>3 DEF VerificationInv, TypeOK, StoresContent, Publishing, registry, verification
  <1>5. GrantsAreKept'
    BY <1>1 DEF VerificationInv, GrantsAreKept, Grants, Usable, Below, registry, verification
  <1>6. PassedC4'
    BY <1>1, <1>3 DEF VerificationInv, PassedC4, Admitted, Usable, verification
  <1>7. PassedPublic' /\ AcceptedOfProtocol' /\ AcceptedIsGrounded'
    BY <1>1, <1>3 DEF VerificationInv, PassedPublic, Excused, AcceptedOfProtocol, AcceptedIsGrounded, verification
  <1> QED
    BY <1>4, <1>5, <1>6, <1>7 DEF VerificationInv

LEMMA VerificationStep == VerificationInv /\ [Next]_vars => VerificationInv'
  <1> SUFFICES ASSUME VerificationInv, [Next]_vars
               PROVE  VerificationInv'
    OBVIOUS
  <1>1. ASSUME NEW r \in Requests, Begin(r)
        PROVE  VerificationInv'
    <2>1. r \in Request /\ r # None
      BY DEF Request
    <2>2. EvaluateC4(r).outcome \in Outcomes
      BY EvaluateC4Outcome
    <2>3. conditions' = [c \in Conditions |-> IF c = "C4" THEN EvaluateC4(r) ELSE Pass]
      BY <1>1 DEF Begin
    <2>4. TypeOK'
      <3>1. DOMAIN conditions' = Conditions /\ \A c \in Conditions : conditions'[c].outcome \in Outcomes
        BY <2>2, <2>3 DEF Pass, Cond, Outcomes
      <3>2. granted' \in SUBSET {"scheme", "protocol", "version", "wide"}
        BY <1>1 DEF Begin, Grants
      <3> QED
        BY <1>1, <2>1, <3>1, <3>2 DEF Begin, VerificationInv, TypeOK, registry, catalog, NoResult
    <2>5. GrantsAreKept'
      BY <1>1 DEF Begin, GrantsAreKept, Grants, registry, Usable, Below
    <2>6. PassedC4'
      <3>1. UNCHANGED entries /\ request' = r /\ pc' \in {"scheme", "public"}
            /\ (pc' = "scheme" <=> EvaluateC4(r) = Pass) /\ conditions'["C4"] = EvaluateC4(r)
        BY <1>1, <2>3 DEF Begin, Conditions, catalog
      <3>2. Pass.outcome = "PASS"
        BY DEF Pass, Cond
      <3>3. EvaluateC4(r) = Pass => Admitted(r)
        BY <3>2, EvaluateC4Passes DEF Admitted
      <3>4. pc' = "public" => EvaluateC4(r).outcome # "PASS"
        BY <3>1, EvaluateC4Outcome
      <3> QED
        BY <3>1, <3>3, <3>4 DEF PassedC4, Admitted
    <2>7. PassedPublic' /\ AcceptedOfProtocol' /\ AcceptedIsGrounded'
      BY <1>1 DEF Begin, NoResult, PassedPublic, AcceptedOfProtocol, AcceptedIsGrounded
    <2>8. StoresContent'
      BY <1>1 DEF Begin, VerificationInv, StoresContent, Publishing, catalog
    <2> QED
      BY <2>4, <2>5, <2>6, <2>7, <2>8 DEF VerificationInv
  <1>2. CASE ResolveScheme
    <2>1. request \in Request
      BY <1>2 DEF ResolveScheme, VerificationInv, TypeOK
    <2>2. TypeOK'
      BY <1>2, <2>1 DEF ResolveScheme, VerificationInv, TypeOK, registry, catalog, Request
    <2>3. PassedC4'
      BY <1>2 DEF ResolveScheme, VerificationInv, PassedC4, Admitted, GrantsAreKept, Grants, Usable, catalog
    <2>4. AcceptedOfProtocol' /\ AcceptedIsGrounded' /\ StoresContent'
      BY <1>2 DEF ResolveScheme, VerificationInv, AcceptedOfProtocol, AcceptedIsGrounded, StoresContent, Publishing,
                  catalog
    <2> QED
      BY <1>2, <2>2, <2>3, <2>4 DEF ResolveScheme, VerificationInv, GrantsAreKept, Grants, registry, Usable, Below,
                                    PassedPublic
  <1>3. CASE Validate
    <2> DEFINE outcome == AllowedVersion(descriptor, request)
    <2>1. /\ conditions' = [conditions EXCEPT !["C4"] = outcome]
          /\ IF outcome = Pass THEN pc' = "minimum" /\ UNCHANGED descriptor
             ELSE pc' = "public" /\ descriptor' = "unregistered"
          /\ UNCHANGED <<registry, catalog, changes, request, result, granted>> /\ pc = "validate"
      BY <1>3 DEF Validate
    <2>2. /\ outcome.outcome \in Outcomes
          /\ outcome = Pass => request.protocol \in allowed
          /\ outcome.outcome = "PASS" => outcome = Pass
      BY AllowedVersionOutcome
    <2>3. outcome = Pass => descriptor # "unregistered"
      BY DEF AllowedVersion, Cond, Pass
    <2> HIDE DEF outcome
    <2>4. conditions'["C4"] = outcome
      BY <2>1 DEF VerificationInv, TypeOK, Conditions
    <2>5. TypeOK'
      BY <2>1, <2>2 DEF VerificationInv, TypeOK, registry, catalog, States
    <2>6. PassedC4'
      <3>1. Admitted(request)' /\ pc' \in {"minimum", "public"} /\ (pc' = "minimum" <=> outcome = Pass)
        BY <2>1 DEF VerificationInv, PassedC4, Admitted, catalog
      <3>2. outcome = Pass => "protocol" \in granted'
        <4>1. outcome = Pass => "protocol" \in Grants(request)
          BY <2>2 DEF Grants
        <4> QED
          BY <2>1, <4>1 DEF VerificationInv, GrantsAreKept
      <3>3. pc' = "minimum" /\ Usable(descriptor') => "scheme" \in granted'
        BY <2>1 DEF VerificationInv, PassedC4
      <3> QED
        BY <2>1, <2>2, <2>3, <2>4, <3>1, <3>2, <3>3 DEF PassedC4, Admitted, Usable
    <2>7. AcceptedOfProtocol' /\ AcceptedIsGrounded' /\ StoresContent' /\ PassedPublic'
      BY <2>1 DEF VerificationInv, AcceptedOfProtocol, AcceptedIsGrounded, StoresContent, Publishing, catalog,
                  PassedPublic
    <2> QED
      BY <2>1, <2>5, <2>6, <2>7 DEF VerificationInv, GrantsAreKept, Grants, registry, Usable, Below
  <1>12. CASE CheckMinimum
    <2> DEFINE outcome == MinimumVersion(descriptor, request)
    <2>1. /\ conditions' = [conditions EXCEPT !["C4"] = outcome]
          /\ pc' = "public" /\ descriptor' = "unregistered" /\ pc = "minimum"
          /\ UNCHANGED <<registry, catalog, changes, request, result, granted>>
      BY <1>12 DEF CheckMinimum
    <2>2. outcome.outcome \in Outcomes
      BY MinimumVersionOutcome
    <2>3. outcome.outcome = "PASS" => Usable(descriptor) /\ ~Below(request.scheme)
      BY <2>1, MinimumVersionPasses DEF VerificationInv, TypeOK, PassedC4
    <2> HIDE DEF outcome
    <2>4. conditions'["C4"] = outcome
      BY <2>1 DEF VerificationInv, TypeOK, Conditions
    <2>5. TypeOK'
      BY <2>1, <2>2 DEF VerificationInv, TypeOK, registry, catalog, States
    <2>6. PassedC4'
      <3>1. Admitted(request)'
        BY <2>1 DEF VerificationInv, PassedC4, Admitted, catalog
      <3>2. outcome.outcome = "PASS" => Needed \subseteq granted'
        <4>1. outcome.outcome = "PASS" => "version" \in Grants(request)
          BY <2>3 DEF Grants
        <4> QED
          BY <2>1, <2>3, <4>1 DEF VerificationInv, GrantsAreKept, PassedC4, Needed
      <3> QED
        BY <2>1, <2>4, <3>1, <3>2 DEF PassedC4, Admitted, Needed
    <2>7. AcceptedOfProtocol' /\ AcceptedIsGrounded' /\ StoresContent' /\ PassedPublic'
      BY <2>1 DEF VerificationInv, AcceptedOfProtocol, AcceptedIsGrounded, StoresContent, Publishing, catalog,
                  PassedPublic
    <2> QED
      BY <2>1, <2>5, <2>6, <2>7 DEF VerificationInv, GrantsAreKept, Grants, registry, Usable, Below
  <1>4. CASE CheckPublic
    <2>1. request \in Request
      BY <1>4 DEF CheckPublic, VerificationInv, TypeOK
    <2>2. /\ conditions'["C2"] = EvalC2(request) /\ conditions'["C3"] = EvalC3(request)
          /\ conditions'["C4"] = conditions["C4"] /\ conditions'["C1"] = conditions["C1"]
          /\ DOMAIN conditions' = Conditions
      BY <1>4 DEF CheckPublic, VerificationInv, TypeOK, Conditions
    <2>3. TypeOK'
      BY <1>4, <2>2, EvalC2Passes, EvalC3Passes
         DEF CheckPublic, VerificationInv, TypeOK, registry, catalog, Conditions
    <2>4. PassedC4'
      BY <1>4, <2>2 DEF CheckPublic, VerificationInv, PassedC4, Admitted, catalog
    <2>5. PassedPublic'
      <3>1. request.flaws \subseteq Flaws /\ "raises" \notin request.flaws
            /\ request.claim \in {"absent", "unshown", "shown", "other"}
        BY <1>4, <2>1 DEF CheckPublic, Request
      <3>2. "large" \in request.flaws /\ conditions'["C2"].outcome = "PASS" => "wide" \in granted
        <4>1. "large" \in request.flaws /\ conditions'["C2"].outcome = "PASS" => request.scheme \notin bounded
          BY <2>2, EvalC2Passes
        <4>2. "large" \in request.flaws /\ conditions'["C2"].outcome = "PASS" => "wide" \in Grants(request)
          BY <4>1 DEF Grants
        <4> QED
          BY <1>4, <4>2 DEF CheckPublic, VerificationInv, GrantsAreKept
      <3>3. conditions'["C2"].outcome = "PASS" => request.flaws \subseteq {"large"}
        <4>1. conditions'["C2"].outcome = "PASS" => request.flaws \cap (Flaws \ {"raises", "large"}) = {}
          BY <2>2, EvalC2Passes
        <4> QED
          BY <3>1, <4>1
      <3>4. conditions'["C2"].outcome = "PASS" => Excused(request)
        BY <3>2, <3>3 DEF Excused
      <3>5. conditions'["C3"].outcome = "PASS" => request.bound /\ request.claim \in {"shown", "unshown"}
        BY <2>2, <3>1, EvalC3Passes
      <3>6. UNCHANGED <<request, granted>>
        BY <1>4 DEF CheckPublic
      <3> QED
        BY <3>4, <3>5, <3>6 DEF PassedPublic, Excused
    <2>6. AcceptedOfProtocol' /\ AcceptedIsGrounded' /\ StoresContent'
      BY <1>4 DEF CheckPublic, VerificationInv, AcceptedOfProtocol, AcceptedIsGrounded, StoresContent, Publishing,
                  catalog
    <2> QED
      BY <1>4, <2>3, <2>4, <2>5, <2>6 DEF CheckPublic, VerificationInv, GrantsAreKept, Grants, registry, Usable,
                                          Below
  <1>5. CASE CheckProof
    <2> DEFINE cs == [conditions EXCEPT !["C1"] = EvalC1(request)]
    <2>1. request \in Request
      BY <1>5 DEF CheckProof, VerificationInv, TypeOK
    <2>2. /\ cs["C1"] = EvalC1(request) /\ cs["C2"] = conditions["C2"]
          /\ cs["C3"] = conditions["C3"] /\ cs["C4"] = conditions["C4"]
      BY DEF VerificationInv, TypeOK, Conditions
    <2>3. Return(Conclusion(request, cs))
      BY <1>5 DEF CheckProof
    <2> HIDE DEF cs
    <2>4. result'.accepted => \A c \in Conditions : cs[c].outcome = "PASS"
      BY <2>3, NoFailurePasses DEF Return, Conclusion
    <2>5. result'.accepted \in BOOLEAN /\ result'.request = request
      BY <2>3 DEF Return, Conclusion
    <2>6. TypeOK'
      BY <1>5, <2>3, <2>5 DEF CheckProof, Return, VerificationInv, TypeOK, registry, catalog, Pass, Cond, Outcomes
    <2>7. result'.accepted =>
            /\ Admitted(request) /\ Needed \subseteq granted /\ Excused(request)
            /\ request.bound /\ request.claim \in {"shown", "unshown"}
            /\ request.proof = "right"
      BY <1>5, <2>1, <2>2, <2>4, EvalC1Passes
         DEF CheckProof, VerificationInv, PassedC4, PassedPublic, Conditions, Request
    <2>8. AcceptedOfProtocol' /\ AcceptedIsGrounded'
      BY <2>3, <2>5, <2>7 DEF Return, Admitted, Needed, Excused, AcceptedOfProtocol, AcceptedIsGrounded, catalog
    <2>9. StoresContent'
      BY <2>3 DEF Return, VerificationInv, StoresContent, Publishing, catalog
    <2> QED
      BY <2>3, <2>6, <2>8, <2>9 DEF Return, VerificationInv, GrantsAreKept, PassedC4, PassedPublic
  <1>6. CASE Raises
    <2>1. Return(Raised(request)) /\ pc # "idle"
      BY <1>6 DEF Raises
    <2>2. result'.accepted = FALSE /\ result'.request = request /\ pc' = "idle"
      BY <2>1 DEF Return, Raised
    <2>3. TypeOK'
      BY <2>1, <2>2 DEF Return, VerificationInv, TypeOK, registry, catalog, Pass, Cond, Outcomes
    <2>4. StoresContent'
      BY <2>1 DEF Return, VerificationInv, StoresContent, Publishing, catalog
    <2> QED
      BY <2>2, <2>3, <2>4 DEF VerificationInv, GrantsAreKept, PassedC4, PassedPublic, AcceptedOfProtocol,
                              AcceptedIsGrounded
  <1>7. ASSUME NEW scheme \in Schemes, NEW state \in States, NEW modulus, RegisterScheme(scheme, state, modulus)
        PROVE  VerificationInv'
    <2>1. StoresContent'
      BY <1>7 DEF RegisterScheme, VerificationInv, StoresContent, Publishing, catalog
    <2>2. schemes' \in [Schemes -> States] /\ bounded' \in SUBSET Schemes
      BY <1>7 DEF RegisterScheme, VerificationInv, TypeOK
    <2> QED
      BY <1>7, <2>1, <2>2, GovernanceKeepsInv DEF RegisterScheme, VerificationInv, TypeOK, catalog
  <1>8. ASSUME NEW id \in SchemeIds, NEW version \in Versions, SetMinSchemeVersion(id, version)
        PROVE  VerificationInv'
    <2>1. StoresContent'
      BY <1>8 DEF SetMinSchemeVersion, VerificationInv, StoresContent, Publishing, catalog
    <2> QED
      BY <1>8, <2>1, GovernanceKeepsInv DEF SetMinSchemeVersion, VerificationInv, TypeOK, catalog
  <1>9. ASSUME NEW protocols \in SUBSET Protocols, SetAllowedProtocolVersions(protocols)
        PROVE  VerificationInv'
    <2>1. StoresContent'
      BY <1>9 DEF SetAllowedProtocolVersions, VerificationInv, StoresContent, Publishing, catalog
    <2> QED
      BY <1>9, <2>1, GovernanceKeepsInv DEF SetAllowedProtocolVersions, VerificationInv, TypeOK, catalog
  <1>10. ASSUME NEW k \in Publishers, NEW p \in Protocols, NEW content \in Contents,
                NEW seal \in Contents \cup {None}, LookUp(k, p, content, seal)
         PROVE  VerificationInv'
    <2>1. pending' = [pending EXCEPT ![k] = [protocol |-> p, content |-> content]]
      BY <1>10 DEF LookUp
    <2>2. pending' \in [Publishers -> [protocol : Protocols \cup {None}, content : Contents \cup {None}]]
      BY <2>1 DEF VerificationInv, TypeOK
    <2>3. StoresContent'
      BY <2>1 DEF VerificationInv, TypeOK, StoresContent, Publishing
    <2>4. crossed' \in SUBSET Protocols
      BY <1>10 DEF LookUp, VerificationInv, TypeOK
    <2> QED
      BY <1>10, <2>2, <2>3, <2>4, GovernanceKeepsInv DEF LookUp, VerificationInv, TypeOK, registry
  <1>11. ASSUME NEW k \in Publishers, Store(k)
         PROVE  VerificationInv'
    BY <1>11, StoreKeeps
  <1>13. CASE UNCHANGED vars
    <2>1. UNCHANGED <<schemes, bounded, minimum, allowed, entries, pending, crossed, changes, pc, request, descriptor,
                      conditions, result, granted>>
      BY <1>13 DEF vars, registry, catalog, verification
    <2>2. TypeOK' /\ StoresContent'
      BY <2>1 DEF VerificationInv, TypeOK, StoresContent, Publishing
    <2>3. GrantsAreKept' /\ AcceptedOfProtocol' /\ AcceptedIsGrounded'
      BY <2>1 DEF VerificationInv, GrantsAreKept, Grants, Usable, Below, AcceptedOfProtocol, AcceptedIsGrounded
    <2>4. PassedC4' /\ PassedPublic'
      BY <2>1 DEF VerificationInv, PassedC4, Admitted, Usable, PassedPublic, Excused
    <2> QED
      BY <2>2, <2>3, <2>4 DEF VerificationInv
  <1> QED
    BY <1>1, <1>2, <1>3, <1>4, <1>5, <1>6, <1>7, <1>8, <1>9, <1>10, <1>11, <1>12, <1>13 DEF Next

\* Types, for any number of calls and changes.
THEOREM VerificationTypes == Spec => []TypeOK
  <1>1. VerificationInv => TypeOK
    BY DEF VerificationInv
  <1> QED
    BY VerificationInit, VerificationStep, <1>1, PTL DEF Spec

\* An accepted proof was right, and each grant it rests on was given during its
\* call, whatever the registry became in the course of it.
THEOREM AcceptedProofsAreGrounded == Spec => []AcceptedIsGrounded
  <1>1. VerificationInv => AcceptedIsGrounded
    BY DEF VerificationInv
  <1> QED
    BY VerificationInit, VerificationStep, <1>1, PTL DEF Spec

\* Where no two threads met, whoever is publishing found nothing and is alone.
PublisherIsAlone ==
    \A k \in Publishers : Publishing(k) /\ pending[k].protocol \notin crossed =>
        /\ entries[pending[k].protocol].content = None
        /\ \A j \in Publishers \ {k} : pending[j].protocol # pending[k].protocol

\* No step changes a published contract, for any number of publishers, unless two
\* of them looked its key up before either stored.
THEOREM ContractsStay == Spec => ContractsStayUnlessCrossed
  <1>1. Init => PublisherIsAlone
    BY DEF Init, PublisherIsAlone, Publishing
  <1> DEFINE Stays == \A p \in Protocols \ crossed : entries[p].content # None => entries'[p] = entries[p]
  <1>2. TypeOK /\ PublisherIsAlone /\ [Next]_vars => PublisherIsAlone' /\ [Stays]_vars
    <2> SUFFICES ASSUME TypeOK, PublisherIsAlone, [Next]_vars
                 PROVE  PublisherIsAlone' /\ Stays
      OBVIOUS
    <2>1. ASSUME NEW k \in Publishers, NEW p \in Protocols, NEW content \in Contents, NEW seal,
                 LookUp(k, p, content, seal)
          PROVE  PublisherIsAlone' /\ Stays
      <3>1. /\ entries' = entries /\ entries[p].content = None /\ ~Publishing(k)
            /\ pending' = [pending EXCEPT ![k] = [protocol |-> p, content |-> content]]
            /\ crossed' = crossed \cup {q \in {p} : \E j \in Publishers : pending[j].protocol = q}
        BY <2>1 DEF LookUp
      <3>2. pending'[k].protocol = p /\ \A j \in Publishers \ {k} : pending'[j] = pending[j]
        BY <3>1 DEF TypeOK
      <3>3. p \notin crossed' => \A j \in Publishers : pending[j].protocol # p
        BY <3>1
      <3>4. crossed \subseteq crossed'
        BY <3>1
      <3> QED
        BY <3>1, <3>2, <3>3, <3>4 DEF PublisherIsAlone, Publishing
    <2>2. ASSUME NEW k \in Publishers, Store(k)
          PROVE  PublisherIsAlone' /\ Stays
      <3> DEFINE p == pending[k].protocol
      <3>1. /\ Publishing(k) /\ p \in Protocols /\ crossed' = crossed
            /\ pending' = [pending EXCEPT ![k] = [protocol |-> None, content |-> None]]
            /\ \A q \in Protocols \ {p} : entries'[q] = entries[q]
        BY <2>2 DEF Store, Publishing, TypeOK
      <3>2. pending'[k].protocol = None /\ \A j \in Publishers \ {k} : pending'[j] = pending[j]
        BY <3>1 DEF TypeOK
      <3>3. Stays
        BY <3>1 DEF PublisherIsAlone
      <3>4. \A j \in Publishers \ {k} : Publishing(j) /\ pending[j].protocol \notin crossed =>
                pending[j].protocol \in Protocols \ {p}
        BY <3>1 DEF PublisherIsAlone, Publishing, TypeOK
      <3> HIDE DEF p
      <3>5. PublisherIsAlone'
        BY <3>1, <3>2, <3>4 DEF PublisherIsAlone, Publishing
      <3> QED
        BY <3>3, <3>5
    <2>3. CASE UNCHANGED <<entries, pending, crossed>>
      BY <2>3 DEF PublisherIsAlone, Publishing
    <2> QED
      BY <2>1, <2>2, <2>3
         DEF Next, Begin, ResolveScheme, Validate, CheckMinimum, CheckPublic, CheckProof, Raises, Return,
             RegisterScheme, SetMinSchemeVersion, SetAllowedProtocolVersions, catalog, vars
  <1> QED
    BY VerificationTypes, <1>1, <1>2, PTL DEF Spec, ContractsStayUnlessCrossed
-----------------------------------------------------------------------------
(***************************************************************************)
(* The three classifications of a failed condition.                        *)
(***************************************************************************)
Classified(c) ==
    /\ c.outcome \in Outcomes
    /\ c.outcome = "UNVERIFIABLE" <=> StatusOf(c.reason) = "UNVERIFIABLE_CONDITION"

LEMMA PassClassified == Classified(Pass)
  BY DEF Classified, Pass, Cond, Outcomes, StatusOf

LEMMA EvaluateC4Classified ==
    ASSUME NEW r
    PROVE  Classified(EvaluateC4(r))
  BY PassClassified DEF EvaluateC4, Classified, Cond, Outcomes, StatusOf

LEMMA AllowedVersionClassified ==
    ASSUME NEW state, NEW r
    PROVE  Classified(AllowedVersion(state, r))
  BY PassClassified DEF AllowedVersion, Classified, Cond, Outcomes, StatusOf

LEMMA MinimumVersionClassified ==
    ASSUME NEW state, NEW r
    PROVE  Classified(MinimumVersion(state, r))
  BY PassClassified DEF MinimumVersion, Classified, Cond, Outcomes, StatusOf

LEMMA EvalC3Classified ==
    ASSUME NEW r
    PROVE  Classified(EvalC3(r))
  BY PassClassified DEF EvalC3, Classified, Cond, Outcomes, StatusOf

LEMMA EvalC1Classified ==
    ASSUME NEW r
    PROVE  Classified(EvalC1(r))
  BY PassClassified DEF EvalC1, Classified, Cond, Outcomes, StatusOf

LEMMA EvalC2Classified ==
    ASSUME NEW r
    PROVE  Classified(EvalC2(r))
  <1> DEFINE seen == r.flaws \ (IF r.scheme \in bounded THEN {} ELSE {"large"})
             found == {i \in DOMAIN FlawOutcomes : FlawOutcomes[i][1] \in seen}
             first == CHOOSE i \in found : \A j \in found : i <= j
  <1>1. DOMAIN FlawOutcomes = 1 .. 8
    BY DEF FlawOutcomes
  <1>2. \A i \in 1 .. 8 : Classified(Cond(FlawOutcomes[i][2], FlawOutcomes[i][1]))
    <2>1. /\ Classified(Cond("FAIL", "leak")) /\ Classified(Cond("FAIL", "missing"))
          /\ Classified(Cond("AMBIGUOUS", "ambiguous")) /\ Classified(Cond("FAIL", "lapsed"))
          /\ Classified(Cond("UNVERIFIABLE", "unverifiable"))
          /\ Classified(Cond("MALFORMED", "malformed")) /\ Classified(Cond("MALFORMED", "scalar"))
          /\ Classified(Cond("MALFORMED", "large"))
      BY DEF Classified, Cond, Outcomes, StatusOf
    <2> QED
      BY <2>1 DEF FlawOutcomes
  <1>3. EvalC2(r) = IF found = {} THEN Pass ELSE Cond(FlawOutcomes[first][2], FlawOutcomes[first][1])
    BY DEF EvalC2
  <1>4. CASE found = {}
    BY <1>3, <1>4, PassClassified
  <1>5. CASE found # {}
    <2>1. found \in SUBSET (1 .. 8)
      BY <1>1
    <2> HIDE DEF found
    <2>2. first \in 1 .. 8
      BY <1>5, <2>1, FirstExists
    <2> HIDE DEF first
    <2> QED
      BY <1>2, <1>3, <1>5, <2>2
  <1> QED
    BY <1>4, <1>5

\* The primary failure is a condition that failed.
LEMMA PrimaryFailed ==
    ASSUME NEW cs, PrimaryFailure(cs) # None
    PROVE  PrimaryFailure(cs) \in Conditions /\ cs[PrimaryFailure(cs)].outcome # "PASS"
  <1> DEFINE failed == {i \in DOMAIN FAILURE_PRECEDENCE : cs[FAILURE_PRECEDENCE[i]].outcome # "PASS"}
             first == CHOOSE i \in failed : \A j \in failed : i <= j
  <1>1. DOMAIN FAILURE_PRECEDENCE = 1 .. 4
    BY DEF FAILURE_PRECEDENCE
  <1>2. \A i \in 1 .. 4 : FAILURE_PRECEDENCE[i] \in Conditions
    BY DEF FAILURE_PRECEDENCE, Conditions
  <1>3. PrimaryFailure(cs) = IF failed = {} THEN None ELSE FAILURE_PRECEDENCE[first]
    BY DEF PrimaryFailure
  <1>4. \A i \in failed : i \in 1 .. 4 /\ cs[FAILURE_PRECEDENCE[i]].outcome # "PASS"
    BY <1>1
  <1>5. failed # {} /\ failed \in SUBSET (1 .. 8)
    BY <1>1, <1>3
  <1> HIDE DEF failed
  <1>6. first \in failed
    BY <1>5, FirstExists
  <1> HIDE DEF first
  <1> QED
    BY <1>2, <1>3, <1>4, <1>5, <1>6

ClassifiedInv ==
    /\ \A c \in Conditions : Classified(conditions[c])
    /\ ErrorsAreUnverifiable
    /\ result.accepted => result.outcome = "VERIFIED_ELIGIBILITY"

LEMMA ConclusionAgrees ==
    ASSUME NEW r, NEW cs, \A c \in Conditions : Classified(cs[c]),
           NEW res, res = Conclusion(r, cs)
    PROVE  /\ VerificationCode(res) = "error" <=> res.outcome = "UNVERIFIABLE"
           /\ VerificationCode(res) = "valid" <=> res.outcome = "VERIFIED_ELIGIBILITY"
           /\ res.accepted => res.outcome = "VERIFIED_ELIGIBILITY"
  <1> DEFINE primary == PrimaryFailure(cs)
  <1>1. /\ res.accepted <=> primary = None
        /\ res.status = IF primary = None THEN "OK" ELSE StatusOf(cs[primary].reason)
        /\ res.outcome = Taxonomy(cs)
    BY DEF Conclusion
  <1>2. CASE primary = None
    BY <1>1, <1>2 DEF Taxonomy, VerificationCode
  <1>3. CASE primary # None
    <2>1. primary \in Conditions /\ cs[primary].outcome # "PASS"
      BY <1>3, PrimaryFailed
    <2>2. Classified(cs[primary])
      BY <2>1
    <2>3. Taxonomy(cs) = IF cs[primary].outcome = "FAIL" THEN "CLAIM_NOT_SATISFIED" ELSE cs[primary].outcome
      BY <1>3 DEF Taxonomy
    <2> HIDE DEF primary
    <2> QED
      BY <1>1, <1>3, <2>1, <2>2, <2>3 DEF Classified, Outcomes, VerificationCode
  <1> QED
    BY <1>2, <1>3

LEMMA ClassifiedStep == TypeOK /\ ClassifiedInv /\ [Next]_vars => ClassifiedInv'
  <1> SUFFICES ASSUME TypeOK, ClassifiedInv, [Next]_vars
               PROVE  ClassifiedInv'
    OBVIOUS
  <1>t. DOMAIN conditions = Conditions
    BY DEF TypeOK
  <1>1. ASSUME NEW r \in Requests, Begin(r)
        PROVE  ClassifiedInv'
    <2>1. \A c \in Conditions : conditions'[c] \in {EvaluateC4(r), Pass}
      BY <1>1 DEF Begin
    <2>2. result' = NoResult /\ result'.accepted = FALSE
      BY <1>1 DEF Begin, NoResult
    <2> QED
      BY <2>1, <2>2, EvaluateC4Classified, PassClassified DEF ClassifiedInv, ErrorsAreUnverifiable
  <1>2. CASE Validate
    <2>1. \A c \in Conditions : conditions'[c] \in {conditions[c], AllowedVersion(descriptor, request)}
      BY <1>t, <1>2 DEF Validate
    <2>2. UNCHANGED result
      BY <1>2 DEF Validate
    <2> QED
      BY <2>1, <2>2, AllowedVersionClassified DEF ClassifiedInv, ErrorsAreUnverifiable
  <1>7. CASE CheckMinimum
    <2>1. \A c \in Conditions : conditions'[c] \in {conditions[c], MinimumVersion(descriptor, request)}
      BY <1>t, <1>7 DEF CheckMinimum
    <2>2. UNCHANGED result
      BY <1>7 DEF CheckMinimum
    <2> QED
      BY <2>1, <2>2, MinimumVersionClassified DEF ClassifiedInv, ErrorsAreUnverifiable
  <1>3. CASE CheckPublic
    <2>1. \A c \in Conditions : conditions'[c] \in {conditions[c], EvalC2(request), EvalC3(request)}
      BY <1>t, <1>3 DEF CheckPublic
    <2>2. UNCHANGED result
      BY <1>3 DEF CheckPublic
    <2> QED
      BY <2>1, <2>2, EvalC2Classified, EvalC3Classified DEF ClassifiedInv, ErrorsAreUnverifiable
  <1>4. CASE CheckProof
    <2> DEFINE cs == [conditions EXCEPT !["C1"] = EvalC1(request)]
    <2>1. Return(Conclusion(request, cs))
      BY <1>4 DEF CheckProof
    <2>2. \A c \in Conditions : Classified(cs[c])
      BY <1>t, EvalC1Classified DEF ClassifiedInv
    <2> HIDE DEF cs
    <2>3. result' = Conclusion(request, cs) /\ \A c \in Conditions : conditions'[c] = Pass
      BY <2>1 DEF Return
    <2> QED
      BY <2>2, <2>3, ConclusionAgrees, PassClassified DEF ClassifiedInv, ErrorsAreUnverifiable
  <1>5. CASE Raises
    <2>1. result' = Raised(request) /\ \A c \in Conditions : conditions'[c] = Pass
      BY <1>5 DEF Raises, Return
    <2>2. /\ result'.accepted = FALSE /\ result'.outcome = "UNVERIFIABLE"
          /\ VerificationCode(result') = "error"
      BY <2>1 DEF Raised, VerificationCode
    <2> QED
      BY <2>1, <2>2, PassClassified DEF ClassifiedInv, ErrorsAreUnverifiable
  <1>6. ASSUME UNCHANGED <<conditions, result>>
        PROVE  ClassifiedInv'
    BY <1>6 DEF ClassifiedInv, ErrorsAreUnverifiable
  <1> QED
    BY <1>1, <1>2, <1>3, <1>4, <1>5, <1>6, <1>7
       DEF Next, ResolveScheme, RegisterScheme, SetMinSchemeVersion, SetAllowedProtocolVersions, LookUp, Store,
           Change, verification, vars

LEMMA VerificationAlways == Spec => [](VerificationInv /\ ClassifiedInv)
  <1>1. Init => ClassifiedInv
    <2> SUFFICES ASSUME Init
                 PROVE  ClassifiedInv
      OBVIOUS
    <2>1. /\ conditions = [c \in Conditions |-> Pass] /\ result = NoResult /\ result.accepted = FALSE
      BY DEF Init, NoResult
    <2> QED
      BY <2>1, PassClassified DEF ClassifiedInv, ErrorsAreUnverifiable
  <1>2. VerificationInv => TypeOK
    BY DEF VerificationInv
  <1> QED
    BY VerificationInit, VerificationStep, ClassifiedStep, <1>1, <1>2, PTL DEF Spec

(***************************************************************************)
(* The code in the evidence, the status of the result and its class come   *)
(* from three tables; they agree for every request and every course of a   *)
(* verification.                                                           *)
(***************************************************************************)
THEOREM TablesAgree == Spec => []ErrorsAreUnverifiable
  <1>1. ClassifiedInv => ErrorsAreUnverifiable
    BY DEF ClassifiedInv
  <1> QED
    BY VerificationAlways, <1>1, PTL

(***************************************************************************)
(* The selected event.                                                     *)
(***************************************************************************)
LEMMA SelectedOfInventory ==
    ASSUME NEW n \in Naming, Presents(n), NEW s, s = SelectVerificationEvent(n), s.failure = "none"
    PROVE  /\ s.event \in InventoryOf(n.candidates) /\ n.selected \in {None, s.event}
           /\ n.candidates = <<s.event>> \/ n.selected # None
  <1> USE EventsAssumption
  <1> DEFINE list == n.candidates
  <1>1. PICK m \in 0 .. MaxInventory : list \in [1 .. m -> Events]
    BY DEF Naming, Presents, Inventories
  <1>2. list \in Seq(Events) /\ Len(list) = m /\ DOMAIN list = 1 .. m
    BY <1>1
  <1>3. s = IF list = <<>> THEN [event |-> None, failure |-> "missing"]
            ELSE IF Len(list) > 1 /\ n.selected = None THEN [event |-> None, failure |-> "ambiguous"]
            ELSE IF n.selected # None /\ n.selected \notin InventoryOf(list)
                 THEN [event |-> None, failure |-> "mismatched"]
            ELSE IF n.selected # None THEN [event |-> n.selected, failure |-> "none"]
            ELSE [event |-> list[1], failure |-> "none"]
    BY DEF SelectVerificationEvent
  <1>4. list # <<>> => list[1] \in InventoryOf(list)
    BY <1>2 DEF InventoryOf
  <1>5. list # <<>> /\ ~(Len(list) > 1) => list = <<list[1]>>
    BY <1>2
  <1> HIDE DEF list
  <1>6. list # <<>>
    BY <1>3
  <1>7. CASE n.selected = None
    <2>1. ~(Len(list) > 1) /\ s.event = list[1]
      BY <1>3, <1>6, <1>7
    <2> QED
      BY <1>4, <1>5, <1>6, <1>7, <2>1 DEF list
  <1>8. CASE n.selected # None
    <2>1. s.event = n.selected /\ n.selected \in InventoryOf(list)
      BY <1>3, <1>6, <1>8
    <2> QED
      BY <1>8, <2>1 DEF list
  <1> QED
    BY <1>7, <1>8

LEMMA SelectedEvent ==
    ASSUME NEW n \in Naming, NEW v, v = SelectionBoundary(n), v.failure = "none"
    PROVE  OnItsEvent(v, n)
  <1> DEFINE s == SelectVerificationEvent(n)
  <1>1. v = IF Presents(n) /\ s.failure # "none" THEN s
            ELSE IF Presents(n) /\ n.event \notin {None, s.event} THEN [event |-> None, failure |-> "mismatched"]
            ELSE IF Presents(n) THEN s
            ELSE IF n.event # None /\ n.selected \notin {None, n.event}
                 THEN [event |-> None, failure |-> "mismatched"]
            ELSE IF n.event # None THEN [event |-> n.event, failure |-> "none"]
            ELSE [event |-> n.selected, failure |-> "none"]
    BY DEF SelectionBoundary
  <1>2. Presents(n) /\ s.failure = "none" =>
          /\ s.event \in InventoryOf(n.candidates) /\ n.selected \in {None, s.event}
          /\ n.candidates = <<s.event>> \/ n.selected # None
    BY SelectedOfInventory
  <1> HIDE DEF s
  <1>3. CASE Presents(n)
    <2>1. s.failure = "none" /\ n.event \in {None, s.event} /\ v = s
      BY <1>1, <1>3
    <2> QED
      BY <1>2, <1>3, <2>1 DEF OnItsEvent
  <1>4. CASE ~Presents(n)
    BY <1>1, <1>4 DEF OnItsEvent
  <1> QED
    BY <1>3, <1>4

\* An operation proceeds only with valid evidence for its own policy.
LEMMA MatrixProceeds ==
    ASSUME NEW aep, NEW policy \in MatrixPolicies, EvaluateMatrix(aep, policy).enforcement = "proceeded"
    PROVE  /\ EvaluateMatrix(aep, policy).event = aep.event
           /\ aep.code = "valid" /\ policy.policy = aep.policy /\ ~policy.force_deny
  BY DEF EvaluateMatrix, NonAuthorize, Proceed

(***************************************************************************)
(* An operation proceeds only on a result that was accepted, under the     *)
(* policy it was verified under (the active one, where the verifier        *)
(* requires it), and, unless its caller replaced the event, on the one     *)
(* event everybody named, for any events, inventories and policies.        *)
(***************************************************************************)
THEOREM ProceedingOperationsAreGrounded == Spec => []ProceedingIsGrounded
  <1>1. VerificationInv /\ ClassifiedInv => ProceedingIsGrounded
    <2> SUFFICES ASSUME VerificationInv, ClassifiedInv,
                        NEW n \in Naming, NEW policy \in MatrixPolicies, NEW override \in Events \cup {None},
                        NEW path \in Paths(n, policy, override), path.enforcement = "proceeded"
                 PROVE  /\ Authorize(result, FALSE, FALSE, FALSE)
                        /\ policy.policy = result.request.policy /\ ~policy.force_deny
                        /\ result.request.strict => policy.policy = ActivePolicy
                        /\ override = None => OnItsEvent(path, n)
      BY DEF ProceedingIsGrounded
    <2> DEFINE v == SelectionBoundary(n)
               event == IF override # None THEN override ELSE v.event
               aep(op) == BuildAep(op, event, VerificationCode(result), result.request, AdmittedClaims(result))
    <2>1. PICK op \in {"op", "other"} : path = EvaluateMatrix(aep(op), policy) /\ v.failure = "none"
      <3>1. CASE override = None /\ path = RunPathFromVerification(result, "op", n, policy)
        BY <3>1 DEF RunPathFromVerification, NonAuthorize
      <3>2. ASSUME NEW bind \in {"op", "other"},
                   path = RunRuntimeProofPath("op", bind, override, VerificationCode(result), result.request,
                                              AdmittedClaims(result), n, policy, FALSE)
            PROVE  path = EvaluateMatrix(aep(bind), policy) /\ v.failure = "none"
        BY <3>2 DEF RunRuntimeProofPath, NonAuthorize
      <3> QED
        BY <3>1, <3>2 DEF Paths
    <2>2. /\ aep(op).event = event /\ aep(op).code = VerificationCode(result)
          /\ aep(op).policy = result.request.policy
      BY DEF BuildAep
    <2> HIDE DEF aep
    <2>3. /\ path.event = event /\ VerificationCode(result) = "valid"
          /\ policy.policy = result.request.policy /\ ~policy.force_deny
      BY <2>1, <2>2, MatrixProceeds
    <2>4. result.accepted /\ result.outcome = "VERIFIED_ELIGIBILITY"
      BY <2>3 DEF VerificationCode, ClassifiedInv
    <2>5. result.request.strict => result.request.policy = ActivePolicy
      BY <2>4 DEF VerificationInv, AcceptedIsGrounded
    <2> HIDE DEF v
    <2>6. OnItsEvent(v, n)
      BY <2>1, SelectedEvent DEF v
    <2>7. override = None => OnItsEvent(path, n)
      BY <2>3, <2>6 DEF OnItsEvent
    <2> QED
      BY <2>3, <2>4, <2>5, <2>7 DEF Authorize, ClaimFromVerification
  <1> QED
    BY VerificationAlways, <1>1, PTL
=============================================================================
