-------------------------- MODULE ProofVerification --------------------------
(***************************************************************************)
(* The verification of one proof (zk_abstraction/verifier.py) beside the   *)
(* governance of what it is verified under: the scheme registry            *)
(* (registry.py) and the protocol catalog (protocol_catalog.py).           *)
(*                                                                         *)
(* verify_proof evaluates its four conditions one after the other.  C4, C2 *)
(* and C1 each ask the registry, which other threads may change between;   *)
(* C4 asks it three times.  Threads that publish look a contract up and    *)
(* store theirs without a lock.                                            *)
(*                                                                         *)
(* A condition is an outcome with a reason.  A contract's content stands   *)
(* for its hash as well, so a seal is the content it was computed from.    *)
(***************************************************************************)
EXTENDS Naturals, FiniteSets, Sequences

CONSTANTS
    SchemeIds,
    Versions,       \* scheme versions, a set of numbers
    Adapted,        \* schemes with an adapter of their own (_default_verifier_for)
    ScalarIds,      \* scheme ids that get a public scalar modulus when none is set
    Protocols,      \* <<protocol_id, protocol_version>> pairs, as values
    Ambiguous,      \* the protocol of a request with an ambiguous identity
    AllowedProtocols,   \* those whose id the policy context allows
    Contents,       \* contents of contracts
    DefaultProtocol, DefaultContent,    \* what install_default_protocol_catalog publishes
    Policies, ActivePolicy,     \* policy versions
    Requests,       \* the requests that arrive
    Publishers,     \* threads that publish contracts
    MaxChanges,     \* bound on the changes of registry and catalog
    None

Schemes == SchemeIds \X Versions

VARIABLES
    schemes,        \* the state each scheme is registered in
    bounded,        \* schemes whose public scalar modulus a large revision exceeds
    minimum,        \* the least version of a scheme id, 0 when unset
    allowed,        \* protocols whose version the registry allows
    entries,        \* the catalog: content and seal of each contract
    pending,        \* per publisher: the contract it looked up and will store
    changes,
    pc, request,    \* the verification that runs
    descriptor,     \* the state of the scheme it resolved
    conditions,     \* the conditions it has evaluated
    result,         \* the result it returned
    granted,        \* history: what the registry granted the request at some moment of the call
    crossed         \* history: protocols looked up while another thread was publishing them

registry == <<schemes, bounded, minimum, allowed>>
catalog == <<entries, pending, crossed>>
verification == <<pc, request, descriptor, conditions, result>>
vars == <<registry, catalog, changes, verification, granted>>

-----------------------------------------------------------------------------
States == {"unregistered", "SUPPORTED", "DEPRECATED", "DEPRECATED_FOR_PROOFS", "DISABLED", "RETIRED"}
Flaws == {"leak", "missing", "ambiguous", "lapsed", "unverifiable", "malformed", "scalar", "large", "raises"}

\* What verify_proof is asked.  strict: whether the verifier that is asked requires
\* the active policy; claim: whether the proposition is given, and what the public
\* inputs say of it; bound: context, revision and expected binding agree; proof:
\* made for these public inputs, for others, or not well formed.
Request == [scheme : Schemes, protocol : Protocols \cup {Ambiguous, None}, policy : Policies \cup {None},
            strict : BOOLEAN, flaws : SUBSET Flaws, claim : {"absent", "unshown", "shown", "other"},
            bound : BOOLEAN, proof : {"right", "wrong", "malformed"}]

Conditions == {"C1", "C2", "C3", "C4"}

ASSUME VerificationAssumption ==
    /\ Versions \subseteq Nat /\ Adapted \subseteq Schemes
    /\ DefaultProtocol \in AllowedProtocols /\ AllowedProtocols \subseteq Protocols
    /\ DefaultContent \in Contents /\ None \notin Contents /\ None \notin Protocols
    /\ Ambiguous \notin Protocols \cup {None}
    /\ ActivePolicy \in Policies /\ None \notin Policies
    /\ Requests \subseteq Request /\ None \notin Request /\ None \notin Conditions
    /\ MaxChanges \in Nat

Outcomes == {"PASS", "FAIL", "AMBIGUOUS", "UNSUPPORTED", "MALFORMED", "UNVERIFIABLE"}
Cond(outcome, reason) == [outcome |-> outcome, reason |-> reason]
Pass == Cond("PASS", "ok")

NoResult == [accepted |-> FALSE, status |-> "none", outcome |-> "none", request |-> None]

Init ==
    /\ schemes = [s \in Schemes |-> IF s \in Adapted THEN "SUPPORTED" ELSE "unregistered"]
    /\ bounded = {s \in Adapted : s[1] \in ScalarIds}
    /\ minimum = [i \in SchemeIds |-> 0]
    /\ allowed = {DefaultProtocol}
    /\ entries = [p \in Protocols |->
                    IF p = DefaultProtocol THEN [content |-> DefaultContent, seal |-> DefaultContent]
                    ELSE [content |-> None, seal |-> None]]
    /\ pending = [k \in Publishers |-> [protocol |-> None, content |-> None]]
    /\ crossed = {}
    /\ changes = 0
    /\ pc = "idle" /\ request = None /\ descriptor = "unregistered"
    /\ conditions = [c \in Conditions |-> Pass]
    /\ result = NoResult
    /\ granted = {}

-----------------------------------------------------------------------------
(* C4: what is admitted.                                                   *)

\* evaluate_c4 until it asks the registry: identity, contract, policy.
EvaluateC4(r) ==
    IF r.protocol = None THEN Cond("MALFORMED", "C4_MALFORMED")
    ELSE IF r.policy = None THEN Cond("MALFORMED", "MISSING_POLICY_VERSION")
    ELSE IF r.protocol = Ambiguous THEN Cond("AMBIGUOUS", "C4_AMBIGUOUS")
    ELSE IF r.protocol \notin AllowedProtocols THEN Cond("UNSUPPORTED", "UNSUPPORTED_PROTOCOL")
    ELSE IF entries[r.protocol].content = None THEN Cond("UNSUPPORTED", "UNSUPPORTED_PROTOCOL")
    ELSE IF entries[r.protocol].seal # entries[r.protocol].content
         THEN Cond("FAIL", "PROTOCOL_CONTRACT_SEAL_MISMATCH")
    ELSE IF r.strict /\ r.policy # ActivePolicy THEN Cond("FAIL", "POLICY_MISMATCH")
    ELSE Pass

Usable(state) == state \in {"SUPPORTED", "DEPRECATED_FOR_PROOFS"}
Below(scheme) == scheme[2] < minimum[scheme[1]]

\* validate_operation of a verification, with _map_registry_outcome: once it has
\* resolved the scheme, whether the version of the protocol is allowed.
AllowedVersion(state, r) ==
    IF state = "unregistered" THEN Cond("UNSUPPORTED", "UNSUPPORTED_SCHEME")
    ELSE IF r.protocol \notin allowed THEN Cond("UNSUPPORTED", "UNSUPPORTED_PROTOCOL")
    ELSE Pass

\* Mutant of MinimumVersion: in any state it is registered in, a scheme will do.
MinimumVersionAlone(state, r) ==
    IF Below(r.scheme) THEN Cond("FAIL", "SCHEME_DOWNGRADE") ELSE Pass

\* Then the least version of the scheme, and the state it was resolved in.
MinimumVersion(state, r) ==
    IF Below(r.scheme) THEN Cond("FAIL", "SCHEME_DOWNGRADE")
    ELSE IF state = "DEPRECATED" THEN Cond("UNSUPPORTED", "SCHEME_DEPRECATED_DISALLOWED")
    ELSE IF state = "DISABLED" THEN Cond("UNSUPPORTED", "SCHEME_DISABLED")
    ELSE IF state = "RETIRED" THEN Cond("UNSUPPORTED", "SCHEME_RETIRED")
    ELSE Pass

-----------------------------------------------------------------------------
(* C2, C3 and C1.                                                          *)

\* The order in which _eval_c2 looks for flaws, with the outcome of each.
FlawOutcomes ==
    <<<<"leak", "FAIL">>, <<"missing", "FAIL">>, <<"ambiguous", "AMBIGUOUS">>, <<"lapsed", "FAIL">>,
      <<"unverifiable", "UNVERIFIABLE">>, <<"malformed", "MALFORMED">>, <<"scalar", "MALFORMED">>,
      <<"large", "MALFORMED">>>>

\* _eval_c2; the modulus, which a large revision exceeds, it asks of the registry.
EvalC2(r) ==
    LET seen == r.flaws \ (IF r.scheme \in bounded THEN {} ELSE {"large"})
        found == {i \in DOMAIN FlawOutcomes : FlawOutcomes[i][1] \in seen}
        first == CHOOSE i \in found : \A j \in found : i <= j
    IN  IF found = {} THEN Pass ELSE Cond(FlawOutcomes[first][2], FlawOutcomes[first][1])

\* _eval_c3; without a proposition there is no binding.
EvalC3(r) ==
    IF r.claim = "absent" THEN Cond("FAIL", "proposition_missing")
    ELSE IF ~r.bound THEN Cond("FAIL", "binding_mismatch")
    ELSE IF r.claim = "other" THEN Cond("FAIL", "claim_mismatch")
    ELSE Pass

\* _eval_c1, with verify_crypto of the adapters: an adapter refuses the schemes of
\* others, so that registering one for them (register_verifier) adds nothing.
EvalC1(r) ==
    IF r.claim = "absent" THEN Cond("UNVERIFIABLE", "no_binding")
    ELSE IF schemes[r.scheme] = "unregistered" THEN Cond("UNSUPPORTED", "scheme_unsupported")
    ELSE IF r.scheme \notin Adapted THEN Cond("UNSUPPORTED", "materials_unavailable")
    ELSE IF r.proof = "malformed" THEN Cond("MALFORMED", "proof_parse_error")
    ELSE IF r.proof = "wrong" THEN Cond("FAIL", "scheme_proof_check_failed")
    ELSE Pass

-----------------------------------------------------------------------------
(* The decision.                                                           *)

FAILURE_PRECEDENCE == <<"C4", "C2", "C3", "C1">>

\* evaluate_acceptance: the condition that fails first, or None.
PrimaryFailure(cs) ==
    LET failed == {i \in DOMAIN FAILURE_PRECEDENCE : cs[FAILURE_PRECEDENCE[i]].outcome # "PASS"}
    IN  IF failed = {} THEN None
        ELSE FAILURE_PRECEDENCE[CHOOSE i \in failed : \A j \in failed : i <= j]

\* _legacy_status of a reason.
StatusOf(reason) ==
    CASE reason = "leak" -> "OUTSIDE_BOUNDARY_LEAK"
      [] reason = "missing" -> "MISSING_CONDITION"
      [] reason = "ambiguous" -> "AMBIGUOUS_CONDITION"
      [] reason = "lapsed" -> "STALE_CONDITION"
      [] reason \in {"unverifiable", "no_binding"} -> "UNVERIFIABLE_CONDITION"
      [] reason \in {"malformed", "scalar", "large"} -> "MALFORMED_CONDITION"
      [] reason \in {"proposition_missing", "claim_mismatch"} -> "WRONG_CLAIM"
      [] reason = "binding_mismatch" -> "BINDING_MISMATCH"
      [] reason \in {"scheme_unsupported", "materials_unavailable"} -> "UNSUPPORTED_SCHEME"
      [] reason = "proof_parse_error" -> "MALFORMED_PROOF"
      [] reason = "scheme_proof_check_failed" -> "INVALID_PROOF"
      [] reason = "PROTOCOL_CONTRACT_SEAL_MISMATCH" -> "C4_FAIL"
      [] OTHER -> reason

\* classify_acceptance.
Taxonomy(cs) ==
    LET primary == PrimaryFailure(cs)
    IN  IF primary = None THEN "VERIFIED_ELIGIBILITY"
        ELSE IF cs[primary].outcome = "FAIL" THEN "CLAIM_NOT_SATISFIED"
        ELSE cs[primary].outcome

\* The result of verify_proof.
Conclusion(r, cs) ==
    [accepted |-> PrimaryFailure(cs) = None,
     status |-> IF PrimaryFailure(cs) = None THEN "OK" ELSE StatusOf(cs[PrimaryFailure(cs)].reason),
     outcome |-> Taxonomy(cs), request |-> r]

\* The result when a condition raises.
Raised(r) == [accepted |-> FALSE, status |-> "UNVERIFIABLE_CONDITION", outcome |-> "UNVERIFIABLE", request |-> r]

-----------------------------------------------------------------------------
(* verify_proof.                                                           *)

\* What the registry grants r now; "wide" is a scheme without a low modulus.
Grants(r) ==
    {g \in {"scheme", "protocol", "version", "wide"} :
        CASE g = "scheme" -> Usable(schemes[r.scheme])
          [] g = "protocol" -> r.protocol \in allowed
          [] g = "version" -> ~Below(r.scheme)
          [] g = "wide" -> r.scheme \notin bounded}

Begin(r) ==
    /\ pc = "idle"
    /\ request' = r
    /\ conditions' = [c \in Conditions |-> IF c = "C4" THEN EvaluateC4(r) ELSE Pass]
    /\ pc' = IF EvaluateC4(r) = Pass THEN "scheme" ELSE "public"
    /\ result' = NoResult
    /\ granted' = Grants(r)
    /\ UNCHANGED <<registry, catalog, changes, descriptor>>

\* resolve_scheme.
ResolveScheme ==
    /\ pc = "scheme"
    /\ descriptor' = schemes[request.scheme]
    /\ pc' = "validate"
    /\ UNCHANGED <<registry, catalog, changes, request, conditions, result, granted>>

Validate ==
    /\ pc = "validate"
    /\ conditions' = [conditions EXCEPT !["C4"] = AllowedVersion(descriptor, request)]
    /\ IF AllowedVersion(descriptor, request) = Pass
       THEN pc' = "minimum" /\ UNCHANGED descriptor
       ELSE pc' = "public" /\ descriptor' = "unregistered"
    /\ UNCHANGED <<registry, catalog, changes, request, result, granted>>

CheckMinimum ==
    /\ pc = "minimum"
    /\ conditions' = [conditions EXCEPT !["C4"] = MinimumVersion(descriptor, request)]
    /\ descriptor' = "unregistered"
    /\ pc' = "public"
    /\ UNCHANGED <<registry, catalog, changes, request, result, granted>>

\* C2, which asks the registry once, and C3, which asks nobody.
CheckPublic ==
    /\ pc = "public"
    /\ "raises" \notin request.flaws
    /\ conditions' = [conditions EXCEPT !["C2"] = EvalC2(request), !["C3"] = EvalC3(request)]
    /\ pc' = "proof"
    /\ UNCHANGED <<registry, catalog, changes, request, descriptor, result, granted>>

Return(res) ==
    /\ result' = res
    /\ conditions' = [c \in Conditions |-> Pass]
    /\ pc' = "idle" /\ request' = None
    /\ UNCHANGED <<registry, catalog, changes, descriptor, granted>>

CheckProof ==
    /\ pc = "proof"
    /\ Return(Conclusion(request, [conditions EXCEPT !["C1"] = EvalC1(request)]))

\* An exception in a condition is caught.
Raises ==
    /\ pc = "public"
    /\ "raises" \in request.flaws
    /\ Return(Raised(request))

-----------------------------------------------------------------------------
(* Governance, on other threads.                                           *)

\* The verification that runs is granted what the change grants it.
Change ==
    /\ changes < MaxChanges
    /\ changes' = changes + 1
    /\ UNCHANGED verification
    /\ granted' = granted \cup (IF pc = "idle" THEN {} ELSE Grants(request)')

\* register_scheme, over whatever state the scheme was in, with a modulus that is
\* not set, below a large revision or above it.
RegisterScheme(scheme, state, modulus) ==
    /\ schemes' = [schemes EXCEPT ![scheme] = state]
    /\ bounded' = IF modulus = "low" \/ (modulus = "unset" /\ scheme[1] \in ScalarIds)
                  THEN bounded \cup {scheme} ELSE bounded \ {scheme}
    /\ UNCHANGED <<minimum, allowed, catalog>>
    /\ Change

SetMinSchemeVersion(id, version) ==
    /\ minimum' = [minimum EXCEPT ![id] = version]
    /\ UNCHANGED <<schemes, bounded, allowed, catalog>>
    /\ Change

SetAllowedProtocolVersions(protocols) ==
    /\ allowed' = protocols
    /\ UNCHANGED <<schemes, bounded, minimum, catalog>>
    /\ Change

Publishing(k) == pending[k].protocol # None

\* Mutant of LookUp: a contract may be published again with its seal.
LookUpAgain(k, protocol, content, seal) ==
    /\ ~Publishing(k)
    /\ seal \in {None, content}
    /\ entries[protocol].content = None \/ seal = content
    /\ pending' = [pending EXCEPT ![k] = [protocol |-> protocol, content |-> content]]
    /\ crossed' = crossed \cup {p \in {protocol} : \E j \in Publishers : pending[j].protocol = p}
    /\ UNCHANGED <<registry, entries>>
    /\ Change

\* publish by thread k, with the seal its caller supplies, if any: it looks up
\* what is there.  The same content again changes nothing, another is refused.
LookUp(k, protocol, content, seal) ==
    /\ ~Publishing(k)
    /\ seal \in {None, content}
    /\ entries[protocol].content = None
    /\ pending' = [pending EXCEPT ![k] = [protocol |-> protocol, content |-> content]]
    /\ crossed' = crossed \cup {p \in {protocol} : \E j \in Publishers : pending[j].protocol = p}
    /\ UNCHANGED <<registry, entries>>
    /\ Change

\* Then it stores the contract with its seal, whatever is there by now.
Store(k) ==
    /\ Publishing(k)
    /\ LET new == pending[k]
       IN  entries' = [entries EXCEPT ![new.protocol] = [content |-> new.content, seal |-> new.content]]
    /\ pending' = [pending EXCEPT ![k] = [protocol |-> None, content |-> None]]
    /\ UNCHANGED <<registry, crossed, changes, verification, granted>>

Next ==
    \/ \E r \in Requests : Begin(r)
    \/ ResolveScheme \/ Validate \/ CheckMinimum \/ CheckPublic \/ CheckProof \/ Raises
    \/ \E scheme \in Schemes, state \in States \ {"unregistered"}, modulus \in {"unset", "low", "high"} :
            RegisterScheme(scheme, state, modulus)
    \/ \E id \in SchemeIds, version \in Versions : SetMinSchemeVersion(id, version)
    \/ \E protocols \in SUBSET Protocols : SetAllowedProtocolVersions(protocols)
    \/ \E k \in Publishers, protocol \in Protocols, content \in Contents, seal \in Contents \cup {None} :
            LookUp(k, protocol, content, seal)
    \/ \E k \in Publishers : Store(k)

Spec == Init /\ [][Next]_vars

-----------------------------------------------------------------------------
(* Properties.                                                             *)

TypeOK ==
    /\ schemes \in [Schemes -> States]
    /\ bounded \in SUBSET Schemes
    /\ minimum \in [SchemeIds -> Nat] /\ allowed \in SUBSET Protocols
    /\ entries \in [Protocols -> [content : Contents \cup {None}, seal : Contents \cup {None}]]
    /\ pending \in [Publishers -> [protocol : Protocols \cup {None}, content : Contents \cup {None}]]
    /\ crossed \in SUBSET Protocols
    /\ changes \in Nat
    /\ pc \in {"idle", "scheme", "validate", "minimum", "public", "proof"}
    /\ request \in Requests \cup {None} /\ (pc = "idle" <=> request = None)
    /\ descriptor \in States
    /\ DOMAIN conditions = Conditions /\ \A c \in Conditions : conditions[c].outcome \in Outcomes
    /\ result.accepted \in BOOLEAN /\ result.request \in Requests \cup {None}
    /\ granted \in SUBSET {"scheme", "protocol", "version", "wide"}

\* An accepted proof was right for its public inputs, which bore the claim, and
\* each grant it needed was given at some moment of the call, however the registry
\* changed meanwhile; a revision its scheme's modulus excludes passes only if the
\* scheme was without that modulus at some moment, too.
AcceptedIsGrounded ==
    result.accepted =>
        /\ {"scheme", "protocol", "version"} \subseteq granted
        /\ entries[result.request.protocol].content # None
        /\ result.request.strict => result.request.policy = ActivePolicy
        /\ result.request.flaws \subseteq {"large"} /\ (result.request.flaws # {} => "wide" \in granted)
        /\ result.request.bound
        /\ result.request.proof = "right" /\ result.request.claim \in {"shown", "unshown"}

\* A published contract stays as it is, unless two threads were publishing one
\* under its key at once: publish refuses what it sees, not what it does not.
ContractsStayUnlessCrossed ==
    [][\A p \in Protocols \ crossed : entries[p].content # None => entries'[p] = entries[p]]_vars
=============================================================================
