---------------------------- MODULE RuntimePath ----------------------------
(***************************************************************************)
(* From a verification's result to an operation that proceeds: the event   *)
(* that is selected, the evidence package (AEP) made of its result, the    *)
(* matrix that decides on the package alone (runtime_proof_path.py), and   *)
(* the older authorizer that decides on a claim                            *)
(* (authorization_isolation.py).  All of it is computed from the result,   *)
(* whose verification is module ProofVerification.                         *)
(***************************************************************************)
EXTENDS ProofVerification

CONSTANTS
    Events,         \* verification event ids
    MaxInventory,   \* bound on the events of an inventory
    SupportedIds,   \* scheme ids of the matrix policies
    MatrixPolicies  \* the policies operations run under

ASSUME EventsAssumption == None \notin Events /\ MaxInventory \in Nat

MatrixPolicy == [policy : Policies, force_deny : BOOLEAN, require_claim : BOOLEAN, allow_when_valid : BOOLEAN]

\* Lists of events, in which one may be twice.
Inventories == UNION {[1 .. n -> Events] : n \in 0 .. MaxInventory}
InventoryOf(candidates) == {candidates[i] : i \in DOMAIN candidates}

\* What a caller names of events: an inventory, an event and a selection, if any.
Naming == [candidates : Inventories \cup {None}, event : Events \cup {None}, selected : Events \cup {None}]
Presents(n) == n.candidates # None

ASSUME PoliciesAssumption == MatrixPolicies \subseteq MatrixPolicy

-----------------------------------------------------------------------------
(* The selected event.                                                     *)

\* Mutant of SelectVerificationEvent: with several candidates, the first.
SelectFirstEvent(n) ==
    IF n.candidates = <<>> THEN [event |-> None, failure |-> "missing"]
    ELSE IF n.selected # None /\ n.selected \notin InventoryOf(n.candidates)
         THEN [event |-> None, failure |-> "mismatched"]
    ELSE IF n.selected # None THEN [event |-> n.selected, failure |-> "none"]
    ELSE [event |-> n.candidates[1], failure |-> "none"]

\* select_verification_event, with reject_unbound_multi_event.
SelectVerificationEvent(n) ==
    IF n.candidates = <<>> THEN [event |-> None, failure |-> "missing"]
    ELSE IF Len(n.candidates) > 1 /\ n.selected = None THEN [event |-> None, failure |-> "ambiguous"]
    ELSE IF n.selected # None /\ n.selected \notin InventoryOf(n.candidates)
         THEN [event |-> None, failure |-> "mismatched"]
    ELSE IF n.selected # None THEN [event |-> n.selected, failure |-> "none"]
    ELSE [event |-> n.candidates[1], failure |-> "none"]

\* The selection boundary of both paths: with an inventory, the selection in it;
\* without, the event named or selected, or a new one.
SelectionBoundary(n) ==
    LET s == SelectVerificationEvent(n)
    IN  IF Presents(n) /\ s.failure # "none" THEN s
        ELSE IF Presents(n) /\ n.event \notin {None, s.event} THEN [event |-> None, failure |-> "mismatched"]
        ELSE IF Presents(n) THEN s
        ELSE IF n.event # None /\ n.selected \notin {None, n.event} THEN [event |-> None, failure |-> "mismatched"]
        ELSE IF n.event # None THEN [event |-> n.event, failure |-> "none"]
        ELSE [event |-> n.selected, failure |-> "none"]

-----------------------------------------------------------------------------
(* The evidence package.                                                   *)

\* Mutant of VerificationCode: whatever is not supported is an error too.
VerificationCodeOfUnsupported(res) ==
    IF res.accepted THEN "valid"
    ELSE IF res.status \in {"UNVERIFIABLE_CONDITION", "UNSUPPORTED_SCHEME", "UNSUPPORTED_PROTOCOL"} THEN "error"
    ELSE "invalid"

\* _verification_result_to_codes: of the statuses, the one with a word of error.
VerificationCode(res) ==
    IF res.accepted THEN "valid"
    ELSE IF res.status = "UNVERIFIABLE_CONDITION" THEN "error"
    ELSE "invalid"

\* claims_from_verification_result: an accepted result has a binding target, with
\* the context in it.
AdmittedClaims(res) == IF res.accepted THEN {"context_binding_id"} ELSE {}

\* aep_from_verification_result and build_aep.
BuildAep(operation, event, code, r, claims) ==
    [operation |-> operation, event |-> event, code |-> code, scheme |-> r.scheme,
     protocol |-> r.protocol, policy |-> r.policy, claims |-> claims]

CLAIM_REGISTRY_V0 == {"eligibility_predicate_id", "context_binding_id", "assurance_level"}

\* validate_aep: the failure, or "none".  build_aep gives an event and a code.
ValidateAep(aep) ==
    IF aep.operation = None THEN "missing"
    ELSE IF aep.code \notin {"valid", "invalid", "error"} THEN "missing"
    ELSE IF aep.protocol = None \/ aep.policy = None THEN "missing"
    ELSE IF ~(aep.claims \subseteq CLAIM_REGISTRY_V0) THEN "unsupported"
    ELSE "none"

-----------------------------------------------------------------------------
(* The decisions.                                                          *)

\* _non_authorize: with a package the operation is blocked, without it stopped.
NonAuthorize(stage, failure) ==
    [enforcement |-> IF stage = "stop" THEN "hard_stopped" ELSE "blocked", failure |-> failure, event |-> None]
Proceed(event) == [enforcement |-> "proceeded", failure |-> "none", event |-> event]

\* evaluate_matrix.  Its decision repeats the package, which it therefore binds.
EvaluateMatrix(aep, policy) ==
    IF ValidateAep(aep) # "none" THEN NonAuthorize("matrix", ValidateAep(aep))
    ELSE IF aep.protocol \notin AllowedProtocols THEN NonAuthorize("matrix", "unsupported")
    ELSE IF aep.scheme[1] \notin SupportedIds THEN NonAuthorize("matrix", "unsupported")
    ELSE IF policy.policy # aep.policy THEN NonAuthorize("matrix", "mismatched")
    ELSE IF aep.code # "valid" THEN NonAuthorize("matrix", "verification_non_valid")
    ELSE IF policy.force_deny THEN NonAuthorize("matrix", "none")
    ELSE IF policy.require_claim /\ aep.claims = {} THEN NonAuthorize("matrix", "none")
    ELSE IF ~policy.allow_when_valid THEN NonAuthorize("matrix", "none")
    ELSE Proceed(aep.event)

\* run_path_from_verification of operation op.
RunPathFromVerification(res, op, n, policy) ==
    LET v == SelectionBoundary(n)
    IN  IF op = None THEN NonAuthorize("stop", "missing")
        ELSE IF res = NoResult THEN NonAuthorize("stop", "unavailable")
        ELSE IF v.failure # "none" THEN NonAuthorize("stop", v.failure)
        ELSE EvaluateMatrix(BuildAep(op, v.event, VerificationCode(res), res.request, AdmittedClaims(res)), policy)

\* run_runtime_proof_path, given the code, the identity of r, the claims, and the
\* operation and the event the package is bound to by its caller.  The event that
\* replaces the selected one is compared with nothing.
RunRuntimeProofPath(op, bind, override, code, r, claims, n, policy, unavailable) ==
    LET v == SelectionBoundary(n)
        event == IF override # None THEN override ELSE v.event
    IN  IF op = None THEN NonAuthorize("stop", "missing")
        ELSE IF unavailable THEN NonAuthorize("stop", "unavailable")
        ELSE IF v.failure # "none" THEN NonAuthorize("stop", v.failure)
        ELSE IF bind # op THEN NonAuthorize("matrix", "mismatched")
        ELSE EvaluateMatrix(BuildAep(bind, event, code, r, claims), policy)

\* claim_from_verification.
ClaimFromVerification(res) == res.accepted /\ res.outcome = "VERIFIED_ELIGIBILITY"

\* authorize_from_verification: neither a raw credential, nor force, nor a
\* default replaces the claim.
Authorize(res, raw_credential, force, default_allow) == ClaimFromVerification(res)

-----------------------------------------------------------------------------
(* Properties.                                                             *)

\* What becomes of an operation "op" whose caller passes the result, or its fields
\* with evidence bound to this or another operation, and perhaps to another event.
Paths(n, policy, override) ==
    {RunPathFromVerification(result, "op", n, policy) : any \in {None} \cap {override}} \cup
    {RunRuntimeProofPath("op", bind, override, VerificationCode(result), result.request, AdmittedClaims(result),
                         n, policy, FALSE) : bind \in {"op", "other"}}

\* The event of a path is the one that was named, selected and inventoried alike.
OnItsEvent(path, n) ==
    /\ \A e \in {n.event, n.selected} : e \in {None, path.event}
    /\ Presents(n) =>
         path.event \in InventoryOf(n.candidates) /\ (n.candidates = <<path.event>> \/ n.selected # None)

\* An operation that proceeds rests on an accepted result, which the other
\* authorizer permits too, under the policy that result was verified under, and
\* on one event unless its caller replaced the event.
ProceedingIsGrounded ==
    result # NoResult =>
        \A n \in Naming, policy \in MatrixPolicies, override \in Events \cup {None} :
            \A path \in Paths(n, policy, override) :
                path.enforcement = "proceeded" =>
                    /\ Authorize(result, FALSE, FALSE, FALSE)
                    /\ policy.policy = result.request.policy /\ ~policy.force_deny
                    /\ result.request.strict => policy.policy = ActivePolicy
                    /\ override = None => OnItsEvent(path, n)

\* Evidence says "error" exactly when the result is classed as unverifiable, and
\* "valid" exactly when it is classed as verified: three tables of reasons agree.
ErrorsAreUnverifiable ==
    result # NoResult =>
        /\ VerificationCode(result) = "error" <=> result.outcome = "UNVERIFIABLE"
        /\ VerificationCode(result) = "valid" <=> result.outcome = "VERIFIED_ELIGIBILITY"
=============================================================================
