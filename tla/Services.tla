------------------------------ MODULE Services ------------------------------
(***************************************************************************)
(* Four parts of the identity runtime and its neighbours side by side: the *)
(* holder's keys, the authorization proof path, the audit log and the      *)
(* subscriptions.  They share no state; a behaviour is one of one of them, *)
(* while the others stay as they begin.                                    *)
(***************************************************************************)
EXTENDS RuntimePath

CONSTANTS
    Keys, RequestIds, Actors, Approvers, Procs, MaxBindings,    \* HolderKeys
    Writers, Placements, MaxRecords, MaxFaults, Limit,          \* AuditTrail
    Invocations, MaxCalls                                       \* Subscriptions

VARIABLES part,
    \* HolderKeys
    doc, requests, text, held, made, procPc, call, docview, requestview, bindings, replaced, accepted, filed, keyAt,
    \* AuditTrail
    log, processOf, drawn, expired, alerts, faults, threadPc, kind, record, last, kept, returned, excused, raced,
    \* Subscriptions
    item, former, topic, texted, calls, apiPc, id, read, arn, apart

keyVars == <<doc, requests, text, held, made, procPc, call, docview, requestview, bindings, replaced, accepted,
             filed, keyAt>>
auditVars == <<log, processOf, drawn, expired, alerts, faults, threadPc, kind, record, last, kept, returned,
               excused, raced>>
subscriptionVars == <<item, former, topic, texted, calls, apiPc, id, read, arn, apart>>

-----------------------------------------------------------------------------
\* The holder's keys, the audit log and one number's subscription.
Holder == INSTANCE HolderKeys WITH pc <- procPc
Audit == INSTANCE AuditTrail WITH pc <- threadPc
Numbers == INSTANCE Subscriptions WITH pc <- apiPc

ASSUME ServicesAssumption == Holder!KeysAssumption /\ Audit!RecordsAssumption /\ Numbers!CallsAssumption

-----------------------------------------------------------------------------
ServicesInit ==
    /\ part \in {"keys", "proof", "audit", "subscriptions"}
    /\ Init /\ Holder!Init /\ Audit!Init /\ Numbers!Init
    \* Only the audit log asks which process a thread runs in.
    /\ part # "audit" => \A v, w \in Writers : processOf[v] = processOf[w]

ServicesNext ==
    /\ UNCHANGED part
    /\ \/ part = "proof" /\ Next /\ UNCHANGED <<keyVars, auditVars, subscriptionVars>>
       \/ part = "keys" /\ Holder!Next /\ UNCHANGED <<vars, auditVars, subscriptionVars>>
       \/ part = "audit" /\ Audit!Next /\ UNCHANGED <<vars, keyVars, subscriptionVars>>
       \/ part = "subscriptions" /\ Numbers!Next /\ UNCHANGED <<vars, keyVars, auditVars>>

ServicesSpec == ServicesInit /\ [][ServicesNext]_<<part, vars, keyVars, auditVars, subscriptionVars>>

-----------------------------------------------------------------------------
(* The properties of the other modules, where each is explained.           *)

\* Every variable of the part that acts has its type.
TypesOK ==
    /\ part = "proof" => TypeOK
    /\ part = "keys" => Holder!TypeOK
    /\ part = "audit" => Audit!TypeOK
    /\ part = "subscriptions" => Numbers!TypeOK

\* A replaced key never authenticates again (HolderKeys).
RetiredStaysRetired == Holder!RetiredStaysRetired

\* Its possession proofs are refused (HolderKeys).
LateBindingRefused == Holder!LateBindingRefused

\* A completed recovery shuts the old key out (HolderKeys).
CompletedRecoveryRetires == Holder!CompletedRecoveryRetires

\* A logged event stays in the log (AuditTrail).
EventsAreKept == Audit!EventsAreKept

\* The chain verifies unless writers of the log overlapped (AuditTrail).
ChainHolds == Audit!ChainHolds

\* The integrity check raises no alarm about an intact log it can read whole
\* (AuditTrail).
AlertsAreOfBrokenChains == Audit!AlertsAreOfBrokenChains

\* Who is not confirmed gets no updates (Subscriptions).
SilentUnlessConfirmed == Numbers!SilentUnlessConfirmed

\* Who is confirmed gets them, and can be taken out (Subscriptions).
ConfirmedIsReached == Numbers!ConfirmedIsReached
=============================================================================
