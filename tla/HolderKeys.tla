----------------------------- MODULE HolderKeys -----------------------------
(***************************************************************************)
(* The keys of one holder: the DID document in the resolver's store        *)
(* (did_resolver.py), the rotation of its authentication key               *)
(* (holder_keys.py), its recovery by approved requests                     *)
(* (recovery_executor.py) and the presentations that prove possession of a *)
(* key (presentation.py).                                                  *)
(*                                                                         *)
(* A rotation reads the document and later puts back one made from what it *)
(* read; a recovery does so between loading and saving the request file.   *)
(* Nothing locks either file.                                              *)
(*                                                                         *)
(* A document lists its methods with their status and names the one that   *)
(* may authenticate.  Rotations only append methods and name the last, so  *)
(* ids never repeat, and a document is its active key and its retired ones.*)
(***************************************************************************)
EXTENDS Naturals, FiniteSets

CONSTANTS
    Keys,           \* key pairs that generate_keypair has yet to make
    RequestIds,     \* recovery ids not yet drawn
    Actors,
    Approvers,      \* actors with the recovery approver's scope or role
    Procs,          \* processes that run a call
    MaxBindings,    \* bound on the presentations
    None            \* no key, no request

KeysAssumption ==
    Approvers \subseteq Actors /\ None \notin Keys /\ None \notin RequestIds /\ MaxBindings \in Nat

VARIABLES
    doc,        \* the DID document last stored
    requests,   \* the recovery requests last stored
    text,       \* per file: whole, emptied by a write that has begun, or a mixture of two writes
    held,       \* keys whose private half was handed to somebody
    made,       \* keys generated
    pc, call,   \* per process: next step, its call
    docview, requestview,   \* per process: the files it read
    bindings,   \* presentations begun
    replaced,   \* history: keys a stored document had active and no longer has
    accepted,   \* history: possession proofs accepted: key, whether replaced when it began
    filed, keyAt    \* history: requests filed, the active key at that time

process == <<pc, call, docview, requestview>>
history == <<replaced, accepted, filed, keyAt>>
vars == <<doc, requests, text, held, made, process, bindings, history>>

-----------------------------------------------------------------------------
Document == [active : Keys \cup {None}, retired : SUBSET Keys]
Status == {"none", "requested", "completed", "rejected"}
Call == [kind : {"none", "rotate", "recover", "request", "bind"}, request : RequestIds \cup {None},
         key : Keys \cup {None}, failed : BOOLEAN, late : BOOLEAN]

Files == {"document", "requests"}

NoDocument == [active |-> None, retired |-> {}]
NoRequests == [r \in RequestIds |-> "none"]
NoCall == [kind |-> "none", request |-> None, key |-> None, failed |-> FALSE, late |-> FALSE]

TypeOK ==
    /\ doc \in Document /\ requests \in [RequestIds -> Status]
    /\ held \in SUBSET Keys /\ made \in SUBSET Keys
    /\ pc \in [Procs -> {"idle", "load", "resolve", "put", "write", "save", "file", "consume", "return"}]
    /\ text \in [Files -> {"whole", "empty", "mixed"}]
    /\ call \in [Procs -> Call]
    /\ docview \in [Procs -> Document] /\ requestview \in [Procs -> [RequestIds -> Status]]
    /\ bindings \in Nat
    /\ replaced \in SUBSET Keys
    /\ accepted \in SUBSET [key : Keys, late : BOOLEAN]
    /\ filed \in SUBSET RequestIds /\ keyAt \in [RequestIds -> Keys \cup {None}]

Init ==
    /\ doc = NoDocument /\ requests = NoRequests
    /\ text = [f \in Files |-> "whole"]
    /\ held = {} /\ made = {}
    /\ pc = [p \in Procs |-> "idle"]
    /\ call = [p \in Procs |-> NoCall]
    /\ docview = [p \in Procs |-> NoDocument]
    /\ requestview = [p \in Procs |-> NoRequests]
    /\ bindings = 0
    /\ replaced = {} /\ accepted = {}
    /\ filed = {} /\ keyAt = [r \in RequestIds |-> None]

Goto(p, step) == pc' = [pc EXCEPT ![p] = step]

\* The call of p returns or raises.
End(p) ==
    /\ Goto(p, "idle")
    /\ call' = [call EXCEPT ![p] = NoCall]
    /\ docview' = [docview EXCEPT ![p] = NoDocument]
    /\ requestview' = [requestview EXCEPT ![p] = NoRequests]

\* write_text empties the file.
BeginWrite(p, from, to, f) ==
    /\ pc[p] = from
    /\ Goto(p, to)
    /\ text' = [text EXCEPT ![f] = "empty"]
    /\ UNCHANGED <<doc, requests, held, made, call, docview, requestview, bindings, history>>

\* It writes from the start; what another wrote meanwhile may stick out.
EndWrite(f) ==
    \E t \in {"whole"} \cup (IF text[f] = "empty" THEN {} ELSE {"mixed"}) : text' = [text EXCEPT ![f] = t]

-----------------------------------------------------------------------------
(* The calls.                                                              *)

\* establish_identity: a new DID with one key.  Nobody knows the DID before.
Establish(k) ==
    /\ doc = NoDocument
    /\ k \notin made
    /\ doc' = [active |-> k, retired |-> {}]
    /\ made' = made \cup {k} /\ held' = held \cup {k}
    /\ UNCHANGED <<requests, text, process, bindings, history>>

Begin(p, step, c) ==
    /\ pc[p] = "idle"
    /\ Goto(p, step)
    /\ call' = [call EXCEPT ![p] = c]
    /\ UNCHANGED <<doc, requests, text, held, made, docview, requestview, history>>

\* rotate_holder_key, which asks for nobody's authority.
RotateHolderKey(p) == Begin(p, "resolve", [NoCall EXCEPT !.kind = "rotate"]) /\ UNCHANGED bindings

\* request_recovery: build_recovery_request draws the id.
RequestRecovery(p, r) ==
    /\ r \notin filed /\ \A q \in Procs : call[q].request # r
    /\ Begin(p, "load", [NoCall EXCEPT !.kind = "request", !.request = r])
    /\ UNCHANGED bindings

\* approve_and_execute by an actor actor_may_approve_recovery lets through.
Approve(p, actor, r) ==
    /\ actor \in Approvers
    /\ Begin(p, "load", [NoCall EXCEPT !.kind = "recover", !.request = r])
    /\ UNCHANGED bindings

\* verify_subject_binding of a proof made with a key somebody holds, over the
\* nonce of its challenge.
Bind(p, k) ==
    /\ k \in held
    /\ bindings < MaxBindings
    /\ bindings' = bindings + 1
    /\ Begin(p, "resolve", [NoCall EXCEPT !.kind = "bind", !.key = k, !.late = k \in replaced])

-----------------------------------------------------------------------------
(* The document.                                                           *)

\* Mutant of AuthenticationCapable: a key listed in the document will do.
AuthenticationCapableListed(d, k) == k \in d.retired \cup {d.active}

\* is_authentication_capable, and the signature: the proof names the active
\* method and was made with its key.
AuthenticationCapable(d, k) == d.active = k

\* resolve, in rotate_holder_key and in verify_subject_binding.
Resolve(p) ==
    /\ pc[p] = "resolve" /\ text["document"] = "whole"
    /\ docview' = [docview EXCEPT ![p] = doc]
    /\ IF call[p].kind = "bind"
       THEN /\ AuthenticationCapable(doc, call[p].key)
            /\ Goto(p, "consume") /\ UNCHANGED <<call, made>>
       ELSE \E k \in Keys \ made :
            /\ doc # NoDocument
            /\ call' = [call EXCEPT ![p].key = k] /\ made' = made \cup {k}
            /\ Goto(p, "put")
    /\ UNCHANGED <<doc, requests, text, held, requestview, bindings, history>>

\* The document is not found or malformed, the key is not capable or the
\* signature is wrong.
ResolveFails(p) ==
    /\ pc[p] = "resolve"
    /\ \/ text["document"] # "whole"
       \/ call[p].kind = "bind" /\ ~AuthenticationCapable(doc, call[p].key)
       \/ call[p].kind # "bind" /\ doc = NoDocument
    /\ IF call[p].kind = "recover"
       THEN /\ Goto(p, "save") /\ call' = [call EXCEPT ![p].failed = TRUE]
            /\ UNCHANGED <<docview, requestview>>
       ELSE End(p)
    /\ UNCHANGED <<doc, requests, text, held, made, bindings, replaced, accepted, filed, keyAt>>

\* Mutant of Rotated: a second rotation gives the key of the first one back.
RotatedBack(d, k) ==
    [active |-> IF d.retired = {} THEN k ELSE CHOOSE x \in d.retired : TRUE,
     retired |-> (d.retired \cup {d.active}) \ {k}]

\* The document rotate_holder_key makes from d.
Rotated(d, k) == [active |-> k, retired |-> d.retired \cup {d.active}]

BeginPut(p) == BeginWrite(p, "put", "write", "document")

Put(p) ==
    /\ pc[p] = "write"
    /\ EndWrite("document")
    /\ doc' = Rotated(docview[p], call[p].key)
    /\ replaced' = replaced \cup {doc.active}
    /\ docview' = [docview EXCEPT ![p] = NoDocument]
    /\ Goto(p, IF call[p].kind = "recover" THEN "save" ELSE "return")
    /\ UNCHANGED <<requests, held, made, call, requestview, bindings, accepted, filed, keyAt>>

\* rotate_holder_key returns the private key to its caller.
Return(p) ==
    /\ pc[p] = "return"
    /\ held' = held \cup {call[p].key}
    /\ End(p)
    /\ UNCHANGED <<doc, requests, text, made, bindings, replaced, accepted, filed, keyAt>>

\* The nonce is consumed and the binding verified; module NonceStore has the
\* refusals of the store.
ConsumeNonce(p) ==
    /\ pc[p] = "consume"
    /\ accepted' = accepted \cup {[key |-> call[p].key, late |-> call[p].late]}
    /\ End(p)
    /\ UNCHANGED <<doc, requests, text, held, made, bindings, replaced, filed, keyAt>>

-----------------------------------------------------------------------------
(* The request file.                                                       *)

\* _load_requests raises on a file that is not JSON; a recovery goes on with a
\* request that waits.
LoadRequests(p) ==
    /\ pc[p] = "load"
    /\ IF text["requests"] = "whole" /\ (call[p].kind = "request" \/ requests[call[p].request] = "requested")
       THEN /\ requestview' = [requestview EXCEPT ![p] = requests]
            /\ Goto(p, IF call[p].kind = "request" THEN "save" ELSE "resolve")
            /\ UNCHANGED <<call, docview>>
       ELSE End(p)
    /\ UNCHANGED <<doc, requests, text, held, made, bindings, replaced, accepted, filed, keyAt>>

\* Mutant of Outcome: whatever became of the rotation, the request is done.
OutcomeOfAnyRotation(p) == IF call[p].kind = "request" THEN "requested" ELSE "completed"

Outcome(p) ==
    IF call[p].kind = "request" THEN "requested"
    ELSE IF call[p].failed THEN "rejected"
    ELSE "completed"

BeginSave(p) == BeginWrite(p, "save", "file", "requests")

\* _save_requests writes the file as loaded, with the one request changed.  The
\* new private key of a recovery goes nowhere.
SaveRequests(p) ==
    LET r == call[p].request
    IN  /\ pc[p] = "file"
        /\ EndWrite("requests")
        /\ requests' = [requestview[p] EXCEPT ![r] = Outcome(p)]
        /\ IF call[p].kind = "request"
           THEN filed' = filed \cup {r} /\ keyAt' = [keyAt EXCEPT ![r] = doc.active]
           ELSE UNCHANGED <<filed, keyAt>>
        /\ End(p)
        /\ UNCHANGED <<doc, held, made, bindings, replaced, accepted>>

Die(p) ==
    /\ pc[p] # "idle"
    /\ End(p)
    /\ UNCHANGED <<doc, requests, text, held, made, bindings, replaced, accepted, filed, keyAt>>

Next ==
    \/ \E k \in Keys : Establish(k)
    \/ \E p \in Procs, r \in RequestIds : RequestRecovery(p, r) \/ \E a \in Actors : Approve(p, a, r)
    \/ \E p \in Procs, k \in Keys : Bind(p, k)
    \/ \E p \in Procs : RotateHolderKey(p) \/ Resolve(p) \/ ResolveFails(p) \/ BeginPut(p) \/ Put(p) \/ Return(p)
    \/ \E p \in Procs : ConsumeNonce(p) \/ LoadRequests(p) \/ BeginSave(p) \/ SaveRequests(p) \/ Die(p)

Spec == Init /\ [][Next]_vars

-----------------------------------------------------------------------------
(* Properties.                                                             *)

\* A key that was replaced never authenticates again, although rotations and
\* recoveries overwrite each other's documents.
RetiredStaysRetired == doc.active \notin replaced

\* A possession proof that begins after its key was replaced is not accepted,
\* however the document changes between its reading and the answer.
LateBindingRefused == \A a \in accepted : ~a.late

\* Once the file says that a recovery is completed, the key that was active when
\* it was asked for is not: whoever took it is shut out, even when two approvers
\* execute one request or the executor dies on the way.
CompletedRecoveryRetires ==
    \A r \in filed : requests[r] = "completed" => doc.active # keyAt[r]
=============================================================================
