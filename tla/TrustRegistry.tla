---------------------------- MODULE TrustRegistry ----------------------------
(***************************************************************************)
(* The trust registry of identity_runtime/trust_registry.py: a JSON file   *)
(* of issuers that governors change through the functions of the module    *)
(* (the trust_gov command line runs each in a process of its own), and an  *)
(* audit file every change is appended to.                                 *)
(*                                                                         *)
(* Nothing locks the files.  An operation checks the issuer's status in    *)
(* one read, loads the whole registry in a second one, writes the whole    *)
(* registry back and appends its audit record: other processes may act     *)
(* between any two of these steps, and the process may die there.  Those   *)
(* who may govern are a file of their own, written the same way.           *)
(*                                                                         *)
(* The file lists entries and every function uses the first one of an      *)
(* issuer, so the registry is a function; an entry appended behind another *)
(* of the same issuer is never seen.                                       *)
(***************************************************************************)
EXTENDS Integers, Sequences, FiniteSets

CONSTANTS
    Issuers,
    DevIssuers,     \* issuers whose key dev_issuer.py holds
    Types,          \* credential types
    Actors,
    Bootstrap,      \* SF_TRUST_BOOTSTRAP_ACTOR
    AuthzAdmins,    \* actors whose authz context has the admin scope or role
    Clients,        \* processes that call the registry
    MaxRequests     \* bound on the operations begun

ASSUME RegistryAssumption ==
    /\ DevIssuers \subseteq Issuers
    /\ Bootstrap \in Actors /\ AuthzAdmins \subseteq Actors
    /\ MaxRequests \in Nat

VARIABLES
    reg,        \* the registry file
    log,        \* the audit file
    admins,     \* the governance admins file
    pc, op, view,   \* per process: where it is, what it does, what it loaded
    enrol,      \* per process: the admin it registers
    requests,   \* operations begun so far
    appointed,  \* history: who was written into the admins file, and by whom
    grants,     \* history: who approved or set which types for an issuer
    stale,      \* history: issuers written from a status or a file already changed
    unaudited   \* history: issuers changed without an audit record

process == <<pc, op, view>>
governance == <<admins, enrol, appointed>>
vars == <<reg, log, process, governance, requests, grants, stale, unaudited>>

-----------------------------------------------------------------------------
Status == {"proposed", "under_review", "active", "suspended", "revoked"}
Actions == {"propose", "mark_under_review", "approve", "suspend", "restore",
            "revoke_issuer", "set_allowed_types", "ensure"}

\* status "absent": the file has no entry of the issuer.  approved is whether
\* approved_by is set.
Entry == [status : Status \cup {"absent"}, types : SUBSET Types, approved : BOOLEAN]
NoEntry == [status |-> "absent", types |-> {}, approved |-> FALSE]

Operation == [action : Actions, issuer : Issuers, types : SUBSET Types,
              prev : Status \cup {"absent"}]
Record == [action : Actions, issuer : Issuers, previous_state : Status \cup {"absent"},
           resulting_state : Status]

\* An admin somebody registers; list is the admins file that was loaded.
Enrolment == [step : {"checked", "loaded"}, who : Actors, by : Actors, list : SUBSET Actors]
NoEnrolment == [step |-> "none"]

Nothing == [i \in Issuers |-> NoEntry]
NoOperation == [action |-> "none"]

TypeOK ==
    /\ reg \in [Issuers -> Entry]
    /\ log \in Seq(Record)
    /\ admins \in SUBSET Actors
    /\ pc \in [Clients -> {"idle", "checked", "loaded", "saved"}]
    /\ op \in [Clients -> Operation \cup {NoOperation}]
    /\ \A c \in Clients : pc[c] # "idle" => op[c] \in Operation
    /\ view \in [Clients -> [Issuers -> Entry]]
    /\ enrol \in [Clients -> Enrolment \cup {NoEnrolment}]
    /\ appointed \in SUBSET (Actors \X Actors)
    /\ requests \in Nat
    /\ grants \in [Issuers -> SUBSET (Types \X Actors)]
    /\ stale \in SUBSET Issuers
    /\ unaudited \in SUBSET Issuers

Init ==
    /\ reg = Nothing
    /\ log = <<>>
    /\ admins = {}
    /\ pc = [c \in Clients |-> "idle"]
    /\ op = [c \in Clients |-> NoOperation]
    /\ view = [c \in Clients |-> Nothing]
    /\ enrol = [c \in Clients |-> NoEnrolment]
    /\ appointed = {}
    /\ requests = 0
    /\ grants = [i \in Issuers |-> {}]
    /\ stale = {}
    /\ unaudited = {}

-----------------------------------------------------------------------------
\* Mutant of HasAuthority: with no admins configured anybody may govern.
HasAuthorityOpenBootstrap(a) == a \in AuthzAdmins \cup admins \/ admins = {}

\* require_governance_authority.
HasAuthority(a) == a \in AuthzAdmins \cup admins \/ (admins = {} /\ a = Bootstrap)

\* Mutant of AllowedFrom: an approval does not look for a revocation.
AllowedFromApproveAny(action) ==
    CASE action = "propose" -> {"absent"}
      [] action = "mark_under_review" -> {"proposed", "under_review", "suspended"}
      [] action = "approve" -> Status
      [] action = "suspend" -> {"active", "under_review", "proposed"}
      [] action = "restore" -> {"suspended"}
      [] action \in {"revoke_issuer", "set_allowed_types"} -> Status \ {"revoked"}
      [] action = "ensure" -> Status \cup {"absent"}

\* The statuses each function starts from.
AllowedFrom(action) ==
    CASE action = "propose" -> {"absent"}
      [] action = "mark_under_review" -> {"proposed", "under_review", "suspended"}
      [] action = "approve" -> {"proposed", "under_review", "suspended", "active"}
      [] action = "suspend" -> {"active", "under_review", "proposed"}
      [] action = "restore" -> {"suspended"}
      [] action \in {"revoke_issuer", "set_allowed_types"} -> Status \ {"revoked"}
      [] action = "ensure" -> Status \cup {"absent"}

\* The status each function leaves; set_allowed_types keeps the one it finds.
NewStatus(action, found) ==
    CASE action = "propose" -> "proposed"
      [] action = "mark_under_review" -> "under_review"
      [] action \in {"approve", "restore", "ensure"} -> "active"
      [] action = "suspend" -> "suspended"
      [] action = "revoke_issuer" -> "revoked"
      [] action = "set_allowed_types" -> found

\* What the function makes of an issuer's entry e, when the file has one.
Changed(e, o) ==
    [e EXCEPT !.status = NewStatus(o.action, e.status),
              !.types = CASE o.action \in {"approve", "set_allowed_types"} -> o.types
                          [] o.action = "ensure" -> Types
                          [] OTHER -> @,
              !.approved = @ \/ o.action = "approve"]

\* Mutant of Applied: another name for the status of an approved issuer.
AppliedMisspelt(file, o) ==
    [file EXCEPT ![o.issuer] = Changed(@, o),
                 ![o.issuer].status = IF o.action = "approve" THEN "approved" ELSE @]

\* The file the function writes.  propose and ensure add a missing entry; the
\* others find nothing to change.  propose appends behind an existing entry.
Applied(file, o) ==
    LET e == file[o.issuer]
        adds == o.action \in {"propose", "ensure"}
    IN  IF (e.status = "absent") = adds \/ o.action = "ensure"
        THEN [file EXCEPT ![o.issuer] = Changed(e, o)]
        ELSE file

-----------------------------------------------------------------------------
(* One operation, step by step.                                            *)

Idle(c) == pc[c] = "idle" /\ enrol[c] = NoEnrolment

\* Authority, then the status of the issuer.  restore reads the entry twice
\* before it loads the file; the first read stands for both.
Check(c, actor, o) ==
    /\ Idle(c)
    /\ requests < MaxRequests
    /\ HasAuthority(actor)
    /\ o.prev \in AllowedFrom(o.action)
    /\ o.action = "approve" => o.types # {}
    /\ o.action = "restore" => reg[o.issuer].types # {}
    /\ pc' = [pc EXCEPT ![c] = "checked"]
    /\ op' = [op EXCEPT ![c] = o]
    /\ grants' = [grants EXCEPT ![o.issuer] = @ \cup (o.types \X {actor})]
    /\ requests' = requests + 1
    /\ UNCHANGED <<reg, log, governance, view, stale, unaudited>>

\* The request of actor, with the types only approve and set_allowed_types take.
Request(c, actor, action, i, types) ==
    /\ action # "ensure"
    /\ action \notin {"approve", "set_allowed_types"} => types = {}
    /\ Check(c, actor, [action |-> action, issuer |-> i, types |-> types,
                        prev |-> reg[i].status])

\* dev_issuer.py's _ensure_registry: no authority, no status check, no audit.
EnsureRegistry(c, i) ==
    /\ i \in DevIssuers
    /\ Idle(c)
    /\ requests < MaxRequests
    /\ pc' = [pc EXCEPT ![c] = "checked"]
    /\ op' = [op EXCEPT ![c] = [action |-> "ensure", issuer |-> i, types |-> {},
                                prev |-> reg[i].status]]
    /\ requests' = requests + 1
    /\ UNCHANGED <<reg, log, governance, view, grants, stale, unaudited>>

Load(c) ==
    /\ pc[c] = "checked"
    /\ pc' = [pc EXCEPT ![c] = "loaded"]
    /\ view' = [view EXCEPT ![c] = reg]
    /\ stale' = IF reg[op[c].issuer].status # op[c].prev THEN stale \cup {op[c].issuer}
                ELSE stale
    /\ UNCHANGED <<reg, log, governance, op, requests, grants, unaudited>>

\* save_registry writes every entry it loaded.
Save(c) ==
    /\ pc[c] = "loaded"
    /\ reg' = Applied(view[c], op[c])
    /\ stale' = stale \cup {i \in Issuers : reg[i] # view[c][i]}
    /\ pc' = [pc EXCEPT ![c] = IF op[c].action = "ensure" THEN "idle" ELSE "saved"]
    /\ unaudited' = IF op[c].action = "ensure" THEN unaudited \cup {op[c].issuer}
                    ELSE unaudited
    /\ view' = [view EXCEPT ![c] = Nothing]
    /\ op' = IF op[c].action = "ensure" THEN [op EXCEPT ![c] = NoOperation] ELSE op
    /\ UNCHANGED <<log, governance, requests, grants>>

\* Mutant of AuditRecord: the previous state is read after the change.
AuditRecordReread(o) ==
    [action |-> o.action, issuer |-> o.issuer, previous_state |-> reg[o.issuer].status,
     resulting_state |-> NewStatus(o.action, o.prev)]

\* The record of operation o: the states it names are those of the check.
AuditRecord(o) ==
    [action |-> o.action, issuer |-> o.issuer, previous_state |-> o.prev,
     resulting_state |-> NewStatus(o.action, o.prev)]

\* _audit: the record is appended after the change it is about.
Audit(c) ==
    /\ pc[c] = "saved"
    /\ log' = Append(log, AuditRecord(op[c]))
    /\ pc' = [pc EXCEPT ![c] = "idle"]
    /\ op' = [op EXCEPT ![c] = NoOperation]
    /\ UNCHANGED <<reg, governance, view, requests, grants, stale, unaudited>>

\* The process dies, or the append raises.
Die(c) ==
    /\ ~Idle(c)
    /\ unaudited' = IF pc[c] = "saved" THEN unaudited \cup {op[c].issuer} ELSE unaudited
    /\ pc' = [pc EXCEPT ![c] = "idle"]
    /\ op' = [op EXCEPT ![c] = NoOperation]
    /\ view' = [view EXCEPT ![c] = Nothing]
    /\ enrol' = [enrol EXCEPT ![c] = NoEnrolment]
    /\ UNCHANGED <<reg, log, admins, appointed, requests, grants, stale>>

-----------------------------------------------------------------------------
(* register_governance_admin, step by step.                                *)

RegisterAdmin(c, actor, new) ==
    /\ Idle(c)
    /\ requests < MaxRequests
    /\ HasAuthority(actor)
    /\ enrol' = [enrol EXCEPT ![c] = [step |-> "checked", who |-> new, by |-> actor, list |-> {}]]
    /\ requests' = requests + 1
    /\ UNCHANGED <<reg, log, admins, appointed, process, grants, stale, unaudited>>

\* Who is an admin already is refused.
LoadAdmins(c) ==
    /\ enrol[c].step = "checked"
    /\ enrol' = [enrol EXCEPT ![c] = IF @.who \in admins THEN NoEnrolment
                                     ELSE [@ EXCEPT !.step = "loaded", !.list = admins]]
    /\ UNCHANGED <<reg, log, admins, appointed, process, requests, grants, stale, unaudited>>

\* The list that was loaded is written back with one admin more: whoever another
\* process registered in between is an admin no longer.
SaveAdmins(c) ==
    /\ enrol[c].step = "loaded"
    /\ admins' = enrol[c].list \cup {enrol[c].who}
    /\ appointed' = appointed \cup {<<enrol[c].who, enrol[c].by>>}
    /\ enrol' = [enrol EXCEPT ![c] = NoEnrolment]
    /\ UNCHANGED <<reg, log, process, requests, grants, stale, unaudited>>

Next ==
    \/ \E c \in Clients, actor \in Actors, action \in Actions, i \in Issuers,
          types \in SUBSET Types : Request(c, actor, action, i, types)
    \/ \E c \in Clients, i \in Issuers : EnsureRegistry(c, i)
    \/ \E c \in Clients : Load(c) \/ Save(c) \/ Audit(c) \/ Die(c)
    \/ \E c \in Clients, actor, new \in Actors : RegisterAdmin(c, actor, new)
    \/ \E c \in Clients : LoadAdmins(c) \/ SaveAdmins(c)

Spec == Init /\ [][Next]_vars

-----------------------------------------------------------------------------
(* Properties.                                                             *)

\* issuer_allows_type, the question every presentation asks.
IssuerAllowsType(i, t) == reg[i].status = "active" /\ t \in reg[i].types

\* The bootstrap actor, those with an authz context, and whoever one of them ever
\* registered, directly or not: an admin whom a later write dropped is one of them.
Closed(G) == AuthzAdmins \cup {Bootstrap} \subseteq G /\ \A a \in appointed : a[2] \in G => a[1] \in G
Governors == {a \in Actors : \A G \in SUBSET Actors : Closed(G) => a \in G}

\* An issuer is trusted for a type only because somebody whose authority comes
\* down from the bootstrap actor once allowed it that type, whatever old registry
\* or admins files concurrent processes write back.
TrustComesFromGovernors ==
    \A i \in Issuers \ DevIssuers, t \in Types :
        IssuerAllowsType(i, t) => \E a \in Governors : <<t, a>> \in grants[i]

\* A revoked issuer stays revoked, unless a process writes from a check or a
\* file that another one has outdated (or dev_issuer.py runs with its key).
RevokedUnlessStale ==
    [][\A i \in Issuers \ (DevIssuers \cup stale') :
            reg[i].status = "revoked" => reg'[i].status = "revoked"]_vars

\* "revoked (terminal for this registration)".
RevokedIsTerminal ==
    [][\A i \in Issuers : reg[i].status = "revoked" => reg'[i].status = "revoked"]_vars

\* "proposed -> under_review -> active": no issuer is active without approval.
ActiveWasApproved ==
    \A i \in Issuers : reg[i].status = "active" => reg[i].approved

\* The records of an issuer explain its status in whatever order they were
\* appended: each status was entered as often as it was left, but for the one
\* the issuer started in and the one it is in.
Entered(i, s) == Cardinality({k \in DOMAIN log : log[k].issuer = i /\ log[k].resulting_state = s})
Left(i, s) == Cardinality({k \in DOMAIN log : log[k].issuer = i /\ log[k].previous_state = s})

AuditBalances ==
    \A i \in Issuers \ (stale \cup unaudited) :
        (\A c \in Clients : pc[c] = "saved" => op[c].issuer # i) =>
            \A s \in Status :
                Entered(i, s) = Left(i, s) + (IF reg[i].status = s THEN 1 ELSE 0)
=============================================================================
