------------------------ MODULE CredentialLifecycle ------------------------
(***************************************************************************)
(* Credentials from their issue to their revocation: dev_issuer.py mints,  *)
(* renewal.py renews and rotates, credential_status.py keeps the status    *)
(* file, and present_credential (service.py, and 2ndservice.py with the    *)
(* holder's possession proof, the subject of module HolderKeys) decides    *)
(* whether a credential authorizes its holder.                             *)
(*                                                                         *)
(* Each call runs in some process and reads the trust registry and the     *)
(* status file when it comes to them.  A change of the status file loads   *)
(* all of it, truncates it and writes all of it back: another process may  *)
(* act between these steps, and a process may die there.                   *)
(***************************************************************************)
EXTENDS Naturals, FiniteSets

CONSTANTS
    Creds,          \* credential ids, those new_credential_id has yet to draw included
    External,       \* ids of credentials that issuers made with other tools
    Issuers,
    DevIssuers,     \* issuers whose key dev_issuer.py holds
    Types,          \* credential types
    Scopeless,      \* types that map to no scope (OrganizationMembership)
    Strict,         \* SF_STRICT_CREDENTIAL_STATUS
    Clients,        \* processes that run a call
    MaxRequests,    \* bound on the calls begun
    None            \* no credential

ASSUME LifecycleAssumption ==
    /\ External \subseteq Creds /\ DevIssuers \subseteq Issuers
    /\ Issuers # {} /\ Types # {} /\ Scopeless \subseteq Types /\ Strict \in BOOLEAN
    /\ MaxRequests \in Nat /\ None \notin Creds

VARIABLES
    envelope,   \* the signed envelope of each id
    age,        \* where each credential is in its life
    wallet,     \* ids of envelopes somebody holds
    trusted,    \* <<issuer, type>> pairs the trust registry allows
    db, text,   \* the status file: an entry per id, and whether it parses
    pc, op, view,   \* per process: next step, its call, the file it loaded
    requests,
    revoked,    \* history: ids whose revocation was saved
    overwritten,    \* history: ids whose revocation a stale file took back
    since,      \* history: ids revoked since a process loaded the file
    seen,       \* history: pairs allowed at some moment of a process's checks
    answer,     \* history: what each process last accepted or replaced
    retired     \* history: ids a call that returned had to revoke

file == <<db, text>>
process == <<pc, op, view>>
history == <<revoked, overwritten, since, seen, answer, retired>>
vars == <<envelope, age, wallet, trusted, file, process, requests, history>>

-----------------------------------------------------------------------------
Listing == {"unlisted", "active", "revoked"}
Ages == {"unmade", "undated", "fresh", "due", "expired"}
Kinds == {"present", "renew", "rotate", "mint", "revoke"}
Envelope == [issuer : Issuers, type : Types]

\* cred: the credential the call is about; new: the one it makes; late: whether
\* a revocation of cred had been saved when the call began.
Call == [kind : Kinds \cup {"none"}, cred : Creds \cup {None}, new : Creds \cup {None},
         issuer : Issuers, revoke_old : BOOLEAN, force : BOOLEAN, late : BOOLEAN]
Answer == [kind : Kinds \cup {"none"}, cred : Creds \cup {None}, late : BOOLEAN, vouched : BOOLEAN]

Steps == {"idle", "trust", "expiry", "status", "issue", "load", "loaded", "writing", "lookup", "done"}

TypeOK ==
    /\ envelope \in [Creds -> Envelope]
    /\ age \in [Creds -> Ages]
    /\ wallet \in SUBSET Creds
    /\ trusted \in SUBSET (Issuers \X Types)
    /\ db \in [Creds -> Listing] /\ text \in {"whole", "empty", "mixed"}
    /\ pc \in [Clients -> Steps]
    /\ op \in [Clients -> Call]
    /\ view \in [Clients -> [Creds -> Listing]]
    /\ requests \in Nat
    /\ revoked \in SUBSET Creds /\ overwritten \in SUBSET Creds
    /\ since \in [Clients -> SUBSET Creds]
    /\ seen \in [Clients -> SUBSET (Issuers \X Types)]
    /\ answer \in [Clients -> Answer]
    /\ retired \in SUBSET Creds

Blank == CHOOSE e \in Envelope : TRUE
Unlisted == [c \in Creds |-> "unlisted"]
NoCall == [kind |-> "none", cred |-> None, new |-> None, issuer |-> Blank.issuer,
           revoke_old |-> FALSE, force |-> FALSE, late |-> FALSE]
NoAnswer == [kind |-> "none", cred |-> None, late |-> FALSE, vouched |-> TRUE]

Init ==
    /\ envelope \in [Creds -> Envelope]
    /\ \A c \in Creds \ External : envelope[c] = Blank
    /\ age = [c \in Creds |-> IF c \in External THEN "undated" ELSE "unmade"]
    /\ wallet = External
    /\ trusted = Issuers \X Types
    /\ db = Unlisted /\ text = "whole"
    /\ pc = [p \in Clients |-> "idle"]
    /\ op = [p \in Clients |-> NoCall]
    /\ view = [p \in Clients |-> Unlisted]
    /\ requests = 0
    /\ revoked = {} /\ overwritten = {}
    /\ since = [p \in Clients |-> {}]
    /\ seen = [p \in Clients |-> {}]
    /\ answer = [p \in Clients |-> NoAnswer]
    /\ retired = {}

-----------------------------------------------------------------------------
(* A process's bookkeeping.                                                *)

Goto(p, step) == pc' = [pc EXCEPT ![p] = step]

\* The call of p ends, with an answer, an error or an exception.
End(p) ==
    /\ Goto(p, "idle")
    /\ op' = [op EXCEPT ![p] = NoCall]
    /\ view' = [view EXCEPT ![p] = Unlisted]
    /\ since' = [since EXCEPT ![p] = {}]
    /\ seen' = [seen EXCEPT ![p] = {}]

\* The issuer and type the call of p must find allowed.
Pair(p) ==
    <<IF op[p].kind = "present" \/ (pc[p] = "trust" /\ op[p].kind = "renew")
      THEN envelope[op[p].cred].issuer ELSE op[p].issuer,
      envelope[op[p].cred].type>>

\* issuer_allows_type.
Allowed(p) == Pair(p) \in trusted

\* Mutant of StatusOK: an entry is enough, whatever it says.
StatusOKListed(p) == db[op[p].cred] # "unlisted" \/ ~Strict

\* check_status.
StatusOK(p) == db[op[p].cred] = "active" \/ (db[op[p].cred] = "unlisted" /\ ~Strict)

Begin(p, step, call) ==
    /\ pc[p] = "idle"
    /\ requests < MaxRequests
    /\ requests' = requests + 1
    /\ Goto(p, step)
    /\ op' = [op EXCEPT ![p] = [call EXCEPT !.late = call.cred \in revoked]]
    /\ answer' = [answer EXCEPT ![p] = NoAnswer]
    /\ UNCHANGED <<envelope, age, wallet, file, view, revoked, overwritten, since, retired>>

-----------------------------------------------------------------------------
(* The calls.                                                              *)

\* present_credential, whose envelope carries a valid signature.
Present(p, c) ==
    /\ c \in wallet
    /\ Begin(p, "trust", [NoCall EXCEPT !.kind = "present", !.cred = c])
    /\ seen' = [seen EXCEPT ![p] = trusted]
    /\ UNCHANGED trusted

\* renew_credential or rotate_credential by an issuer i.
Replace(p, kind, c, i, revoke_old, force) ==
    /\ c \in wallet
    /\ Begin(p, "trust", [NoCall EXCEPT !.kind = kind, !.cred = c, !.issuer = i,
                                        !.revoke_old = revoke_old, !.force = force])
    /\ seen' = [seen EXCEPT ![p] = trusted]
    /\ UNCHANGED trusted

\* A registry change, seen by the calls that check it.
Allow(pairs) ==
    /\ trusted' = trusted \cup pairs
    /\ seen' = [p \in Clients |-> IF pc[p] \in {"trust", "expiry", "status", "issue"} THEN seen[p] \cup pairs
                                  ELSE {}]

\* new_credential_id: 128 random bits.
IsNew(id) == age[id] = "unmade" /\ \A p \in Clients : op[p].new # id

\* cmd_mint: the registry gets the issuer with all its types, without a check.
Mint(p, i, new) ==
    /\ i \in DevIssuers
    /\ IsNew(new)
    /\ Begin(p, "load", [NoCall EXCEPT !.kind = "mint", !.new = new, !.issuer = i])
    /\ Allow({i} \X Types)

\* revoke, by cmd_revoke: any id may be named.
Revoke(p, c) ==
    /\ c \in External \/ age[c] # "unmade"
    /\ Begin(p, "load", [NoCall EXCEPT !.kind = "revoke", !.cred = c])
    /\ UNCHANGED <<trusted, seen>>

\* The next question of a call whose issuer is trusted.
AfterTrust(p) == IF op[p].kind = "present" THEN "expiry" ELSE "status"

\* Mutant of CheckTrust: only an issuer's own calls ask the registry.
CheckTrustOfIssuers(p) ==
    /\ pc[p] = "trust"
    /\ IF Allowed(p) \/ op[p].kind = "present"
       THEN Goto(p, AfterTrust(p)) /\ UNCHANGED <<op, view, since, seen>> ELSE End(p)
    /\ UNCHANGED <<envelope, age, wallet, trusted, file, requests, revoked, overwritten, answer, retired>>

\* The first question of present, renew and rotate, asked of the registry.
CheckTrust(p) ==
    /\ pc[p] = "trust"
    /\ IF Allowed(p) THEN Goto(p, AfterTrust(p)) /\ UNCHANGED <<op, view, since, seen>> ELSE End(p)
    /\ UNCHANGED <<envelope, age, wallet, trusted, file, requests, revoked, overwritten, answer, retired>>

\* present_credential asks the clock next.
CheckExpiry(p) ==
    /\ pc[p] = "expiry"
    /\ IF age[op[p].cred] # "expired" THEN Goto(p, "status") /\ UNCHANGED <<op, view, since, seen>> ELSE End(p)
    /\ UNCHANGED <<envelope, age, wallet, trusted, file, requests, revoked, overwritten, answer, retired>>

Answered(p) == [kind |-> op[p].kind, cred |-> op[p].cred, late |-> op[p].late,
                vouched |-> Pair(p) \in seen[p]]

\* present_credential's status and scopes.
Accept(p) ==
    /\ pc[p] = "status" /\ op[p].kind = "present"
    /\ text = "whole"
    /\ StatusOK(p)
    /\ envelope[op[p].cred].type \notin Scopeless
    /\ answer' = [answer EXCEPT ![p] = Answered(p)]
    /\ End(p)
    /\ UNCHANGED <<envelope, age, wallet, trusted, file, requests, revoked, overwritten, retired>>

\* check_renewal_eligibility's status and renewal window; force and
\* allow_expired are given together.
Renewable(p) ==
    /\ StatusOK(p)
    /\ age[op[p].cred] = "due" \/ op[p].force

\* rotate_credential asks for the status too, and goes on with a revoked one.
Rotatable(p) == op[p].force \/ StatusOK(p) \/ db[op[p].cred] = "revoked"

Eligible(p) ==
    /\ pc[p] = "status"
    /\ text = "whole"
    /\ \/ op[p].kind = "renew" /\ Renewable(p)
       \/ op[p].kind = "rotate" /\ Rotatable(p)
    /\ Goto(p, "issue")
    /\ op' = [op EXCEPT ![p].force = FALSE]
    /\ UNCHANGED <<envelope, age, wallet, trusted, file, view, requests, history>>

\* issue_replacement: the issuer's trust again, then a new id.
Issue(p, new) ==
    /\ pc[p] = "issue"
    /\ Allowed(p)
    /\ IsNew(new)
    /\ op' = [op EXCEPT ![p].new = new, ![p].late = FALSE]
    /\ answer' = [answer EXCEPT ![p] = Answered(p)]
    /\ seen' = [seen EXCEPT ![p] = {}]
    /\ Goto(p, "load")
    /\ UNCHANGED <<envelope, age, wallet, trusted, file, view, requests, revoked, overwritten, since, retired>>

\* The check fails, or no id is left in this model.
Refused(p) ==
    /\ \/ pc[p] = "status" /\ text = "whole"
       \/ pc[p] = "issue"
    /\ End(p)
    /\ UNCHANGED <<envelope, age, wallet, trusted, file, requests, revoked, overwritten, answer, retired>>

-----------------------------------------------------------------------------
(* The status file.                                                        *)

\* The entry the call of p is about to write: register_active as long as its
\* new credential is not made, revoke after that.
Registers(p) == op[p].new # None /\ age[op[p].new] = "unmade"

\* Mutant of Edited: a replacement enters the status of the credential it replaces.
EditedReplaces(p) ==
    IF Registers(p) THEN [view[p] EXCEPT ![op[p].new] = "active",
                                         ![IF op[p].cred = None THEN op[p].new ELSE op[p].cred] = "active"]
    ELSE [view[p] EXCEPT ![op[p].cred] = "revoked"]

\* Mutant of Edited: a replaced credential gets a status of its own.
EditedSuperseded(p) ==
    IF Registers(p) THEN [view[p] EXCEPT ![op[p].new] = "active"]
    ELSE [view[p] EXCEPT ![op[p].cred] = IF op[p].revoke_old THEN "superseded" ELSE "revoked"]

Edited(p) ==
    IF Registers(p) THEN [view[p] EXCEPT ![op[p].new] = "active"]
    ELSE [view[p] EXCEPT ![op[p].cred] = "revoked"]

\* load_status_db in register_active and in revoke.
Load(p) ==
    /\ pc[p] = "load"
    /\ text = "whole"
    /\ view' = [view EXCEPT ![p] = db]
    /\ since' = [since EXCEPT ![p] = {}]
    /\ Goto(p, IF ~Registers(p) /\ db[op[p].cred] = "revoked" THEN "done" ELSE "loaded")
    /\ UNCHANGED <<envelope, age, wallet, trusted, file, op, requests, revoked, overwritten, seen, answer, retired>>

\* write_text opens the file, which empties it.
Truncate(p) ==
    /\ pc[p] = "loaded"
    /\ db' = Unlisted /\ text' = "empty"
    /\ Goto(p, "writing")
    /\ UNCHANGED <<envelope, age, wallet, trusted, op, view, requests, history>>

\* The credential p registers comes into being for everybody else.
Enters(p) ==
    IF Registers(p)
    THEN /\ age' = [age EXCEPT ![op[p].new] = "fresh"]
         /\ \E t \in IF op[p].kind = "mint" THEN Types \ Scopeless ELSE {envelope[op[p].cred].type} :
                envelope' = [envelope EXCEPT ![op[p].new] = [issuer |-> op[p].issuer, type |-> t]]
    ELSE UNCHANGED <<age, envelope>>

\* write_text writes.  When another process has written since the file was
\* emptied, the rest of a longer text stays behind.
Write(p) ==
    /\ pc[p] = "writing"
    /\ text' \in IF text = "empty" THEN {"whole"} ELSE {"whole", "mixed"}
    /\ db' = IF text' = "whole" THEN Edited(p) ELSE Unlisted
    /\ Enters(p)
    /\ LET now == IF Registers(p) THEN {} ELSE {op[p].cred}
       IN  /\ revoked' = revoked \cup now
           /\ since' = [q \in Clients |-> IF q # p /\ pc[q] \in {"loaded", "writing"}
                                           THEN since[q] \cup now ELSE {}]
           /\ overwritten' = overwritten \cup (since[p] \ now)
    /\ view' = [view EXCEPT ![p] = Unlisted]
    /\ Goto(p, IF ~Registers(p) \/ ~op[p].revoke_old THEN "done"
               ELSE IF op[p].kind = "rotate" THEN "lookup" ELSE "load")
    /\ UNCHANGED <<wallet, trusted, op, requests, seen, answer, retired>>

\* Mutant of LookUp: only a listed credential is revoked.
LookUpListed(p) ==
    /\ pc[p] = "lookup"
    /\ text = "whole"
    /\ Goto(p, IF db[op[p].cred] # "active" THEN "done" ELSE "load")
    /\ UNCHANGED <<envelope, age, wallet, trusted, file, op, view, requests, history>>

\* rotate_credential looks the old credential up before it revokes it.
LookUp(p) ==
    /\ pc[p] = "lookup"
    /\ text = "whole"
    /\ Goto(p, IF db[op[p].cred] = "revoked" THEN "done" ELSE "load")
    /\ UNCHANGED <<envelope, age, wallet, trusted, file, op, view, requests, history>>

\* The call returns what it made.
Return(p) ==
    /\ pc[p] = "done"
    /\ wallet' = wallet \cup ({op[p].new} \ {None})
    /\ retired' = IF op[p].kind = "revoke" \/ op[p].revoke_old THEN retired \cup {op[p].cred}
                  ELSE retired
    /\ End(p)
    /\ UNCHANGED <<envelope, age, trusted, file, requests, revoked, overwritten, answer>>

\* The file does not parse: json.loads raises.
Raise(p) ==
    /\ text # "whole" /\ pc[p] \in {"status", "load", "lookup"}
    /\ End(p)
    /\ UNCHANGED <<envelope, age, wallet, trusted, file, requests, revoked, overwritten, answer, retired>>

Die(p) ==
    /\ pc[p] # "idle"
    /\ End(p)
    /\ UNCHANGED <<envelope, age, wallet, trusted, file, requests, revoked, overwritten, answer, retired>>

-----------------------------------------------------------------------------
(* The world around.                                                       *)

\* Time passes: credentials come into their renewal window, and expire.
Pass ==
    /\ \E c \in Creds : age[c] \in {"fresh", "due"}
    /\ age' = [c \in Creds |-> CASE age[c] = "fresh" -> "due"
                                [] age[c] = "due" -> "expired"
                                [] OTHER -> age[c]]
    /\ UNCHANGED <<envelope, wallet, trusted, file, process, requests, history>>

\* Governors change the registry (module TrustRegistry).
Withdraw(i, t) ==
    /\ trusted' = trusted \ {<<i, t>>}
    /\ UNCHANGED <<envelope, age, wallet, file, process, requests, history>>

Grant(i, t) ==
    /\ Allow({<<i, t>>})
    /\ UNCHANGED <<envelope, age, wallet, file, process, requests, revoked, overwritten, since, answer, retired>>

Next ==
    \/ \E p \in Clients, c \in Creds : Present(p, c) \/ Revoke(p, c) \/ Issue(p, c)
    \/ \E p \in Clients, kind \in {"renew", "rotate"}, c \in Creds, i \in Issuers,
          revoke_old, force \in BOOLEAN : Replace(p, kind, c, i, revoke_old, force)
    \/ \E p \in Clients, i \in DevIssuers, new \in Creds : Mint(p, i, new)
    \/ \E p \in Clients : CheckTrust(p) \/ CheckExpiry(p) \/ Accept(p) \/ Eligible(p) \/ Refused(p)
    \/ \E p \in Clients : Load(p) \/ Truncate(p) \/ Write(p) \/ LookUp(p) \/ Return(p)
    \/ \E p \in Clients : Raise(p) \/ Die(p)
    \/ Pass
    \/ \E i \in Issuers, t \in Types : Withdraw(i, t) \/ Grant(i, t)

Spec == Init /\ [][Next]_vars

-----------------------------------------------------------------------------
(* Properties.                                                             *)

\* Once a credential's revocation is saved it stays in the file, unless a
\* process that had loaded the file before writes it back.
RevocationSticks ==
    text = "whole" => \A c \in revoked \ overwritten : db[c] = "revoked"

\* A presentation or a renewal that begins after the credential's revocation
\* was saved does not succeed, whatever dies or is torn in between.
NothingAfterRevocation ==
    \A p \in Clients : answer[p].late /\ answer[p].kind \in {"present", "renew"}
                       => answer[p].cred \in overwritten

\* Nothing is accepted or replaced for an issuer and a type that governors
\* disallowed before the call and did not allow again while it checked.
AlwaysVouchedFor == \A p \in Clients : answer[p].vouched

\* A rotation (a renewal asked to revoke, a revocation) that returned has
\* retired the old credential.
ReturnedRotationRetires ==
    text = "whole" => \A c \in retired \ overwritten : db[c] = "revoked"
=============================================================================
