------------------------- MODULE TrustRegistryProofs -------------------------
(***************************************************************************)
(* Proofs about TrustRegistry, for any issuers, types, actors and number   *)
(* of processes, however their steps interleave.                           *)
(***************************************************************************)
EXTENDS TrustRegistry, FiniteSetTheorems, SequenceTheorems, TLAPS

USE RegistryAssumption

(***************************************************************************)
(* What the functions of the module make of an entry.                      *)
(***************************************************************************)
LEMMA NewStatusOK ==
    ASSUME NEW action \in Actions, NEW found \in Status \cup {"absent"},
           action = "set_allowed_types" => found # "absent"
    PROVE  NewStatus(action, found) \in Status
  BY DEF NewStatus, Actions, Status

LEMMA AllowedFromOK ==
    ASSUME NEW action \in Actions
    PROVE  /\ AllowedFrom(action) \subseteq Status \cup {"absent"}
           /\ action = "set_allowed_types" => "absent" \notin AllowedFrom(action)
           /\ action # "ensure" => "revoked" \notin AllowedFrom(action)
  BY DEF AllowedFrom, Actions, Status

LEMMA ChangedOK ==
    ASSUME NEW e \in Entry, NEW o \in Operation,
           o.action = "set_allowed_types" => e.status # "absent"
    PROVE  /\ Changed(e, o) \in Entry
           /\ o.action # "ensure" => Changed(e, o).types \in {e.types, o.types}
  <1> DEFINE types == CASE o.action \in {"approve", "set_allowed_types"} -> o.types
                        [] o.action = "ensure" -> Types
                        [] OTHER -> e.types
  <1>1. types \in SUBSET Types /\ (o.action # "ensure" => types \in {e.types, o.types})
    BY DEF Entry, Operation
  <1>2. NewStatus(o.action, e.status) \in Status
    BY NewStatusOK DEF Entry, Operation
  <1>3. Changed(e, o) = [e EXCEPT !.status = NewStatus(o.action, e.status), !.types = types,
                                  !.approved = @ \/ o.action = "approve"]
    BY DEF Changed
  <1> HIDE DEF types
  <1> QED
    BY <1>1, <1>2, <1>3 DEF Entry

LEMMA AppliedOK ==
    ASSUME NEW file \in [Issuers -> Entry], NEW o \in Operation
    PROVE  /\ Applied(file, o) \in [Issuers -> Entry]
           /\ \A i \in Issuers : i # o.issuer => Applied(file, o)[i] = file[i]
           /\ o.action # "ensure" =>
                Applied(file, o)[o.issuer].types \in {file[o.issuer].types, o.types}
  <1>1. o.issuer \in Issuers
    BY DEF Operation
  <1>2. CASE Applied(file, o) = file
    BY <1>1, <1>2
  <1>3. CASE Applied(file, o) # file
    <2>1. /\ Applied(file, o) = [file EXCEPT ![o.issuer] = Changed(file[o.issuer], o)]
          /\ o.action = "set_allowed_types" => file[o.issuer].status # "absent"
      BY <1>3 DEF Applied
    <2>2. /\ Changed(file[o.issuer], o) \in Entry
          /\ o.action # "ensure" =>
               Changed(file[o.issuer], o).types \in {file[o.issuer].types, o.types}
      BY <1>1, <2>1, ChangedOK
    <2> QED
      BY <1>1, <2>1, <2>2
  <1> QED
    BY <1>2, <1>3

-----------------------------------------------------------------------------
(***************************************************************************)
(* An operation in progress passed its check, and unless somebody wrote    *)
(* the issuer in between, the loaded file still shows the checked status.  *)
(***************************************************************************)
OperationsChecked ==
    \A c \in Clients : pc[c] # "idle" =>
        /\ op[c].prev \in AllowedFrom(op[c].action)
        /\ op[c].action = "ensure" => op[c].issuer \in DevIssuers

LoadedAsChecked ==
    \A c \in Clients : pc[c] = "loaded" /\ op[c].issuer \notin stale =>
        view[c][op[c].issuer].status = op[c].prev

RegistryInv == TypeOK /\ OperationsChecked /\ LoadedAsChecked

LEMMA NothingOK == Nothing \in [Issuers -> Entry]
  BY DEF Nothing, NoEntry, Entry

LEMMA RegistryInit == Init => RegistryInv
  <1> SUFFICES ASSUME Init
               PROVE  RegistryInv
    OBVIOUS
  <1> QED
    BY NothingOK DEF Init, RegistryInv, TypeOK, OperationsChecked, LoadedAsChecked

LEMMA RegistryStep == RegistryInv /\ [Next]_vars => RegistryInv'
  <1> SUFFICES ASSUME RegistryInv, [Next]_vars
               PROVE  RegistryInv'
    OBVIOUS
  <1> USE DEF RegistryInv, TypeOK, OperationsChecked, LoadedAsChecked, governance
  <1>1. ASSUME NEW c \in Clients, NEW actor \in Actors, NEW action \in Actions,
               NEW i \in Issuers, NEW types \in SUBSET Types,
               Request(c, actor, action, i, types)
        PROVE  RegistryInv'
    <2> DEFINE o == [action |-> action, issuer |-> i, types |-> types, prev |-> reg[i].status]
    <2>1. o \in Operation /\ o.action # "ensure"
      BY <1>1 DEF Request, Operation, Entry
    <2>2. Check(c, actor, o)
      BY <1>1 DEF Request
    <2> HIDE DEF o
    <2>3. grants' \in [Issuers -> SUBSET (Types \X Actors)]
      BY <2>1, <2>2 DEF Check, Operation
    <2> QED
      BY <2>1, <2>2, <2>3 DEF Check
  <1>2. ASSUME NEW c \in Clients, NEW i \in Issuers, EnsureRegistry(c, i)
        PROVE  RegistryInv'
    <2> DEFINE o == [action |-> "ensure", issuer |-> i, types |-> {}, prev |-> reg[i].status]
    <2>1. o \in Operation /\ o.action = "ensure" /\ o.issuer \in DevIssuers
      BY <1>2 DEF EnsureRegistry, Operation, Entry, Actions
    <2>2. o.prev \in AllowedFrom(o.action)
      BY DEF AllowedFrom, Entry
    <2>3. /\ op' = [op EXCEPT ![c] = o] /\ pc' = [pc EXCEPT ![c] = "checked"]
          /\ requests' \in Nat /\ pc[c] = "idle"
          /\ UNCHANGED <<reg, log, governance, view, grants, stale, unaudited>>
      BY <1>2 DEF EnsureRegistry, Idle
    <2> HIDE DEF o
    <2> QED
      BY <2>1, <2>2, <2>3
  <1>3. ASSUME NEW c \in Clients, Load(c)
        PROVE  RegistryInv'
    BY <1>3 DEF Load, Operation
  <1>4. ASSUME NEW c \in Clients, Save(c)
        PROVE  RegistryInv'
    <2>1. reg' \in [Issuers -> Entry]
      BY <1>4, AppliedOK DEF Save
    <2> QED
      BY <1>4, <2>1, NothingOK DEF Save, Operation
  <1>5. ASSUME NEW c \in Clients, Audit(c)
        PROVE  RegistryInv'
    <2>1. AuditRecord(op[c]) \in Record
      BY <1>5, NewStatusOK, AllowedFromOK DEF Audit, AuditRecord, Record, Operation
    <2> QED
      BY <1>5, <2>1 DEF Audit
  <1>6. ASSUME NEW c \in Clients, Die(c)
        PROVE  RegistryInv'
    BY <1>6, NothingOK DEF Die, Operation
  <1>7. ASSUME NEW c \in Clients, NEW actor \in Actors, NEW new \in Actors, RegisterAdmin(c, actor, new)
        PROVE  RegistryInv'
    <2>1. [step |-> "checked", who |-> new, by |-> actor, list |-> {}] \in Enrolment
      BY DEF Enrolment
    <2> QED
      BY <1>7, <2>1 DEF RegisterAdmin, process
  <1>8. ASSUME NEW c \in Clients, LoadAdmins(c)
        PROVE  RegistryInv'
    <2>1. enrol[c] \in Enrolment
      BY <1>8 DEF LoadAdmins, NoEnrolment
    <2>2. enrol' \in [Clients -> Enrolment \cup {NoEnrolment}]
      BY <1>8, <2>1 DEF LoadAdmins, Enrolment
    <2> QED
      BY <1>8, <2>2 DEF LoadAdmins, process
  <1>9. ASSUME NEW c \in Clients, SaveAdmins(c)
        PROVE  RegistryInv'
    <2>1. enrol[c] \in Enrolment
      BY <1>9 DEF SaveAdmins, NoEnrolment
    <2>2. admins' \in SUBSET Actors /\ appointed' \in SUBSET (Actors \X Actors)
      BY <1>9, <2>1 DEF SaveAdmins, Enrolment
    <2> QED
      BY <1>9, <2>2 DEF SaveAdmins, process
  <1>10. CASE UNCHANGED vars
    BY <1>10 DEF vars, process, governance
  <1> QED
    BY <1>1, <1>2, <1>3, <1>4, <1>5, <1>6, <1>7, <1>8, <1>9, <1>10 DEF Next

LEMMA RegistryAlways == Spec => []RegistryInv
  BY RegistryInit, RegistryStep, PTL DEF Spec

\* The registry file always holds well-formed entries, each audit record names
\* a status an issuer can be left in.
THEOREM RegistryTypes == Spec => []TypeOK
  <1>1. RegistryInv => TypeOK
    BY DEF RegistryInv
  <1> QED
    BY <1>1, RegistryAlways, PTL

\* A revocation is undone only by a process that acts on an outdated check or
\* writes back an outdated file, or by dev_issuer.py for an issuer of its own.
THEOREM RevocationHoldsUnlessStale == Spec => RevokedUnlessStale
  <1> DEFINE Kept == \A i \in Issuers \ (DevIssuers \cup stale') :
                         reg[i].status = "revoked" => reg'[i].status = "revoked"
  <1>1. RegistryInv /\ [Next]_vars => [Kept]_vars
    <2> SUFFICES ASSUME RegistryInv, Next, NEW i \in Issuers, i \notin DevIssuers,
                        i \notin stale', reg[i].status = "revoked"
                 PROVE  reg'[i].status = "revoked"
      BY DEF vars
    <2>1. CASE reg' = reg
      BY <2>1
    <2>2. ASSUME NEW c \in Clients, Save(c)
          PROVE  reg'[i].status = "revoked"
      <3>1. /\ view[c] \in [Issuers -> Entry] /\ op[c] \in Operation
            /\ reg' = Applied(view[c], op[c])
            /\ reg[i] = view[c][i]
            /\ i \notin stale
        BY <2>2 DEF Save, RegistryInv, TypeOK
      <3>2. op[c].issuer # i
        <4> SUFFICES ASSUME op[c].issuer = i
                     PROVE  FALSE
          OBVIOUS
        <4>1. op[c].prev = "revoked"
          BY <2>2, <3>1 DEF Save, RegistryInv, LoadedAsChecked
        <4>2. op[c].prev \in AllowedFrom(op[c].action) /\ op[c].action # "ensure"
          BY <2>2 DEF Save, RegistryInv, OperationsChecked
        <4>3. op[c].action \in Actions
          BY <3>1 DEF Operation
        <4> QED
          BY <4>1, <4>2, <4>3, AllowedFromOK
      <3> QED
        BY <3>1, <3>2, AppliedOK
    <2> QED
      <3>1. ASSUME NEW c \in Clients, Load(c) \/ Audit(c) \/ Die(c) \/ LoadAdmins(c) \/ SaveAdmins(c)
            PROVE  reg' = reg
        BY <3>1 DEF Load, Audit, Die, LoadAdmins, SaveAdmins
      <3> QED
        BY <2>1, <2>2, <3>1 DEF Next, Request, Check, EnsureRegistry, RegisterAdmin
  <1> QED
    BY <1>1, RegistryAlways, PTL DEF Spec, RevokedUnlessStale

-----------------------------------------------------------------------------
(***************************************************************************)
(* Authority comes down from the bootstrap actor: whoever is in the admins *)
(* file, in a list that was loaded of it or registers somebody.            *)
(***************************************************************************)
GovernanceInv ==
    /\ admins \subseteq Governors
    /\ \A c \in Clients : enrol[c] # NoEnrolment => enrol[c].by \in Governors /\ enrol[c].list \subseteq Governors

LEMMA GovernorsGrow ==
    ASSUME appointed \subseteq appointed'
    PROVE  Governors \subseteq Governors'
  <1>1. \A G : Closed(G)' => Closed(G)
    BY DEF Closed
  <1> QED
    BY <1>1 DEF Governors

LEMMA AuthorityGoverns ==
    ASSUME GovernanceInv, NEW a \in Actors, HasAuthority(a)
    PROVE  a \in Governors
  BY DEF GovernanceInv, HasAuthority, Governors, Closed

LEMMA GovernanceStep ==
    RegistryInv /\ GovernanceInv /\ [Next]_vars => GovernanceInv' /\ Governors \subseteq Governors'
  <1> SUFFICES ASSUME RegistryInv, GovernanceInv, [Next]_vars
               PROVE  GovernanceInv' /\ Governors \subseteq Governors'
    OBVIOUS
  <1>1. enrol \in [Clients -> Enrolment \cup {NoEnrolment}]
    BY DEF RegistryInv, TypeOK
  <1>2. ASSUME NEW c \in Clients, NEW actor \in Actors, NEW new \in Actors, RegisterAdmin(c, actor, new)
        PROVE  GovernanceInv' /\ Governors \subseteq Governors'
    <2>1. actor \in Governors /\ Governors \subseteq Governors'
      BY <1>2, AuthorityGoverns, GovernorsGrow DEF RegisterAdmin
    <2>2. /\ admins' = admins
          /\ enrol' = [enrol EXCEPT ![c] = [step |-> "checked", who |-> new, by |-> actor, list |-> {}]]
      BY <1>2 DEF RegisterAdmin
    <2> QED
      BY <1>1, <2>1, <2>2 DEF GovernanceInv
  <1>3. ASSUME NEW c \in Clients, LoadAdmins(c)
        PROVE  GovernanceInv' /\ Governors \subseteq Governors'
    <2>1. Governors \subseteq Governors' /\ admins' = admins
      BY <1>3, GovernorsGrow DEF LoadAdmins
    <2>2. enrol[c] \in Enrolment /\ enrol[c] # NoEnrolment
      BY <1>1, <1>3 DEF LoadAdmins, NoEnrolment
    <2>3. \/ enrol' = [enrol EXCEPT ![c] = NoEnrolment]
          \/ enrol' = [enrol EXCEPT ![c] = [@ EXCEPT !.step = "loaded", !.list = admins]]
      BY <1>1, <1>3 DEF LoadAdmins
    <2>4. enrol[c].by \in Governors /\ admins \subseteq Governors
      BY <2>2 DEF GovernanceInv
    <2>5. enrol'[c] # NoEnrolment => enrol'[c].by \in Governors /\ enrol'[c].list \subseteq Governors
      BY <1>1, <2>2, <2>3, <2>4 DEF Enrolment
    <2>6. \A d \in Clients \ {c} : enrol'[d] = enrol[d]
      BY <1>1, <2>3
    <2> QED
      BY <2>1, <2>5, <2>6 DEF GovernanceInv
  <1>4. ASSUME NEW c \in Clients, SaveAdmins(c)
        PROVE  GovernanceInv' /\ Governors \subseteq Governors'
    <2>1. /\ admins' = enrol[c].list \cup {enrol[c].who}
          /\ appointed' = appointed \cup {<<enrol[c].who, enrol[c].by>>}
          /\ enrol' = [enrol EXCEPT ![c] = NoEnrolment]
      BY <1>4 DEF SaveAdmins
    <2>2. enrol[c] \in Enrolment /\ enrol[c] # NoEnrolment
      BY <1>1, <1>4 DEF SaveAdmins, NoEnrolment
    <2>3. Governors \subseteq Governors'
      BY <2>1, GovernorsGrow
    <2>4. enrol[c].by \in Governors /\ enrol[c].list \subseteq Governors
      BY <2>2 DEF GovernanceInv
    <2>5. enrol[c].who \in Governors'
      <3>1. enrol[c].who \in Actors /\ enrol[c].by \in Governors' /\ <<enrol[c].who, enrol[c].by>> \in appointed'
        BY <2>1, <2>2, <2>3, <2>4 DEF Enrolment
      <3>2. \A G \in SUBSET Actors : Closed(G)' => enrol[c].by \in G /\ enrol[c].who \in G
        BY <3>1 DEF Governors, Closed
      <3> QED
        BY <3>1, <3>2 DEF Governors
    <2> QED
      BY <1>1, <2>1, <2>3, <2>4, <2>5 DEF GovernanceInv
  <1>5. ASSUME NEW c \in Clients, Die(c)
        PROVE  GovernanceInv' /\ Governors \subseteq Governors'
    <2>1. /\ admins' = admins /\ enrol' = [enrol EXCEPT ![c] = NoEnrolment]
          /\ Governors \subseteq Governors'
      BY <1>5, GovernorsGrow DEF Die
    <2> QED
      BY <1>1, <2>1 DEF GovernanceInv
  <1>6. CASE UNCHANGED governance
    <2>1. UNCHANGED <<admins, enrol, appointed>>
      BY <1>6 DEF governance
    <2> QED
      BY <2>1, GovernorsGrow DEF GovernanceInv
  <1> QED
    BY <1>2, <1>3, <1>4, <1>5, <1>6 DEF Next, Request, Check, EnsureRegistry, Load, Save, Audit, vars

(***************************************************************************)
(* Types reach an entry from operations in progress and from loaded files; *)
(* all of these hold granted types only.                                   *)
(***************************************************************************)
GrantedTypes(i) == {t \in Types : \E a \in Governors : <<t, a>> \in grants[i]}

GrantsInv ==
    /\ \A i \in Issuers \ DevIssuers : reg[i].types \subseteq GrantedTypes(i)
    /\ \A c \in Clients : pc[c] = "loaded" =>
           \A i \in Issuers \ DevIssuers : view[c][i].types \subseteq GrantedTypes(i)
    /\ \A c \in Clients : pc[c] # "idle" /\ op[c].action # "ensure" =>
           op[c].types \subseteq GrantedTypes(op[c].issuer)

LEMMA GrantsStep == RegistryInv /\ GovernanceInv /\ GrantsInv /\ [Next]_vars => GrantsInv'
  <1> SUFFICES ASSUME RegistryInv, GovernanceInv, GrantsInv, [Next]_vars
               PROVE  GrantsInv'
    OBVIOUS
  <1>0. /\ Governors \subseteq Governors'
        /\ UNCHANGED governance => Governors' = Governors
    BY GovernanceStep DEF governance, Governors, Closed
  <1> USE DEF GrantsInv, RegistryInv, TypeOK
  <1>1. ASSUME NEW c \in Clients, NEW actor \in Actors, NEW action \in Actions,
               NEW i \in Issuers, NEW types \in SUBSET Types,
               Request(c, actor, action, i, types)
        PROVE  GrantsInv'
    <2> DEFINE o == [action |-> action, issuer |-> i, types |-> types, prev |-> reg[i].status]
    <2>1. /\ o.issuer = i /\ o.types = types
          /\ Check(c, actor, o)
      BY <1>1 DEF Request
    <2> HIDE DEF o
    <2>2. actor \in Governors /\ Governors' = Governors
      BY <1>0, <2>1, AuthorityGoverns DEF Check
    <2>3. grants' = [grants EXCEPT ![i] = @ \cup (types \X {actor})]
      BY <2>1 DEF Check
    <2>4. \A j \in Issuers : GrantedTypes(j) \subseteq GrantedTypes(j)'
      BY <2>2, <2>3 DEF GrantedTypes
    <2>5. types \subseteq GrantedTypes(i)'
      BY <2>2, <2>3 DEF GrantedTypes
    <2>6. /\ reg' = reg /\ view' = view
          /\ pc' = [pc EXCEPT ![c] = "checked"] /\ op' = [op EXCEPT ![c] = o]
      BY <2>1 DEF Check
    <2> HIDE DEF GrantedTypes
    <2> QED
      BY <2>1, <2>4, <2>5, <2>6 DEF OperationsChecked, Operation
  <1>2. ASSUME NEW c \in Clients, NEW i \in Issuers, EnsureRegistry(c, i)
        PROVE  GrantsInv'
    <2>1. \A j \in Issuers : GrantedTypes(j)' = GrantedTypes(j)
      BY <1>0, <1>2 DEF EnsureRegistry, GrantedTypes
    <2>2. reg' = reg /\ view' = view /\ pc' = [pc EXCEPT ![c] = "checked"]
      BY <1>2 DEF EnsureRegistry
    <2>3. op'[c].action = "ensure" /\ \A d \in Clients : d # c => op'[d] = op[d]
      BY <1>2 DEF EnsureRegistry
    <2> HIDE DEF GrantedTypes
    <2> QED
      BY <2>1, <2>2, <2>3 DEF Operation
  <1>3. ASSUME NEW c \in Clients, Load(c)
        PROVE  GrantsInv'
    BY <1>0, <1>3 DEF Load, GrantedTypes
  <1>4. ASSUME NEW c \in Clients, Save(c)
        PROVE  GrantsInv'
    <2>1. \A j \in Issuers : GrantedTypes(j)' = GrantedTypes(j)
      BY <1>0, <1>4 DEF Save, GrantedTypes
    <2>2. /\ view[c] \in [Issuers -> Entry] /\ op[c] \in Operation
          /\ reg' = Applied(view[c], op[c])
      BY <1>4 DEF Save
    <2>3. ASSUME NEW i \in Issuers, i \notin DevIssuers
          PROVE  reg'[i].types \subseteq GrantedTypes(i)
      <3>1. view[c][i].types \subseteq GrantedTypes(i)
        BY <1>4, <2>3 DEF Save
      <3>2. op[c].issuer = i => op[c].action # "ensure" /\ op[c].types \subseteq GrantedTypes(i)
        BY <1>4, <2>3 DEF Save, OperationsChecked
      <3>3. reg'[i].types \in {view[c][i].types, op[c].types} /\ (op[c].issuer # i => reg'[i] = view[c][i])
        BY <2>2, <3>2, AppliedOK
      <3> HIDE DEF GrantedTypes, GrantsInv
      <3> QED
        BY <3>1, <3>2, <3>3
    <2>4. \A d \in Clients : /\ pc'[d] # "idle" => pc[d] # "idle" /\ op'[d] = op[d]
                             /\ pc'[d] = "loaded" => pc[d] = "loaded" /\ view'[d] = view[d]
      BY <1>4 DEF Save
    <2> HIDE DEF GrantedTypes
    <2>5. \A i \in Issuers \ DevIssuers : reg'[i].types \subseteq GrantedTypes(i)'
      BY <2>1, <2>3
    <2>6. ASSUME NEW d \in Clients, pc'[d] = "loaded", NEW i \in Issuers \ DevIssuers
          PROVE  view'[d][i].types \subseteq GrantedTypes(i)'
      <3>1. view[d][i].types \subseteq GrantedTypes(i) /\ view'[d] = view[d]
        BY <2>4, <2>6
      <3> QED
        BY <2>1, <3>1
    <2>7. ASSUME NEW d \in Clients, (pc[d] # "idle" /\ op[d].action # "ensure")'
          PROVE  (op[d].types \subseteq GrantedTypes(op[d].issuer))'
      <3>1. pc[d] # "idle" /\ op'[d] = op[d]
        BY <2>4, <2>7
      <3>2. op[d].types \subseteq GrantedTypes(op[d].issuer)
        BY <2>7, <3>1
      <3>3. grants' = grants /\ Governors' = Governors
        BY <1>0, <1>4 DEF Save
      <3> QED
        BY <3>1, <3>2, <3>3 DEF GrantedTypes
    <2> QED
      BY <2>5, <2>6, <2>7
  <1>5. ASSUME NEW c \in Clients, Audit(c)
        PROVE  GrantsInv'
    <2>1. \A j \in Issuers : GrantedTypes(j)' = GrantedTypes(j)
      BY <1>0, <1>5 DEF Audit, GrantedTypes
    <2>2. reg' = reg /\ grants' = grants /\ Governors' = Governors
      BY <1>0, <1>5 DEF Audit
    <2>3. \A d \in Clients : pc'[d] # "idle" => pc'[d] = pc[d] /\ op'[d] = op[d] /\ view'[d] = view[d]
      BY <1>5 DEF Audit
    <2>4. ASSUME NEW d \in Clients, (pc[d] # "idle" /\ op[d].action # "ensure")'
          PROVE  (op[d].types \subseteq GrantedTypes(op[d].issuer))'
      BY <2>2, <2>3, <2>4 DEF GrantedTypes
    <2> HIDE DEF GrantedTypes
    <2> QED
      BY <2>1, <2>2, <2>3, <2>4
  <1>6. ASSUME NEW c \in Clients, Die(c)
        PROVE  GrantsInv'
    <2>1. \A j \in Issuers : GrantedTypes(j)' = GrantedTypes(j)
      BY <1>6 DEF Die, GrantedTypes, Governors, Closed
    <2>2. reg' = reg /\ grants' = grants /\ Governors' = Governors
      BY <1>6 DEF Die, Governors, Closed
    <2>3. \A d \in Clients : pc'[d] # "idle" => pc'[d] = pc[d] /\ op'[d] = op[d] /\ view'[d] = view[d]
      BY <1>6 DEF Die
    <2>4. ASSUME NEW d \in Clients, (pc[d] # "idle" /\ op[d].action # "ensure")'
          PROVE  (op[d].types \subseteq GrantedTypes(op[d].issuer))'
      BY <2>2, <2>3, <2>4 DEF GrantedTypes
    <2> HIDE DEF GrantedTypes
    <2> QED
      BY <2>1, <2>2, <2>3, <2>4
  <1>7. CASE UNCHANGED <<reg, process, grants>>
    <2>1. \A i \in Issuers : GrantedTypes(i) \subseteq GrantedTypes(i)'
      BY <1>0, <1>7 DEF GrantedTypes
    <2>2. UNCHANGED <<reg, pc, op, view>>
      BY <1>7 DEF process
    <2>3. \A c \in Clients : pc[c] # "idle" => op[c].issuer \in Issuers
      BY DEF Operation
    <2> HIDE DEF GrantedTypes
    <2>4. \A i \in Issuers : i \notin DevIssuers => reg'[i].types \subseteq GrantedTypes(i)'
      BY <2>1, <2>2
    <2>5. ASSUME NEW c \in Clients, pc'[c] = "loaded", NEW i \in Issuers \ DevIssuers
          PROVE  view'[c][i].types \subseteq GrantedTypes(i)'
      BY <2>1, <2>2, <2>5
    <2>6. ASSUME NEW c \in Clients, (pc[c] # "idle" /\ op[c].action # "ensure")'
          PROVE  (op[c].types \subseteq GrantedTypes(op[c].issuer))'
      <3>1. op[c].types \subseteq GrantedTypes(op[c].issuer) /\ op[c].issuer \in Issuers
        BY <2>2, <2>3, <2>6
      <3>2. grants' = grants /\ op'[c] = op[c]
        BY <1>7, <2>2
      <3> QED
        BY <1>0, <3>1, <3>2 DEF GrantedTypes
    <2> QED
      BY <2>4, <2>5, <2>6
  <1> QED
    BY <1>1, <1>2, <1>3, <1>4, <1>5, <1>6, <1>7 DEF Next, RegisterAdmin, LoadAdmins, SaveAdmins, vars

\* Trust in an issuer for a type goes back to a grant of that type to that issuer
\* by somebody whose authority comes down from the bootstrap actor, even when lost
\* updates bring old registry files back or drop admins.
THEOREM TrustIsGranted == Spec => []TrustComesFromGovernors
  <1>1. Init => GrantsInv /\ GovernanceInv
    BY DEF Init, GrantsInv, GovernanceInv, Nothing, NoEntry
  <1>2. GrantsInv => TrustComesFromGovernors
    BY DEF GrantsInv, GrantedTypes, TrustComesFromGovernors, IssuerAllowsType
  <1> QED
    BY <1>1, <1>2, RegistryAlways, GovernanceStep, GrantsStep, PTL DEF Spec

-----------------------------------------------------------------------------
(***************************************************************************)
(* The audit records balance.  While operations are under way the balance  *)
(* counts those that have saved and not logged as if their records were    *)
(* there.                                                                  *)
(***************************************************************************)
SavedTo(i, s) ==
    {c \in Clients : pc[c] = "saved" /\ op[c].issuer = i /\ NewStatus(op[c].action, op[c].prev) = s}
SavedFrom(i, s) == {c \in Clients : pc[c] = "saved" /\ op[c].issuer = i /\ op[c].prev = s}
StatusIs(i, s) == IF reg[i].status = s THEN 1 ELSE 0

Balanced(i, s) ==
    Entered(i, s) + Cardinality(SavedTo(i, s)) =
        Left(i, s) + Cardinality(SavedFrom(i, s)) + StatusIs(i, s)

BalanceInv ==
    /\ IsFiniteSet({c \in Clients : pc[c] # "idle"})
    /\ \A i \in Issuers \ (stale \cup unaudited), s \in Status : Balanced(i, s)

\* The places of a sequence that hold a member of wanted, before and after one
\* more is appended.
LEMMA AppendCounts ==
    ASSUME NEW S, NEW lines \in Seq(S), NEW e \in S, NEW wanted
    PROVE  LET places == {k \in DOMAIN lines : lines[k] \in wanted}
               longer == {k \in DOMAIN Append(lines, e) : Append(lines, e)[k] \in wanted}
           IN  /\ Cardinality(places) \in Nat
               /\ Cardinality(longer) = Cardinality(places) + (IF e \in wanted THEN 1 ELSE 0)
  <1> DEFINE places == {k \in DOMAIN lines : lines[k] \in wanted}
             longer == {k \in DOMAIN Append(lines, e) : Append(lines, e)[k] \in wanted}
             last == Len(lines) + 1
  <1>1. /\ Len(lines) \in Nat /\ DOMAIN lines = 1 .. Len(lines) /\ DOMAIN Append(lines, e) = 1 .. last
        /\ Append(lines, e)[last] = e
        /\ \A k \in 1 .. Len(lines) : Append(lines, e)[k] = lines[k]
    OBVIOUS
  <1>2. IsFiniteSet(places) /\ Cardinality(places) \in Nat
    <2>1. places \subseteq 1 .. Len(lines) /\ IsFiniteSet(1 .. Len(lines))
      BY <1>1, FS_Interval
    <2> QED
      BY <2>1, FS_Subset, FS_CardinalityType
  <1>3. last \notin places
    BY <1>1
  <1>4. longer = places \cup (IF e \in wanted THEN {last} ELSE {})
    <2>1. ASSUME NEW k
          PROVE  k \in longer <=> k \in places \/ (k = last /\ e \in wanted)
      <3>1. k \in 1 .. last <=> k \in 1 .. Len(lines) \/ k = last
        BY <1>1
      <3> HIDE DEF last
      <3> QED
        BY <1>1, <3>1
    <2> QED
      BY <2>1
  <1> HIDE DEF places, longer, last
  <1>5. Cardinality(longer) = Cardinality(places) + (IF e \in wanted THEN 1 ELSE 0)
    <2>1. CASE e \in wanted
      <3>1. longer = places \cup {last}
        BY <1>4, <2>1
      <3> QED
        BY <1>2, <1>3, <2>1, <3>1, FS_AddElement
    <2>2. CASE e \notin wanted
      BY <1>2, <1>4, <2>2
    <2> QED
      BY <2>1, <2>2
  <1> QED
    BY <1>2, <1>5 DEF places, longer

\* A record counts for its issuer and the two states it names.
LEMMA RecordCounts ==
    ASSUME RegistryInv, NEW r \in Record, log' = Append(log, r), NEW i \in Issuers, NEW s \in Status
    PROVE  /\ Entered(i, s)' = Entered(i, s) + (IF r.issuer = i /\ r.resulting_state = s THEN 1 ELSE 0)
           /\ Left(i, s)' = Left(i, s) + (IF r.issuer = i /\ r.previous_state = s THEN 1 ELSE 0)
  <1> DEFINE to == {x \in Record : x.issuer = i /\ x.resulting_state = s}
             from == {x \in Record : x.issuer = i /\ x.previous_state = s}
  <1>1. log \in Seq(Record) /\ log' \in Seq(Record)
    BY AppendProperties DEF RegistryInv, TypeOK
  <1>2. ASSUME NEW lines \in Seq(Record)
        PROVE  /\ {k \in DOMAIN lines : lines[k].issuer = i /\ lines[k].resulting_state = s}
                    = {k \in DOMAIN lines : lines[k] \in to}
               /\ {k \in DOMAIN lines : lines[k].issuer = i /\ lines[k].previous_state = s}
                    = {k \in DOMAIN lines : lines[k] \in from}
    <2>1. \A k \in DOMAIN lines : lines[k] \in Record
      OBVIOUS
    <2> QED
      BY <2>1
  <1>3. /\ Entered(i, s) = Cardinality({k \in DOMAIN log : log[k] \in to})
        /\ Entered(i, s)' = Cardinality({k \in DOMAIN log' : log'[k] \in to})
        /\ Left(i, s) = Cardinality({k \in DOMAIN log : log[k] \in from})
        /\ Left(i, s)' = Cardinality({k \in DOMAIN log' : log'[k] \in from})
    BY <1>1, <1>2 DEF Entered, Left
  <1>4. r \in to <=> r.issuer = i /\ r.resulting_state = s
    OBVIOUS
  <1>5. r \in from <=> r.issuer = i /\ r.previous_state = s
    OBVIOUS
  <1> HIDE DEF to, from
  <1>6. Cardinality({k \in DOMAIN log' : log'[k] \in to})
          = Cardinality({k \in DOMAIN log : log[k] \in to}) + (IF r \in to THEN 1 ELSE 0)
    BY <1>1, AppendCounts
  <1>7. Cardinality({k \in DOMAIN log' : log'[k] \in from})
          = Cardinality({k \in DOMAIN log : log[k] \in from}) + (IF r \in from THEN 1 ELSE 0)
    BY <1>1, AppendCounts
  <1> QED
    BY <1>3, <1>4, <1>5, <1>6, <1>7

\* The counts are numbers.
LEMMA CountsOK ==
    ASSUME RegistryInv, BalanceInv, NEW i \in Issuers, NEW s \in Status
    PROVE  /\ Entered(i, s) \in Nat /\ Left(i, s) \in Nat
           /\ IsFiniteSet(SavedTo(i, s)) /\ Cardinality(SavedTo(i, s)) \in Nat
           /\ IsFiniteSet(SavedFrom(i, s)) /\ Cardinality(SavedFrom(i, s)) \in Nat
  <1>1. IsFiniteSet(DOMAIN log)
    <2>1. DOMAIN log = 1 .. Len(log) /\ Len(log) \in Nat
      BY DEF RegistryInv, TypeOK
    <2> QED
      BY <2>1, FS_Interval
  <1>2. Entered(i, s) \in Nat /\ Left(i, s) \in Nat
    <2>1. /\ {k \in DOMAIN log : log[k].issuer = i /\ log[k].resulting_state = s} \in SUBSET DOMAIN log
          /\ {k \in DOMAIN log : log[k].issuer = i /\ log[k].previous_state = s} \in SUBSET DOMAIN log
      OBVIOUS
    <2> QED
      BY <1>1, <2>1, FS_Subset, FS_CardinalityType DEF Entered, Left
  <1>3. /\ SavedTo(i, s) \in SUBSET {c \in Clients : pc[c] # "idle"}
        /\ SavedFrom(i, s) \in SUBSET {c \in Clients : pc[c] # "idle"}
    BY DEF SavedTo, SavedFrom
  <1>4. IsFiniteSet(SavedTo(i, s)) /\ IsFiniteSet(SavedFrom(i, s))
    BY <1>3, FS_Subset DEF BalanceInv
  <1> QED
    BY <1>2, <1>4, FS_CardinalityType

\* A step keeps the balance of an issuer whose status, records and saved
\* operations it leaves alone.
LEMMA QuietBalance ==
    ASSUME NEW i \in Issuers, NEW s \in Status, Balanced(i, s),
           log' = log, reg'[i].status = reg[i].status,
           \A c \in Clients : /\ pc'[c] = "saved" /\ op'[c].issuer = i => pc[c] = "saved" /\ op'[c] = op[c]
                              /\ pc[c] = "saved" /\ op[c].issuer = i => pc'[c] = "saved" /\ op'[c] = op[c]
    PROVE  Balanced(i, s)'
  <1>1. SavedTo(i, s)' = SavedTo(i, s) /\ SavedFrom(i, s)' = SavedFrom(i, s)
    BY DEF SavedTo, SavedFrom
  <1>2. Entered(i, s)' = Entered(i, s) /\ Left(i, s)' = Left(i, s)
    BY DEF Entered, Left
  <1>3. StatusIs(i, s)' = StatusIs(i, s)
    BY DEF StatusIs
  <1> QED
    BY <1>1, <1>2, <1>3 DEF Balanced

\* Each step puts one more process to work at most: finitely many are.
LEMMA WorkersFinite ==
    RegistryInv /\ BalanceInv /\ [Next]_vars => IsFiniteSet({c \in Clients : pc[c] # "idle"})'
  <1> SUFFICES ASSUME RegistryInv, BalanceInv, [Next]_vars
               PROVE  IsFiniteSet({c \in Clients : pc'[c] # "idle"})
    OBVIOUS
  <1>1. \E d : {c \in Clients : pc'[c] # "idle"} \subseteq {c \in Clients : pc[c] # "idle"} \cup {d}
    <2>1. \/ \E d \in Clients : \E step : pc' = [pc EXCEPT ![d] = step]
          \/ pc' = pc
      <3>1. ASSUME NEW d \in Clients, Load(d) \/ Save(d) \/ Audit(d) \/ Die(d)
            PROVE  \E step : pc' = [pc EXCEPT ![d] = step]
        BY <3>1 DEF Load, Save, Audit, Die
      <3>2. ASSUME NEW d \in Clients, LoadAdmins(d) \/ SaveAdmins(d)
            PROVE  pc' = pc
        BY <3>2 DEF LoadAdmins, SaveAdmins, process
      <3> QED
        BY <3>1, <3>2 DEF Next, Request, Check, EnsureRegistry, RegisterAdmin, vars, process
    <2> QED
      BY <2>1 DEF RegistryInv, TypeOK
  <1>2. PICK d : {c \in Clients : pc'[c] # "idle"} \subseteq {c \in Clients : pc[c] # "idle"} \cup {d}
    BY <1>1
  <1>3. IsFiniteSet({c \in Clients : pc[c] # "idle"} \cup {d})
    BY FS_AddElement DEF BalanceInv
  <1> QED
    BY <1>2, <1>3, FS_Subset

\* The balance is inductive.  A save moves the issuer's status as its record
\* will say, since the status it found is the one it checked.
LEMMA BalanceStep == RegistryInv /\ BalanceInv /\ [Next]_vars => BalanceInv'
  <1> SUFFICES ASSUME RegistryInv, BalanceInv, [Next]_vars
               PROVE  BalanceInv'
    OBVIOUS
  <1> SUFFICES ASSUME NEW i \in Issuers, NEW s \in Status, i \notin stale', i \notin unaudited'
               PROVE  Balanced(i, s)'
    BY WorkersFinite DEF BalanceInv
  <1>0. /\ pc \in [Clients -> {"idle", "checked", "loaded", "saved"}]
        /\ op \in [Clients -> Operation \cup {NoOperation}]
        /\ \A c \in Clients : pc[c] # "idle" => op[c] \in Operation
    BY DEF RegistryInv, TypeOK
  <1>1. i \notin stale /\ i \notin unaudited => Balanced(i, s)
    BY DEF BalanceInv
  <1>2. CASE log' = log /\ reg' = reg /\ stale' = stale /\ unaudited' = unaudited
             /\ \E c \in Clients : /\ pc[c] \in {"idle", "checked"}
                                   /\ pc' = [pc EXCEPT ![c] = "checked"] /\ \A d \in Clients \ {c} : op'[d] = op[d]
    BY <1>0, <1>2, <1>1, QuietBalance
  <1>3. ASSUME NEW c \in Clients, Load(c)
        PROVE  Balanced(i, s)'
    <2>1. /\ pc[c] = "checked" /\ pc' = [pc EXCEPT ![c] = "loaded"] /\ UNCHANGED <<reg, log, op, unaudited>>
          /\ stale \subseteq stale'
      BY <1>3 DEF Load
    <2> QED
      BY <1>0, <1>1, <2>1, QuietBalance
  <1>4. ASSUME NEW c \in Clients, Save(c)
        PROVE  Balanced(i, s)'
    <2>1. /\ pc[c] = "loaded" /\ op[c] \in Operation /\ view[c] \in [Issuers -> Entry]
          /\ reg' = Applied(view[c], op[c]) /\ log' = log
          /\ reg[i] = view[c][i] /\ i \notin stale /\ i \notin unaudited
          /\ op[c].action = "ensure" => op[c].issuer # i
      BY <1>0, <1>4 DEF Save, RegistryInv, TypeOK
    <2>2. CASE op[c].issuer # i
      <3>1. reg'[i].status = reg[i].status
        BY <2>1, <2>2, AppliedOK
      <3>2. /\ pc' = [pc EXCEPT ![c] = IF op[c].action = "ensure" THEN "idle" ELSE "saved"]
            /\ op' = IF op[c].action = "ensure" THEN [op EXCEPT ![c] = NoOperation] ELSE op
        BY <1>4 DEF Save
      <3> QED
        BY <1>0, <1>1, <2>1, <2>2, <3>1, <3>2, QuietBalance
    <2>3. CASE op[c].issuer = i
      <3>1. /\ op[c].action \in Actions \ {"ensure"} /\ op[c].prev \in AllowedFrom(op[c].action)
            /\ view[c][i].status = op[c].prev
        BY <2>1, <2>3 DEF Operation, RegistryInv, OperationsChecked, LoadedAsChecked
      <3> DEFINE new == NewStatus(op[c].action, op[c].prev)
      <3>2. reg'[i].status = new
        <4>1. (op[c].prev = "absent") = (op[c].action \in {"propose", "ensure"})
          BY <3>1 DEF AllowedFrom, Actions, Status
        <4>2. reg' = [view[c] EXCEPT ![i] = Changed(view[c][i], op[c])]
          BY <2>1, <2>3, <3>1, <4>1 DEF Applied
        <4>3. Changed(view[c][i], op[c]).status = new
          BY <2>1, <3>1 DEF Changed, Entry
        <4> QED
          BY <2>1, <4>2, <4>3
      <3>3. pc' = [pc EXCEPT ![c] = "saved"] /\ op' = op
        BY <1>4, <3>1 DEF Save
      <3>4. /\ SavedTo(i, s)' = SavedTo(i, s) \cup (IF new = s THEN {c} ELSE {})
            /\ SavedFrom(i, s)' = SavedFrom(i, s) \cup (IF op[c].prev = s THEN {c} ELSE {})
            /\ c \notin SavedTo(i, s) /\ c \notin SavedFrom(i, s)
        BY <1>0, <2>1, <2>3, <3>3 DEF SavedTo, SavedFrom
      <3>5. StatusIs(i, s) = (IF op[c].prev = s THEN 1 ELSE 0) /\ StatusIs(i, s)' = (IF new = s THEN 1 ELSE 0)
        BY <2>1, <3>1, <3>2 DEF StatusIs
      <3>6. Entered(i, s)' = Entered(i, s) /\ Left(i, s)' = Left(i, s)
        BY <2>1 DEF Entered, Left
      <3> HIDE DEF new
      <3>7. /\ Cardinality(SavedTo(i, s)') = Cardinality(SavedTo(i, s)) + (IF new = s THEN 1 ELSE 0)
            /\ Cardinality(SavedFrom(i, s)') = Cardinality(SavedFrom(i, s)) + (IF op[c].prev = s THEN 1 ELSE 0)
        <4>1. ASSUME NEW S, IsFiniteSet(S), c \notin S, Cardinality(S) \in Nat, NEW b \in BOOLEAN
              PROVE  Cardinality(S \cup (IF b THEN {c} ELSE {})) = Cardinality(S) + (IF b THEN 1 ELSE 0)
          <5>1. CASE b
            BY <4>1, <5>1, FS_AddElement
          <5>2. CASE ~b
            BY <4>1, <5>2
          <5> QED
            BY <5>1, <5>2
        <4> QED
          BY <3>4, <4>1, CountsOK
      <3> QED
        BY <1>1, <2>1, <3>5, <3>6, <3>7, CountsOK DEF Balanced
    <2> QED
      BY <2>2, <2>3
  <1>5. ASSUME NEW c \in Clients, Audit(c)
        PROVE  Balanced(i, s)'
    <2> DEFINE r == AuditRecord(op[c])
               to == r.issuer = i /\ r.resulting_state = s
               from == r.issuer = i /\ r.previous_state = s
    <2>1. /\ pc[c] = "saved" /\ op[c] \in Operation /\ log' = Append(log, r) /\ reg' = reg
          /\ pc' = [pc EXCEPT ![c] = "idle"] /\ op' = [op EXCEPT ![c] = NoOperation]
          /\ i \notin stale /\ i \notin unaudited
      BY <1>0, <1>5 DEF Audit
    <2>2. r \in Record
      BY <2>1, NewStatusOK, AllowedFromOK DEF AuditRecord, Record, Operation, RegistryInv, OperationsChecked
    <2>3. /\ to <=> c \in SavedTo(i, s)
          /\ from <=> c \in SavedFrom(i, s)
      BY <2>1 DEF AuditRecord, SavedTo, SavedFrom
    <2> HIDE DEF r
    <2>4. /\ Entered(i, s)' = Entered(i, s) + (IF to THEN 1 ELSE 0)
          /\ Left(i, s)' = Left(i, s) + (IF from THEN 1 ELSE 0)
      BY <2>1, <2>2, RecordCounts
    <2> HIDE DEF to, from
    <2>5. SavedTo(i, s)' = SavedTo(i, s) \ {c} /\ SavedFrom(i, s)' = SavedFrom(i, s) \ {c}
      BY <1>0, <2>1 DEF SavedTo, SavedFrom
    <2>6. /\ Cardinality(SavedTo(i, s)') = Cardinality(SavedTo(i, s)) - (IF to THEN 1 ELSE 0)
          /\ Cardinality(SavedFrom(i, s)') = Cardinality(SavedFrom(i, s)) - (IF from THEN 1 ELSE 0)
      <3>1. ASSUME NEW S, IsFiniteSet(S), Cardinality(S) \in Nat
            PROVE  Cardinality(S \ {c}) = Cardinality(S) - (IF c \in S THEN 1 ELSE 0)
        <4>1. Cardinality(S \ {c}) = IF c \in S THEN Cardinality(S) - 1 ELSE Cardinality(S)
          BY <3>1, FS_RemoveElement
        <4> QED
          BY <3>1, <4>1
      <3> QED
        BY <2>3, <2>5, <3>1, CountsOK
    <2>7. StatusIs(i, s)' = StatusIs(i, s) /\ StatusIs(i, s) \in {0, 1}
      BY <2>1 DEF StatusIs
    <2> QED
      BY <1>1, <2>1, <2>4, <2>6, <2>7, CountsOK DEF Balanced
  <1>6. ASSUME NEW c \in Clients, Die(c)
        PROVE  Balanced(i, s)'
    <2>1. /\ pc' = [pc EXCEPT ![c] = "idle"] /\ op' = [op EXCEPT ![c] = NoOperation]
          /\ UNCHANGED <<reg, log, stale>> /\ unaudited \subseteq unaudited'
          /\ pc[c] = "saved" => op[c].issuer # i
      BY <1>6 DEF Die
    <2> QED
      BY <1>0, <1>1, <2>1, QuietBalance
  <1>7. CASE UNCHANGED <<reg, log, pc, op, stale, unaudited>>
    BY <1>1, <1>7, QuietBalance
  <1>8. ASSUME NEW c \in Clients, NEW actor \in Actors, NEW action \in Actions, NEW j \in Issuers,
               NEW types \in SUBSET Types, Request(c, actor, action, j, types)
        PROVE  Balanced(i, s)'
    BY <1>2, <1>0, <1>8 DEF Request, Check, Idle
  <1>9. ASSUME NEW c \in Clients, NEW j \in Issuers, EnsureRegistry(c, j)
        PROVE  Balanced(i, s)'
    BY <1>2, <1>0, <1>9 DEF EnsureRegistry, Idle
  <1> QED
    BY <1>3, <1>4, <1>5, <1>6, <1>7, <1>8, <1>9
       DEF Next, RegisterAdmin, LoadAdmins, SaveAdmins, vars, process

\* The audit records of an issuer explain its status, in whatever order the
\* processes append them, unless one acted on an outdated check or file or a
\* record was never written.
THEOREM RecordsBalance == Spec => []AuditBalances
  <1>1. Init => BalanceInv
    <2> SUFFICES ASSUME Init
                 PROVE  BalanceInv
      OBVIOUS
    <2>1. \A c \in Clients : pc[c] = "idle"
      BY DEF Init
    <2>2. ASSUME NEW i \in Issuers, NEW s \in Status
          PROVE  Balanced(i, s)
      <3>1. SavedTo(i, s) = {} /\ SavedFrom(i, s) = {}
        BY <2>1 DEF SavedTo, SavedFrom
      <3>2. Entered(i, s) = Cardinality({}) /\ Left(i, s) = Cardinality({})
        BY DEF Init, Entered, Left
      <3>3. StatusIs(i, s) = 0
        BY DEF Init, StatusIs, Nothing, NoEntry, Status
      <3> QED
        BY <3>1, <3>2, <3>3, FS_EmptySet DEF Balanced
    <2>3. {c \in Clients : pc[c] # "idle"} = {}
      BY <2>1
    <2> QED
      BY <2>2, <2>3, FS_EmptySet DEF BalanceInv
  <1>2. RegistryInv /\ BalanceInv => AuditBalances
    <2> SUFFICES ASSUME RegistryInv, BalanceInv, NEW i \in Issuers \ (stale \cup unaudited), NEW s \in Status,
                        \A c \in Clients : pc[c] = "saved" => op[c].issuer # i
                 PROVE  Entered(i, s) = Left(i, s) + (IF reg[i].status = s THEN 1 ELSE 0)
      BY DEF AuditBalances
    <2>1. SavedTo(i, s) = {} /\ SavedFrom(i, s) = {}
      BY DEF SavedTo, SavedFrom
    <2>2. Balanced(i, s)
      BY DEF BalanceInv
    <2>3. StatusIs(i, s) \in {0, 1}
      BY DEF StatusIs
    <2> QED
      BY <2>1, <2>2, <2>3, CountsOK, FS_EmptySet DEF Balanced, StatusIs
  <1> QED
    BY <1>1, <1>2, RegistryAlways, BalanceStep, PTL DEF Spec
=============================================================================
