-------------------------- MODULE HolderKeysProofs --------------------------
(***************************************************************************)
(* Proofs about HolderKeys: for any number of keys, processes, approvers   *)
(* and recovery requests, wherever their reads and writes of the two files *)
(* interleave or stop.                                                     *)
(***************************************************************************)
EXTENDS HolderKeys, TLAPS

(***************************************************************************)
(* The inductive invariant.                                                *)
(***************************************************************************)

\* Each step belongs to a kind of call, with what the call needs.
CallsFit ==
    \A p \in Procs :
        /\ pc[p] \in {"load", "save", "file"} =>
               call[p].kind \in {"request", "recover"} /\ call[p].request # None
        /\ pc[p] \in {"put", "write"} =>
               call[p].kind \in {"rotate", "recover"} /\ call[p].key # None /\ doc.active # None
        /\ pc[p] \in {"return", "consume"} => call[p].key # None
        /\ pc[p] = "resolve" =>
               /\ call[p].kind \in {"rotate", "recover", "bind"}
               /\ call[p].kind = "bind" => call[p].key # None
        /\ call[p].kind = "recover" => call[p].request # None

\* A key that somebody is about to put into the document is nobody else's and
\* has not been in it.
FreshKeys ==
    /\ replaced \subseteq made /\ doc.active \in made \cup {None}
    /\ doc = NoDocument \/ doc.active # None
    /\ \A p \in Procs : pc[p] \in {"put", "write"} =>
            /\ call[p].key \in made /\ call[p].key \notin replaced \cup {doc.active}
            /\ \A q \in Procs \ {p} : pc[q] \in {"put", "write"} => call[q].key # call[p].key

\* The document a rotation goes on with had an active key.
ViewsFit == \A p \in Procs : pc[p] \in {"put", "write"} => docview[p].active # None

\* A late possession proof does not get past the document.
LateProofs ==
    \A p \in Procs : call[p].late =>
        call[p].kind = "bind" /\ call[p].key \in replaced /\ pc[p] # "consume"

\* The key that was active when r was filed is out of the document.
Recovered(r) == r \in filed /\ keyAt[r] \in replaced \cup {None} /\ doc.active # None

\* A list of requests that says nothing untrue.
Sound(list) ==
    \A r \in RequestIds : /\ list[r] # "none" => r \in filed
                          /\ list[r] = "completed" => Recovered(r)

RequestsSound ==
    /\ Sound(requests) /\ \A p \in Procs : Sound(requestview[p])
    /\ \A r \in filed : keyAt[r] \in replaced \cup {doc.active, None}
    /\ \A p \in Procs :
        /\ call[p].kind = "recover" /\ pc[p] \in {"resolve", "put", "write", "save", "file"} =>
               call[p].request \in filed
        /\ call[p].kind = "recover" /\ pc[p] \in {"save", "file"} /\ ~call[p].failed =>
               Recovered(call[p].request)
        /\ call[p].kind = "request" =>
               /\ call[p].request # None /\ call[p].request \notin filed
               /\ \A q \in Procs \ {p} : call[q].kind = "request" => call[q].request # call[p].request

KeysInv == TypeOK /\ CallsFit /\ ViewsFit /\ FreshKeys /\ LateProofs /\ RetiredStaysRetired /\ LateBindingRefused
HolderInv == KeysInv /\ RequestsSound
-----------------------------------------------------------------------------
LEMMA NothingsFit ==
    /\ NoDocument \in Document /\ NoRequests \in [RequestIds -> Status] /\ NoCall \in Call
    /\ NoCall.kind = "none" /\ NoCall.request = None /\ NoCall.key = None /\ NoCall.late = FALSE
    /\ \A r \in RequestIds : NoRequests[r] = "none"
  BY DEF NoDocument, Document, NoRequests, Status, NoCall, Call

Pcs == {"idle", "load", "resolve", "put", "write", "save", "file", "consume", "return"}

\* A call that begins with o.
LEMMA BeginKeeps ==
    ASSUME KeysAssumption, HolderInv, NEW p \in Procs, NEW step \in {"load", "resolve"},
           NEW o \in Call, NEW c, Begin(p, step, c), c = o, bindings' \in Nat,
           step = "load" => o.kind \in {"request", "recover"} /\ o.request # None,
           step = "resolve" => o.kind \in {"rotate", "bind"} /\ (o.kind = "bind" => o.key # None),
           o.late => o.kind = "bind" /\ o.key \in replaced,
           o.kind = "request" => o.request \notin filed /\ \A q \in Procs : call[q].request # o.request
    PROVE  HolderInv'
  <1> USE DEF HolderInv, KeysInv, KeysAssumption
  <1>1. /\ pc[p] = "idle" /\ pc' = [pc EXCEPT ![p] = step] /\ call' = [call EXCEPT ![p] = o]
        /\ UNCHANGED <<doc, requests, text, held, made, docview, requestview, replaced, accepted, filed, keyAt>>
    BY DEF Begin, Goto, history
  <1>2. TypeOK'
    BY <1>1 DEF TypeOK
  <1>3. CallsFit' /\ ViewsFit'
    BY <1>1 DEF TypeOK, CallsFit, ViewsFit
  <1>4. FreshKeys'
    BY <1>1 DEF TypeOK, FreshKeys
  <1>5. LateProofs' /\ RetiredStaysRetired' /\ LateBindingRefused'
    BY <1>1 DEF TypeOK, LateProofs, RetiredStaysRetired, LateBindingRefused
  <1>6. RequestsSound'
    BY <1>1 DEF TypeOK, RequestsSound, Sound, Recovered
  <1> QED
    BY <1>2, <1>3, <1>4, <1>5, <1>6

\* A call that ends without having changed the files.
LEMMA EndKeeps ==
    ASSUME KeysAssumption, HolderInv, NEW p \in Procs, End(p),
           UNCHANGED <<doc, requests, text, made, bindings, replaced, filed, keyAt>>,
           held' \in SUBSET Keys, accepted' \in SUBSET [key : Keys, late : BOOLEAN],
           \A a \in accepted' : ~a.late
    PROVE  HolderInv'
  <1> USE DEF HolderInv, KeysInv, KeysAssumption
  <1>1. /\ pc' = [pc EXCEPT ![p] = "idle"] /\ call' = [call EXCEPT ![p] = NoCall]
        /\ docview' = [docview EXCEPT ![p] = NoDocument]
        /\ requestview' = [requestview EXCEPT ![p] = NoRequests]
    BY DEF End, Goto
  <1>2. TypeOK'
    BY <1>1, NothingsFit DEF TypeOK
  <1>3. CallsFit' /\ ViewsFit'
    BY <1>1, NothingsFit DEF TypeOK, CallsFit, ViewsFit
  <1>4. FreshKeys'
    BY <1>1 DEF TypeOK, FreshKeys
  <1>5. LateProofs' /\ RetiredStaysRetired' /\ LateBindingRefused'
    BY <1>1, NothingsFit DEF TypeOK, LateProofs, RetiredStaysRetired, LateBindingRefused
  <1>6. RequestsSound'
    BY <1>1, NothingsFit DEF TypeOK, RequestsSound, Sound, Recovered
  <1> QED
    BY <1>2, <1>3, <1>4, <1>5, <1>6

\* A step that moves a call along and leaves the document and its history.
LEMMA MoveKeeps ==
    ASSUME KeysAssumption, HolderInv, NEW p \in Procs,
           NEW step \in {"put", "consume", "resolve", "save", "write", "file"}, Goto(p, step),
           NEW o \in Call, call' = [call EXCEPT ![p] = o],
           UNCHANGED <<doc, requests, held, bindings, replaced, accepted, filed, keyAt>>,
           text' \in [Files -> {"whole", "empty", "mixed"}], made' \in SUBSET Keys, made \subseteq made',
           docview' \in [Procs -> Document], \A q \in Procs \ {p} : docview'[q] = docview[q],
           requestview' = requestview \/ requestview' = [requestview EXCEPT ![p] = requests],
           o.kind = call[p].kind /\ o.request = call[p].request /\ o.late = call[p].late,
           o.kind \in {"bind", "request"} => o.key = call[p].key,
           step \in {"save", "file"} => o.kind \in {"request", "recover"} /\ o.request # None,
           step \in {"put", "write"} =>
               /\ o.kind \in {"rotate", "recover"} /\ o.key # None /\ doc.active # None
               /\ docview'[p].active # None
               /\ \/ pc[p] \in {"put", "write"} /\ o.key = call[p].key
                  \/ o.key \in made' \ made,
           step = "consume" => o.kind = "bind" /\ o.key # None /\ ~o.late,
           step = "resolve" => o.kind = "recover" /\ requests[o.request] = "requested",
           o.kind = "recover" /\ step \in {"put", "write", "save", "file"} =>
               pc[p] \in {"resolve", "put", "write", "save", "file"},
           o.kind = "recover" /\ step \in {"save", "file"} =>
               o.failed \/ (pc[p] \in {"save", "file"} /\ o.failed = call[p].failed)
    PROVE  HolderInv'
  <1> USE DEF HolderInv, KeysInv, KeysAssumption
  <1>1. pc' = [pc EXCEPT ![p] = step] /\ step \in Pcs
    BY DEF Goto, Pcs
  <1>2. TypeOK'
    <2>1. requestview' \in [Procs -> [RequestIds -> Status]]
      BY DEF TypeOK
    <2>2. pc' \in [Procs -> Pcs]
      BY <1>1 DEF TypeOK, Pcs
    <2> QED
      BY <2>1, <2>2 DEF TypeOK, Pcs
  <1>3. CallsFit' /\ ViewsFit'
    BY <1>1 DEF TypeOK, CallsFit, ViewsFit
  <1>4. FreshKeys'
    BY <1>1 DEF TypeOK, FreshKeys
  <1>5. LateProofs' /\ RetiredStaysRetired' /\ LateBindingRefused'
    BY <1>1 DEF TypeOK, LateProofs, RetiredStaysRetired, LateBindingRefused
  <1>6. RequestsSound'
    <2>1. \A r : Recovered(r)' = Recovered(r)
      BY DEF Recovered
    <2>2. Sound(requests)' /\ \A q \in Procs : Sound(requestview[q])'
      BY <2>1 DEF RequestsSound, Sound, TypeOK
    <2>3. step = "resolve" => o.request \in filed
      BY DEF RequestsSound, Sound, Call, CallsFit
    <2> QED
      BY <1>1, <2>1, <2>2, <2>3 DEF TypeOK, RequestsSound
  <1> QED
    BY <1>2, <1>3, <1>4, <1>5, <1>6

\* The rotated document: the key that was active becomes a replaced one.
LEMMA PutKeeps ==
    ASSUME KeysAssumption, HolderInv, NEW p \in Procs, Put(p)
    PROVE  HolderInv'
  <1> USE DEF HolderInv, KeysInv, KeysAssumption
  <1> DEFINE step == IF call[p].kind = "recover" THEN "save" ELSE "return"
             k == call[p].key
  <1>1. /\ pc[p] = "write" /\ pc' = [pc EXCEPT ![p] = step]
        /\ doc' = [active |-> k, retired |-> docview[p].retired \cup {docview[p].active}]
        /\ replaced' = replaced \cup {doc.active}
        /\ docview' = [docview EXCEPT ![p] = NoDocument]
        /\ UNCHANGED <<requests, held, made, call, requestview, bindings, accepted, filed, keyAt>>
    BY DEF Put, Goto, Rotated
  <1>2. \E t \in {"whole", "mixed"} : text' = [text EXCEPT !["document"] = t]
    BY DEF Put, EndWrite
  <1>3. /\ call[p].kind \in {"rotate", "recover"} /\ k \in Keys /\ doc.active \in Keys
        /\ call[p].kind = "recover" => call[p].request # None
    BY <1>1 DEF TypeOK, CallsFit, Call, Document
  <1>4. /\ k \in made /\ k \notin replaced \cup {doc.active}
        /\ \A q \in Procs \ {p} : pc[q] \in {"put", "write"} => call[q].key # k
    BY <1>1 DEF FreshKeys
  <1>5. doc'.active = k /\ doc' # NoDocument /\ \A q \in Procs \ {p} : pc'[q] = pc[q]
    <2>1. doc'.active = k
      BY <1>1
    <2>2. NoDocument.active = None
      BY DEF NoDocument
    <2> QED
      BY <1>1, <1>3, <2>1, <2>2 DEF TypeOK
  <1>6. pc'[p] = step /\ step \in {"save", "return"} /\ (step = "save" => call[p].kind = "recover")
    BY <1>1 DEF TypeOK
  <1> HIDE DEF step, k
  <1>7. TypeOK'
    <2>1. docview[p] \in Document
      BY DEF TypeOK
    <2>2. docview[p].retired \cup {docview[p].active} \in SUBSET Keys
      <3>1. docview[p].active \in Keys
        BY <1>1, <2>1 DEF ViewsFit, Document
      <3> QED
        BY <2>1, <3>1 DEF Document
    <2>3. doc' \in Document
      BY <1>1, <1>3, <2>2 DEF Document
    <2>4. text' \in [Files -> {"whole", "empty", "mixed"}]
      BY <1>2 DEF TypeOK, Files
    <2>5. pc' \in [Procs -> Pcs]
      BY <1>1, <1>6 DEF TypeOK, Pcs
    <2> QED
      BY <1>1, <1>3, <2>3, <2>4, <2>5, NothingsFit DEF TypeOK, Pcs
  <1>8. CallsFit' /\ ViewsFit'
    BY <1>1, <1>3, <1>5, <1>6 DEF CallsFit, ViewsFit, k, TypeOK
  <1>9. FreshKeys'
    BY <1>1, <1>3, <1>4, <1>5, <1>6 DEF FreshKeys
  <1>10. LateProofs' /\ RetiredStaysRetired' /\ LateBindingRefused'
    BY <1>1, <1>3, <1>4, <1>5, <1>6 DEF LateProofs, RetiredStaysRetired, LateBindingRefused
  <1>11. RequestsSound'
    <2>1. \A r : Recovered(r) => Recovered(r)'
      BY <1>1, <1>3, <1>5 DEF Recovered
    <2>2. \A r \in filed : Recovered(r)' /\ keyAt'[r] \in replaced' \cup {None}
      BY <1>1, <1>3, <1>5 DEF Recovered, RequestsSound
    <2>3. Sound(requests)' /\ \A q \in Procs : Sound(requestview[q])'
      BY <1>1, <2>1 DEF RequestsSound, Sound
    <2>4. call[p].kind = "recover" => call[p].request \in filed
      BY <1>1 DEF RequestsSound
    <2> QED
      BY <1>1, <1>5, <1>6, <2>1, <2>2, <2>3, <2>4 DEF RequestsSound
  <1> QED
    BY <1>7, <1>8, <1>9, <1>10, <1>11

\* The request file, with one request as its call leaves it.
LEMMA SaveKeeps ==
    ASSUME KeysAssumption, HolderInv, NEW p \in Procs, SaveRequests(p)
    PROVE  HolderInv'
  <1> USE DEF HolderInv, KeysInv, KeysAssumption
  <1>0. PICK r : r = call[p].request
    OBVIOUS
  <1>1. /\ pc[p] = "file" /\ requests' = [requestview[p] EXCEPT ![r] = Outcome(p)]
        /\ IF call[p].kind = "request" THEN filed' = filed \cup {r} /\ keyAt' = [keyAt EXCEPT ![r] = doc.active]
           ELSE UNCHANGED <<filed, keyAt>>
        /\ pc' = [pc EXCEPT ![p] = "idle"] /\ call' = [call EXCEPT ![p] = NoCall]
        /\ docview' = [docview EXCEPT ![p] = NoDocument]
        /\ requestview' = [requestview EXCEPT ![p] = NoRequests]
        /\ UNCHANGED <<doc, held, made, bindings, replaced, accepted>>
    BY <1>0 DEF SaveRequests, End, Goto
  <1>2. \E t \in {"whole", "mixed"} : text' = [text EXCEPT !["requests"] = t]
    BY DEF SaveRequests, EndWrite
  <1>3. r \in RequestIds /\ call[p].kind \in {"request", "recover"} /\ requestview[p] \in [RequestIds -> Status]
    BY <1>0, <1>1 DEF TypeOK, CallsFit, Call
  <1>4. /\ Outcome(p) \in Status \ {"none"}
        /\ Outcome(p) = "completed" => call[p].kind = "recover" /\ ~call[p].failed
    BY <1>3 DEF Outcome, Status
  <1>5. /\ call[p].kind = "request" => r \notin filed
        /\ call[p].kind = "recover" => r \in filed /\ (~call[p].failed => Recovered(r))
    BY <1>0, <1>1 DEF RequestsSound
  <1>6. TypeOK'
    <2>1. requests' \in [RequestIds -> Status]
      BY <1>1, <1>3, <1>4
    <2>2. filed' \in SUBSET RequestIds /\ keyAt' \in [RequestIds -> Keys \cup {None}]
      <3>1. doc.active \in Keys \cup {None} /\ filed \in SUBSET RequestIds /\ keyAt \in [RequestIds -> Keys \cup {None}]
        BY DEF TypeOK, Document
      <3>2. CASE call[p].kind = "request"
        <4>1. filed' = filed \cup {r} /\ keyAt' = [keyAt EXCEPT ![r] = doc.active]
          BY <1>1, <3>2
        <4> QED
          BY <1>3, <3>1, <4>1
      <3>3. CASE call[p].kind # "request"
        BY <1>1, <3>1, <3>3
      <3> QED
        BY <3>2, <3>3
    <2>3. text' \in [Files -> {"whole", "empty", "mixed"}]
      BY <1>2 DEF TypeOK, Files
    <2> QED
      BY <1>1, <2>1, <2>2, <2>3, NothingsFit DEF TypeOK
  <1>7. CallsFit' /\ ViewsFit'
    BY <1>1, NothingsFit DEF TypeOK, CallsFit, ViewsFit
  <1>8. FreshKeys'
    BY <1>1 DEF TypeOK, FreshKeys
  <1>9. LateProofs' /\ RetiredStaysRetired' /\ LateBindingRefused'
    BY <1>1, NothingsFit DEF TypeOK, LateProofs, RetiredStaysRetired, LateBindingRefused
  <1>10. RequestsSound'
    <2>1. \A x \in filed : x \in filed' /\ keyAt'[x] = keyAt[x]
      BY <1>1, <1>3, <1>5 DEF TypeOK
    <2>2. \A x : Recovered(x) => Recovered(x)'
      BY <1>1, <2>1 DEF Recovered
    <2>3. r \in filed' /\ (Outcome(p) = "completed" => Recovered(r)')
      <3>1. CASE call[p].kind = "request"
        <4>1. filed' = filed \cup {r}
          BY <1>1, <3>1
        <4>2. Outcome(p) # "completed"
          BY <1>4, <3>1
        <4> QED
          BY <4>1, <4>2
      <3>2. CASE call[p].kind = "recover"
        <4>1. r \in filed /\ filed' = filed
          BY <1>1, <1>5, <3>2
        <4> QED
          BY <1>4, <1>5, <2>2, <3>2, <4>1
      <3> QED
        BY <1>3, <3>1, <3>2
    <2>4. Sound(requests)'
      <3>1. Sound(requestview[p])
        BY DEF RequestsSound
      <3>2. requests'[r] = Outcome(p) /\ \A x \in RequestIds \ {r} : requests'[x] = requestview[p][x]
        BY <1>1, <1>3
      <3>3. SUFFICES ASSUME NEW x \in RequestIds
                     PROVE  /\ requests'[x] # "none" => x \in filed'
                            /\ requests'[x] = "completed" => Recovered(x)'
        BY DEF Sound
      <3>4. CASE x = r
        BY <2>3, <3>2, <3>4
      <3>5. CASE x # r
        BY <2>1, <2>2, <3>1, <3>2, <3>5 DEF Sound
      <3> QED
        BY <3>4, <3>5
    <2>5. \A q \in Procs : Sound(requestview[q])'
      BY <1>1, <2>1, <2>2, NothingsFit DEF RequestsSound, Sound, TypeOK
    <2>6. \A x \in filed' : keyAt'[x] \in replaced' \cup {doc'.active, None}
      BY <1>1, <1>3, <2>1 DEF RequestsSound, TypeOK
    <2>7. \A q \in Procs \ {p} : call[q].kind = "request" => call[q].request \notin filed'
      BY <1>0, <1>1, <1>3 DEF RequestsSound
    <2>8. /\ call'[p].kind = "none" /\ pc'[p] = "idle"
          /\ \A q \in Procs \ {p} : call'[q] = call[q] /\ pc'[q] = pc[q]
      BY <1>1, NothingsFit DEF TypeOK
    <2> QED
      BY <2>1, <2>2, <2>4, <2>5, <2>6, <2>7, <2>8 DEF RequestsSound
  <1> QED
    BY <1>6, <1>7, <1>8, <1>9, <1>10

\* A new identity.
LEMMA EstablishKeeps ==
    ASSUME KeysAssumption, HolderInv, NEW k \in Keys, Establish(k)
    PROVE  HolderInv'
  <1> USE DEF HolderInv, KeysInv, KeysAssumption
  <1>1. /\ doc = NoDocument /\ k \notin made
        /\ doc' = [active |-> k, retired |-> {}] /\ doc'.active = k
        /\ made' = made \cup {k} /\ held' = held \cup {k}
        /\ UNCHANGED <<requests, text, pc, call, docview, requestview, bindings, replaced, accepted, filed, keyAt>>
    BY DEF Establish, process, history
  <1>2. doc.active = None
    BY <1>1 DEF NoDocument
  <1>3. \A p \in Procs : pc[p] \notin {"put", "write"}
    BY <1>2 DEF CallsFit
  <1>4. TypeOK'
    BY <1>1 DEF TypeOK, Document
  <1>5. CallsFit' /\ ViewsFit'
    BY <1>1, <1>3 DEF CallsFit, ViewsFit
  <1>6. FreshKeys'
    BY <1>1, <1>3 DEF FreshKeys
  <1>7. LateProofs' /\ RetiredStaysRetired' /\ LateBindingRefused'
    BY <1>1 DEF FreshKeys, LateProofs, RetiredStaysRetired, LateBindingRefused
  <1>8. RequestsSound'
    <2>1. \A r : Recovered(r) => Recovered(r)'
      BY <1>1, <1>2 DEF Recovered
    <2>2. Sound(requests)' /\ \A q \in Procs : Sound(requestview[q])'
      BY <1>1, <2>1 DEF RequestsSound, Sound
    <2>3. \A r \in filed' : keyAt'[r] \in replaced' \cup {doc'.active, None}
      BY <1>1, <1>2 DEF RequestsSound
    <2>4. \A q \in Procs : ~(pc[q] \in {"save", "file"} /\ call[q].kind = "recover" /\ ~call[q].failed) \/ Recovered(call[q].request)
      BY DEF RequestsSound
    <2>5. \A q \in Procs : Recovered(call[q].request) => FALSE
      BY <1>2 DEF Recovered
    <2> QED
      BY <1>1, <2>2, <2>3, <2>4, <2>5 DEF RequestsSound
  <1> QED
    BY <1>4, <1>5, <1>6, <1>7, <1>8

\* A rotation, a recovery or a possession proof finds the document.
LEMMA ResolveKeeps ==
    ASSUME KeysAssumption, HolderInv, NEW p \in Procs, Resolve(p)
    PROVE  HolderInv'
  <1> USE DEF KeysAssumption
  <1>1. /\ pc[p] = "resolve" /\ docview' = [docview EXCEPT ![p] = doc]
        /\ UNCHANGED <<doc, requests, text, held, requestview, bindings, replaced, accepted, filed, keyAt>>
    BY DEF Resolve, history
  <1>2. /\ TypeOK /\ call \in [Procs -> Call] /\ call[p] \in Call /\ doc \in Document /\ made \in SUBSET Keys
        /\ docview' \in [Procs -> Document] /\ docview'[p] = doc
        /\ \A q \in Procs \ {p} : docview'[q] = docview[q]
        /\ text' \in [Files -> {"whole", "empty", "mixed"}]
    BY <1>1 DEF HolderInv, KeysInv, TypeOK
  <1>3. /\ call[p].kind \in {"rotate", "recover", "bind"}
        /\ call[p].kind = "bind" => call[p].key # None
    BY <1>1 DEF HolderInv, KeysInv, CallsFit
  <1>4. CASE call[p].kind = "bind"
    <2>1. doc.active = call[p].key /\ Goto(p, "consume") /\ UNCHANGED <<call, made>>
      BY <1>4 DEF Resolve, AuthenticationCapable
    <2>2. ~call[p].late
      BY <2>1 DEF HolderInv, KeysInv, LateProofs, RetiredStaysRetired
    <2>3. call' = [call EXCEPT ![p] = call[p]]
      BY <1>2, <2>1
    <2>4. PICK o \in Call : o = call[p]
      BY <1>2
    <2> QED
      BY <1>1, <1>2, <1>3, <1>4, <2>1, <2>2, <2>3, <2>4, MoveKeeps
  <1>5. CASE call[p].kind # "bind"
    <2>1. PICK k \in Keys \ made :
              /\ doc # NoDocument /\ call' = [call EXCEPT ![p].key = k] /\ made' = made \cup {k} /\ Goto(p, "put")
      BY <1>5 DEF Resolve
    <2>2. doc.active # None
      BY <2>1 DEF HolderInv, KeysInv, FreshKeys
    <2>3. PICK o \in Call : o = [call[p] EXCEPT !.key = k]
      BY <1>2 DEF Call
    <2>4. /\ call' = [call EXCEPT ![p] = o] /\ o.key = k /\ o.kind = call[p].kind
          /\ o.request = call[p].request /\ o.late = call[p].late
      BY <1>2, <2>1, <2>3 DEF Call
    <2>5. made' \in SUBSET Keys /\ made \subseteq made' /\ k \in made' \ made /\ k # None
      BY <1>2, <2>1
    <2>6. /\ o.kind \in {"rotate", "recover"} /\ o.key # None /\ docview'[p].active # None
          /\ o.key \in made' \ made /\ requestview' = requestview
      BY <1>1, <1>2, <1>3, <1>5, <2>2, <2>4, <2>5
    <2> QED
      BY <1>1, <1>2, <2>1, <2>2, <2>4, <2>5, <2>6, MoveKeeps
  <1> QED
    BY <1>4, <1>5

\* A call that does not find what it needs.
LEMMA ResolveFailsKeeps ==
    ASSUME KeysAssumption, HolderInv, NEW p \in Procs, ResolveFails(p)
    PROVE  HolderInv'
  <1>1. /\ pc[p] = "resolve"
        /\ UNCHANGED <<doc, requests, text, held, made, bindings, replaced, accepted, filed, keyAt>>
    BY DEF ResolveFails
  <1>2. /\ TypeOK /\ call \in [Procs -> Call] /\ call[p] \in Call /\ docview \in [Procs -> Document]
        /\ text' \in [Files -> {"whole", "empty", "mixed"}] /\ made' \in SUBSET Keys /\ held' \in SUBSET Keys
        /\ accepted' \in SUBSET [key : Keys, late : BOOLEAN] /\ \A a \in accepted' : ~a.late
    BY <1>1 DEF HolderInv, KeysInv, TypeOK, LateBindingRefused
  <1>3. CASE call[p].kind = "recover"
    <2>1. Goto(p, "save") /\ call' = [call EXCEPT ![p].failed = TRUE] /\ UNCHANGED <<docview, requestview>>
      BY <1>3 DEF ResolveFails
    <2>2. PICK o \in Call : o = [call[p] EXCEPT !.failed = TRUE]
      BY <1>2 DEF Call
    <2>3. /\ call' = [call EXCEPT ![p] = o] /\ o.key = call[p].key /\ o.kind = call[p].kind /\ o.failed
          /\ o.request = call[p].request /\ o.late = call[p].late
      BY <1>2, <2>1, <2>2 DEF Call
    <2>4. call[p].request # None
      BY <1>3 DEF HolderInv, KeysInv, CallsFit
    <2>5. made \subseteq made' /\ docview' \in [Procs -> Document] /\ (\A q \in Procs \ {p} : docview'[q] = docview[q])
      BY <1>1, <1>2, <2>1
    <2>6. requestview' = requestview /\ o.kind = "recover" /\ o.request # None
      BY <1>3, <2>1, <2>3, <2>4
    <2> QED
      BY <1>1, <1>2, <1>3, <2>1, <2>2, <2>3, <2>5, <2>6, MoveKeeps
  <1>4. CASE call[p].kind # "recover"
    <2>1. End(p)
      BY <1>4 DEF ResolveFails
    <2> QED
      BY <1>1, <1>2, <2>1, EndKeeps
  <1> QED
    BY <1>3, <1>4

\* The requests as a call finds them.
LEMMA LoadKeeps ==
    ASSUME KeysAssumption, HolderInv, NEW p \in Procs, LoadRequests(p)
    PROVE  HolderInv'
  <1> DEFINE step == IF call[p].kind = "request" THEN "save" ELSE "resolve"
  <1>1. /\ pc[p] = "load"
        /\ UNCHANGED <<doc, requests, text, held, made, bindings, replaced, accepted, filed, keyAt>>
    BY DEF LoadRequests
  <1>2. /\ TypeOK /\ call \in [Procs -> Call] /\ call[p] \in Call /\ docview \in [Procs -> Document]
        /\ text' \in [Files -> {"whole", "empty", "mixed"}] /\ made' \in SUBSET Keys /\ held' \in SUBSET Keys
        /\ accepted' \in SUBSET [key : Keys, late : BOOLEAN] /\ \A a \in accepted' : ~a.late
    BY <1>1 DEF HolderInv, KeysInv, TypeOK, LateBindingRefused
  <1>3. call[p].kind \in {"request", "recover"} /\ call[p].request # None
    BY <1>1 DEF HolderInv, KeysInv, CallsFit
  <1>4. PICK o \in Call : o = call[p]
    BY <1>2
  <1>5. \/ End(p)
        \/ /\ call[p].kind = "request" \/ requests[call[p].request] = "requested"
           /\ requestview' = [requestview EXCEPT ![p] = requests] /\ Goto(p, step) /\ UNCHANGED <<call, docview>>
    BY DEF LoadRequests
  <1>6. CASE End(p)
    BY <1>1, <1>2, <1>6, EndKeeps
  <1>7. CASE /\ call[p].kind = "request" \/ requests[call[p].request] = "requested"
             /\ requestview' = [requestview EXCEPT ![p] = requests] /\ Goto(p, step) /\ UNCHANGED <<call, docview>>
    <2>1. call' = [call EXCEPT ![p] = o]
      BY <1>2, <1>4, <1>7
    <2>2. CASE call[p].kind = "request"
      <3>1. Goto(p, "save")
        BY <1>7, <2>2
      <3>2. o.kind = "request" /\ o.request # None
        BY <1>3, <1>4, <2>2
      <3> QED
        BY <1>1, <1>2, <1>4, <1>7, <2>1, <3>1, <3>2, MoveKeeps
    <2>3. CASE call[p].kind = "recover"
      <3>1. Goto(p, "resolve") /\ requests[o.request] = "requested"
        BY <1>4, <1>7, <2>3
      <3> QED
        BY <1>1, <1>2, <1>3, <1>4, <1>7, <2>1, <2>3, <3>1, MoveKeeps
    <2> QED
      BY <1>3, <2>2, <2>3
  <1> QED
    BY <1>5, <1>6, <1>7

LEMMA HolderInit == KeysAssumption /\ Init => HolderInv
  <1> SUFFICES ASSUME KeysAssumption, Init PROVE HolderInv
    OBVIOUS
  <1> USE NothingsFit DEF Init
  <1>1. NoDocument.active = None
    BY DEF NoDocument
  <1>2. TypeOK
    BY DEF TypeOK, Files
  <1>3. CallsFit /\ ViewsFit /\ FreshKeys /\ LateProofs /\ RetiredStaysRetired /\ LateBindingRefused
    BY <1>1 DEF CallsFit, ViewsFit, FreshKeys, LateProofs, RetiredStaysRetired, LateBindingRefused
  <1>4. RequestsSound
    BY DEF RequestsSound, Sound
  <1> QED
    BY <1>2, <1>3, <1>4 DEF HolderInv, KeysInv

LEMMA HolderStep == KeysAssumption /\ HolderInv /\ [Next]_vars => HolderInv'
  <1> SUFFICES ASSUME KeysAssumption, HolderInv, [Next]_vars PROVE HolderInv'
    OBVIOUS
  <1>0. /\ TypeOK /\ call \in [Procs -> Call] /\ docview \in [Procs -> Document] /\ bindings \in Nat
        /\ text \in [Files -> {"whole", "empty", "mixed"}] /\ made \in SUBSET Keys /\ held \in SUBSET Keys
        /\ accepted \in SUBSET [key : Keys, late : BOOLEAN] /\ \A a \in accepted : ~a.late
    BY DEF HolderInv, KeysInv, TypeOK, LateBindingRefused
  <1>1. ASSUME NEW p \in Procs, RotateHolderKey(p) PROVE HolderInv'
    <2>1. PICK o \in Call : o = [NoCall EXCEPT !.kind = "rotate"]
      BY NothingsFit DEF Call
    <2>2. o.kind = "rotate" /\ o.late = FALSE
      BY <2>1, NothingsFit DEF NoCall
    <2> QED
      BY <1>0, <1>1, <2>1, <2>2, BeginKeeps DEF RotateHolderKey
  <1>2. ASSUME NEW p \in Procs, NEW r \in RequestIds, RequestRecovery(p, r) PROVE HolderInv'
    <2>1. PICK o \in Call : o = [NoCall EXCEPT !.kind = "request", !.request = r]
      BY NothingsFit DEF Call
    <2>2. o.kind = "request" /\ o.late = FALSE /\ o.request = r
      BY <2>1, NothingsFit DEF NoCall
    <2>3. /\ Begin(p, "load", o) /\ bindings' \in Nat /\ o.request # None /\ o.request \notin filed
          /\ \A q \in Procs : call[q].request # o.request
      BY <1>0, <1>2, <2>1, <2>2 DEF RequestRecovery, KeysAssumption
    <2> QED
      BY <2>2, <2>3, BeginKeeps
  <1>3. ASSUME NEW p \in Procs, NEW a \in Actors, NEW r \in RequestIds, Approve(p, a, r) PROVE HolderInv'
    <2>1. PICK o \in Call : o = [NoCall EXCEPT !.kind = "recover", !.request = r]
      BY NothingsFit DEF Call
    <2>2. o.kind = "recover" /\ o.late = FALSE /\ o.request = r
      BY <2>1, NothingsFit DEF NoCall
    <2> QED
      BY <1>0, <1>3, <2>1, <2>2, BeginKeeps DEF Approve, KeysAssumption
  <1>4. ASSUME NEW p \in Procs, NEW k \in Keys, Bind(p, k) PROVE HolderInv'
    <2> DEFINE late == k \in replaced
    <2>1. late \in BOOLEAN /\ (late => k \in replaced)
      OBVIOUS
    <2>2. bindings' \in Nat /\ Begin(p, "resolve", [NoCall EXCEPT !.kind = "bind", !.key = k, !.late = late])
      BY <1>0, <1>4 DEF Bind
    <2> HIDE DEF late
    <2>3. PICK o \in Call : o = [NoCall EXCEPT !.kind = "bind", !.key = k, !.late = late]
      BY <2>1, NothingsFit DEF Call
    <2>4. o.kind = "bind" /\ o.key = k /\ (o.late => k \in replaced)
      BY <2>1, <2>3, NothingsFit DEF NoCall
    <2> QED
      BY <2>2, <2>3, <2>4, BeginKeeps DEF KeysAssumption
  <1>5. ASSUME NEW p \in Procs, BeginPut(p) PROVE HolderInv'
    <2>1. /\ pc[p] = "put" /\ Goto(p, "write") /\ text' = [text EXCEPT !["document"] = "empty"]
          /\ UNCHANGED <<doc, requests, held, made, call, docview, requestview, bindings, replaced, accepted, filed, keyAt>>
      BY <1>5 DEF BeginPut, BeginWrite, history
    <2>2. PICK o \in Call : o = call[p]
      BY <1>0
    <2>3. /\ o.kind \in {"rotate", "recover"} /\ o.key # None /\ doc.active # None /\ docview'[p].active # None
      BY <2>1, <2>2 DEF HolderInv, KeysInv, CallsFit, ViewsFit
    <2>4. call' = [call EXCEPT ![p] = o] /\ text' \in [Files -> {"whole", "empty", "mixed"}]
      BY <1>0, <2>1, <2>2
    <2> QED
      BY <1>0, <2>1, <2>2, <2>3, <2>4, MoveKeeps
  <1>6. ASSUME NEW p \in Procs, BeginSave(p) PROVE HolderInv'
    <2>1. /\ pc[p] = "save" /\ Goto(p, "file") /\ text' = [text EXCEPT !["requests"] = "empty"]
          /\ UNCHANGED <<doc, requests, held, made, call, docview, requestview, bindings, replaced, accepted, filed, keyAt>>
      BY <1>6 DEF BeginSave, BeginWrite, history
    <2>2. PICK o \in Call : o = call[p]
      BY <1>0
    <2>3. o.kind \in {"request", "recover"} /\ o.request # None
      BY <2>1, <2>2 DEF HolderInv, KeysInv, CallsFit
    <2>4. call' = [call EXCEPT ![p] = o] /\ text' \in [Files -> {"whole", "empty", "mixed"}]
      BY <1>0, <2>1, <2>2
    <2> QED
      BY <1>0, <2>1, <2>2, <2>3, <2>4, MoveKeeps
  <1>7. ASSUME NEW p \in Procs, Return(p) PROVE HolderInv'
    <2>1. call[p].key \in Keys
      BY <1>0, <1>7 DEF Return, HolderInv, KeysInv, CallsFit, Call
    <2> QED
      BY <1>0, <1>7, <2>1, EndKeeps DEF Return
  <1>8. ASSUME NEW p \in Procs, ConsumeNonce(p) PROVE HolderInv'
    <2>1. call[p].key \in Keys /\ call[p].late = FALSE
      BY <1>0, <1>8 DEF ConsumeNonce, HolderInv, KeysInv, CallsFit, LateProofs, Call
    <2>2. PICK a \in [key : Keys, late : BOOLEAN] : a = [key |-> call[p].key, late |-> FALSE]
      BY <2>1
    <2>3. accepted' = accepted \cup {a} /\ ~a.late
      BY <1>8, <2>1, <2>2 DEF ConsumeNonce
    <2>4. accepted' \in SUBSET [key : Keys, late : BOOLEAN] /\ \A b \in accepted' : ~b.late
      BY <1>0, <2>2, <2>3
    <2> QED
      BY <1>0, <1>8, <2>4, EndKeeps DEF ConsumeNonce
  <1>9. ASSUME NEW p \in Procs, Die(p) PROVE HolderInv'
    BY <1>0, <1>9, EndKeeps DEF Die
  <1>10. CASE UNCHANGED vars
    BY <1>10 DEF vars, process, history, HolderInv, KeysInv, TypeOK, CallsFit, ViewsFit, FreshKeys, LateProofs,
                 RetiredStaysRetired, LateBindingRefused, RequestsSound, Sound, Recovered
  <1> QED
    BY <1>1, <1>2, <1>3, <1>4, <1>5, <1>6, <1>7, <1>8, <1>9, <1>10, EstablishKeeps, ResolveKeeps, ResolveFailsKeeps,
       PutKeeps, LoadKeeps, SaveKeeps DEF Next
-----------------------------------------------------------------------------
LEMMA HolderInvariant == ASSUME KeysAssumption PROVE Spec => []HolderInv
  <1>1. Init => HolderInv
    BY HolderInit
  <1>2. HolderInv /\ [Next]_vars => HolderInv'
    BY HolderStep
  <1> QED
    BY <1>1, <1>2, PTL DEF Spec

\* The documents, the requests and the calls keep their types.
THEOREM HolderTypes == ASSUME KeysAssumption PROVE Spec => []TypeOK
  <1>1. HolderInv => TypeOK
    BY DEF HolderInv, KeysInv
  <1> QED
    BY <1>1, HolderInvariant, PTL

\* Whatever document a rotation or a recovery puts back, its active key is not
\* one that was replaced.
THEOREM ReplacedKeysStayOut == ASSUME KeysAssumption PROVE Spec => []RetiredStaysRetired
  <1>1. HolderInv => RetiredStaysRetired
    BY DEF HolderInv, KeysInv
  <1> QED
    BY <1>1, HolderInvariant, PTL

\* verify_subject_binding accepts no proof begun with a replaced key.
THEOREM LateProofsFail == ASSUME KeysAssumption PROVE Spec => []LateBindingRefused
  <1>1. HolderInv => LateBindingRefused
    BY DEF HolderInv, KeysInv
  <1> QED
    BY <1>1, HolderInvariant, PTL

\* A request that the file calls completed has shut out the key it was filed
\* against.
THEOREM RecoveriesShutOut == ASSUME KeysAssumption PROVE Spec => []CompletedRecoveryRetires
  <1>1. KeysAssumption /\ HolderInv => CompletedRecoveryRetires
    BY DEF KeysAssumption, HolderInv, KeysInv, TypeOK, RequestsSound, Sound, Recovered, RetiredStaysRetired,
           CompletedRecoveryRetires
  <1>2. HolderInv => CompletedRecoveryRetires
    BY <1>1
  <1> QED
    BY <1>2, HolderInvariant, PTL
=============================================================================
