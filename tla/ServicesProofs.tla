--------------------------- MODULE ServicesProofs ---------------------------
(***************************************************************************)
(* The properties of the Services run, for every value of its constants.   *)
(* Those of the audit log and of the subscriptions are proved here; those  *)
(* of the holder's keys and of the proof path are taken over from their    *)
(* own proofs.                                                             *)
(***************************************************************************)
EXTENDS Services, ProofVerificationProofs, FiniteSetTheorems, SequenceTheorems

services == <<part, vars, keyVars, auditVars, subscriptionVars>>

(***************************************************************************)
(* The audit log.  AuditInv adds to the properties what a purge knows: of  *)
(* the events that are owed, which have returned and are neither expired   *)
(* nor excused, a purge past its listing keeps every one.  An append       *)
(* beside it is excused, so nothing new is owed until the file is whole.   *)
(* It adds what an append knows, too: where nothing overlapped, the hash   *)
(* it read is still that of the last line.                                 *)
(***************************************************************************)
\* The lines of the file, in full.
Line == [text : {"whole", "open", "torn"}, content : Audit!LineContents,
         prev : Seq(Audit!LineContents), hash : Seq(Audit!LineContents)]

\* TypeOK, and the types of the hashes and of the sequences of records.
AuditTypes ==
    /\ Audit!TypeOK
    /\ log \in Seq(Line)
    /\ last \in [Writers -> Seq(Audit!LineContents)]
    /\ kept \in [Writers -> Seq(Audit!LineContents)]
    /\ \A w \in Writers : threadPc[w] = "append" => record[w] \in Audit!Records

\* The records the purge of w keeps; the events that are owed; what purges hold.
KeptIds(w) == {kept[w][i].id : i \in DOMAIN kept[w]}
Owed == returned \ (expired \cup excused)
PurgesHold == \A w \in Writers : Audit!Purging(w) => Owed \subseteq KeptIds(w)

\* A thread between reading the file and writing it.
Busy(w) == threadPc[w] = "append" \/ Audit!Purging(w)

\* The lock: one thread of a process appends at a time.
OneInLock ==
    \A v, w \in Writers :
        threadPc[v] = "append" /\ threadPc[w] = "append" /\ processOf[v] = processOf[w] => v = w

\* Where nothing overlapped one thread is busy, and an append goes on from the last line.
Alone ==
    ~raced => /\ \A v, w \in Writers : Busy(v) /\ Busy(w) => v = w
              /\ \A w \in Writers : threadPc[w] = "append" => last[w] = Audit!LastEntryHash

AuditInv ==
    AuditTypes /\ OneInLock /\ Alone /\ Audit!ChainHolds /\ Audit!EventsAreKept /\ PurgesHold

\* The members of a set of places are numbered by how many come no later.
LEMMA Ranks ==
    ASSUME NEW n \in Nat, NEW keep \in SUBSET (1 .. n)
    PROVE  LET UpTo(i) == Cardinality({j \in keep : j <= i})
           IN  /\ Cardinality(keep) \in Nat
               /\ \A i \in keep : UpTo(i) \in 1 .. Cardinality(keep)
               /\ \A i, j \in keep : UpTo(i) = UpTo(j) => i = j
               /\ \A k \in 1 .. Cardinality(keep) : \E i \in keep : UpTo(i) = k
  <1> DEFINE NoLater(i) == {j \in keep : j <= i}
             UpTo(i) == Cardinality(NoLater(i))
             f == [i \in keep |-> UpTo(i)]
  <1>1. IsFiniteSet(keep) /\ Cardinality(keep) \in Nat
    <2>1. IsFiniteSet(1 .. n)
      BY FS_Interval
    <2> QED
      BY <2>1, FS_Subset, FS_CardinalityType
  <1>2. ASSUME NEW i \in keep
        PROVE  IsFiniteSet(NoLater(i)) /\ UpTo(i) \in 1 .. Cardinality(keep)
    <2>1. NoLater(i) \in SUBSET keep /\ {i} \in SUBSET NoLater(i)
      OBVIOUS
    <2>2. IsFiniteSet(NoLater(i)) /\ Cardinality(NoLater(i)) <= Cardinality(keep) /\ UpTo(i) \in Nat
      BY <1>1, <2>1, FS_Subset, FS_CardinalityType
    <2>3. Cardinality({i}) <= Cardinality(NoLater(i)) /\ Cardinality({i}) = 1
      BY <2>1, <2>2, FS_Subset, FS_Singleton
    <2> QED
      BY <1>1, <2>2, <2>3
  <1>3. ASSUME NEW i \in keep, NEW j \in keep, UpTo(i) = UpTo(j)
        PROVE  i = j
    <2>0. i \in Int /\ j \in Int /\ \A x \in keep : x \in Int
      OBVIOUS
    <2>1. CASE i <= j
      <3>1. NoLater(i) \in SUBSET NoLater(j)
        <4> SUFFICES ASSUME NEW x \in keep, x <= i
                     PROVE  x <= j
          OBVIOUS
        <4> QED
          BY <2>0, <2>1
      <3>2. NoLater(i) = NoLater(j)
        BY <1>2, <1>3, <3>1, FS_Subset
      <3>3. j \in NoLater(j)
        BY <2>0
      <3> QED
        BY <2>0, <2>1, <3>2, <3>3
    <2>2. CASE j <= i
      <3>1. NoLater(j) \in SUBSET NoLater(i)
        <4> SUFFICES ASSUME NEW x \in keep, x <= j
                     PROVE  x <= i
          OBVIOUS
        <4> QED
          BY <2>0, <2>2
      <3>2. NoLater(i) = NoLater(j)
        BY <1>2, <1>3, <3>1, FS_Subset
      <3>3. i \in NoLater(i)
        BY <2>0
      <3> QED
        BY <2>0, <2>2, <3>2, <3>3
    <2> QED
      BY <2>0, <2>1, <2>2
  <1>4. ASSUME NEW k \in 1 .. Cardinality(keep)
        PROVE  \E i \in keep : UpTo(i) = k
    <2>1. f \in Injection(keep, 1 .. Cardinality(keep))
      BY <1>2, <1>3 DEF Injection, IsInjective
    <2>2. IsFiniteSet(1 .. Cardinality(keep)) /\ Cardinality(1 .. Cardinality(keep)) = Cardinality(keep)
      BY <1>1, FS_Interval
    <2>3. f \in Surjection(keep, 1 .. Cardinality(keep))
      BY <2>1, <2>2, FS_Injection
    <2> QED
      BY <2>3 DEF Surjection
  <1> QED
    BY <1>1, <1>2, <1>3, <1>4

\* Filtering drops the records in gone and no other.
LEMMA FilterKeeps ==
    ASSUME NEW contents \in Seq(Audit!LineContents), NEW gone
    PROVE  /\ Audit!FilterExpired(contents, gone) \in Seq(Audit!LineContents)
           /\ \A i \in DOMAIN contents : contents[i].id \notin gone =>
                  \E k \in DOMAIN Audit!FilterExpired(contents, gone) :
                      Audit!FilterExpired(contents, gone)[k].id = contents[i].id
  <1> DEFINE keep == {i \in DOMAIN contents : contents[i].id \notin gone}
             UpTo(i) == Cardinality({j \in keep : j <= i})
             nth(k) == CHOOSE i \in keep : UpTo(i) = k
             F == Audit!FilterExpired(contents, gone)
  <1>1. Len(contents) \in Nat /\ DOMAIN contents = 1 .. Len(contents)
        /\ \A i \in DOMAIN contents : contents[i] \in Audit!LineContents
    OBVIOUS
  <1>2. keep \in SUBSET (1 .. Len(contents))
    BY <1>1
  <1>3. /\ Cardinality(keep) \in Nat
        /\ \A i \in keep : UpTo(i) \in 1 .. Cardinality(keep)
        /\ \A i, j \in keep : UpTo(i) = UpTo(j) => i = j
        /\ \A k \in 1 .. Cardinality(keep) : \E i \in keep : UpTo(i) = k
    <2> HIDE DEF keep
    <2> QED
      BY <1>1, <1>2, Ranks
  <1>4. F = [k \in 1 .. Cardinality(keep) |-> contents[nth(k)]]
    BY DEF Audit!FilterExpired, Audit!Cardinality, Cardinality
  <1> HIDE DEF UpTo, F
  <1>5. \A k \in 1 .. Cardinality(keep) : nth(k) \in keep
    BY <1>3
  <1>6. \A i \in keep : nth(UpTo(i)) = i
    BY <1>3
  <1> HIDE DEF nth
  <1>7. F \in [1 .. Cardinality(keep) -> Audit!LineContents]
    BY <1>1, <1>4, <1>5
  <1>8. F \in Seq(Audit!LineContents)
    BY <1>3, <1>7, SeqDef
  <1>9. ASSUME NEW i \in keep
        PROVE  UpTo(i) \in DOMAIN F /\ F[UpTo(i)] = contents[i]
    BY <1>3, <1>4, <1>6
  <1> QED
    BY <1>8, <1>9 DEF F

\* The same of one place, as the purge's step needs it.
LEMMA FilterFinds ==
    ASSUME NEW contents \in Seq(Audit!LineContents), NEW gone, NEW i \in DOMAIN contents, contents[i].id \notin gone
    PROVE  \E k \in DOMAIN Audit!FilterExpired(contents, gone) :
               Audit!FilterExpired(contents, gone)[k].id = contents[i].id
  <1> DEFINE n == contents[i].id
             F == Audit!FilterExpired(contents, gone)
  <1>1. \E k \in DOMAIN F : F[k].id = n
    BY FilterKeeps
  <1> QED
    BY <1>1

\* What a purge writes is a chain of what it kept.
LEMMA ResealedIsAChain ==
    ASSUME NEW contents \in Seq(Audit!LineContents)
    PROVE  /\ Audit!Resealed(contents) \in Seq(Line)
           /\ DOMAIN Audit!Resealed(contents) = DOMAIN contents
           /\ \A i \in DOMAIN contents : Audit!Resealed(contents)[i].content = contents[i]
           /\ Audit!Readable(Audit!Resealed(contents)) /\ Audit!VerifyChain(Audit!Resealed(contents))
  <1> DEFINE R == Audit!Resealed(contents)
  <1>1. /\ Len(contents) \in Nat /\ DOMAIN contents = 1 .. Len(contents)
        /\ \A i \in 1 .. Len(contents) : contents[i] \in Audit!LineContents
    OBVIOUS
  <1>2. ASSUME NEW n \in 0 .. Len(contents)
        PROVE  SubSeq(contents, 1, n) \in Seq(Audit!LineContents)
    BY <1>1
  <1>3. ASSUME NEW i \in 1 .. Len(contents)
        PROVE  /\ SubSeq(contents, 1, i - 1) \in Seq(Audit!LineContents)
               /\ Append(SubSeq(contents, 1, i - 1), contents[i]) \in Seq(Audit!LineContents)
               /\ SubSeq(contents, 1, i) = Append(SubSeq(contents, 1, i - 1), contents[i])
    <2>1. SubSeq(contents, 1, i - 1) \in Seq(Audit!LineContents)
      BY <1>2
    <2>2. SubSeq(contents, 1, i) = SubSeq(contents, 1, i - 1) \o <<contents[i]>>
      BY <1>1, SubSeqRecursiveSecond
    <2>3. contents[i] \in Audit!LineContents
      BY <1>1
    <2>4. Append(SubSeq(contents, 1, i - 1), contents[i]) = SubSeq(contents, 1, i - 1) \o <<contents[i]>>
      BY <2>1, <2>3, AppendIsConcat
    <2> QED
      BY <2>1, <2>2, <2>3, <2>4, AppendProperties
  <1>4. \A i \in 1 .. Len(contents) :
            R[i] = [text |-> "whole", content |-> contents[i], prev |-> SubSeq(contents, 1, i - 1),
                    hash |-> Append(SubSeq(contents, 1, i - 1), contents[i])]
    BY <1>1 DEF Audit!Resealed, Audit!Sealed
  <1>f. ASSUME NEW i \in 1 .. Len(contents)
        PROVE  /\ R[i].text = "whole" /\ R[i].content = contents[i] /\ R[i].prev = SubSeq(contents, 1, i - 1)
               /\ R[i].hash = SubSeq(contents, 1, i) /\ R[i].hash = Append(R[i].prev, R[i].content)
               /\ R[i] \in Line
    <2> DEFINE r == [text |-> "whole", content |-> contents[i], prev |-> SubSeq(contents, 1, i - 1),
                     hash |-> Append(SubSeq(contents, 1, i - 1), contents[i])]
    <2>1. R[i] = r
      BY <1>4
    <2>2. r \in Line
      BY <1>1, <1>3 DEF Line
    <2>3. r.hash = SubSeq(contents, 1, i)
      BY <1>3
    <2> HIDE DEF R
    <2> QED
      BY <2>1, <2>2, <2>3
  <1>5. DOMAIN R = 1 .. Len(contents)
    BY <1>1 DEF Audit!Resealed
  <1>6. R \in [1 .. Len(contents) -> Line]
    <2>1. R = [i \in 1 .. Len(contents) |-> R[i]]
      BY <1>1 DEF Audit!Resealed
    <2>2. \A i \in 1 .. Len(contents) : R[i] \in Line
      BY <1>f
    <2> QED
      BY <2>1, <2>2
  <1>7. R \in Seq(Line)
    BY <1>1, <1>6, SeqDef
  <1> HIDE DEF R
  <1>8. ASSUME NEW i \in 1 .. Len(contents)
        PROVE  R[i].prev = IF i = 1 THEN Audit!GENESIS_HASH ELSE R[i - 1].hash
    <2>1. CASE i = 1
      <3>1. SubSeq(contents, 1, 0) = <<>>
        BY SubSeqEmpty
      <3> QED
        BY <1>f, <2>1, <3>1 DEF Audit!GENESIS_HASH
    <2>2. CASE i # 1
      <3>1. i - 1 \in 1 .. Len(contents)
        BY <1>1, <2>2
      <3>2. R[i - 1].hash = SubSeq(contents, 1, i - 1)
        BY <1>f, <3>1
      <3> QED
        BY <1>f, <2>2, <3>2
    <2> QED
      BY <2>1, <2>2
  <1>9. Audit!Readable(R) /\ Audit!VerifyChain(R)
    BY <1>f, <1>5, <1>8 DEF Audit!Readable, Audit!VerifyChain
  <1> QED
    BY <1>1, <1>f, <1>5, <1>7, <1>9 DEF R

\* The types of the threads' own variables.
ThreadTypes ==
    /\ threadPc \in [Writers -> {"idle", "alarm", "append", "list", "empty", "rewrite"}]
    /\ kind \in [Writers -> {"none", "event", "purge", "alarm"}]
    /\ record \in [Writers -> 0 .. MaxRecords]
    /\ last \in [Writers -> Seq(Audit!LineContents)] /\ kept \in [Writers -> Seq(Audit!LineContents)]
    /\ \A w \in Writers : threadPc[w] = "append" => record[w] \in Audit!Records

\* A thread whose call ends keeps them.
LEMMA ThreadEnds ==
    ASSUME Audit!RecordsAssumption, ThreadTypes, NEW w \in Writers, Audit!End(w)
    PROVE  ThreadTypes'
  <1>1. 0 \in 0 .. MaxRecords /\ <<>> \in Seq(Audit!LineContents)
    BY DEF Audit!RecordsAssumption
  <1> QED
    BY <1>1 DEF ThreadTypes, Audit!End, Audit!GENESIS_HASH

\* What an append reads as the last hash is a sequence of records' contents.
LEMMA LastHashType == AuditTypes => Audit!LastEntryHash \in Seq(Audit!LineContents)
  <1> SUFFICES ASSUME AuditTypes
               PROVE  Audit!LastEntryHash \in Seq(Audit!LineContents)
    OBVIOUS
  <1>1. CASE log = <<>>
    BY <1>1 DEF Audit!LastEntryHash, Audit!GENESIS_HASH
  <1>2. CASE log # <<>>
    <2>1. log \in Seq(Line) /\ Len(log) \in 1 .. Len(log)
      BY <1>2 DEF AuditTypes
    <2>2. log[Len(log)] \in Line
      BY <2>1
    <2> QED
      BY <1>2, <2>2 DEF Audit!LastEntryHash, Line
  <1> QED
    BY <1>1, <1>2

\* What the actions write are lines.
LEMMA ContentTypes ==
    ASSUME Audit!RecordsAssumption, NEW r \in Audit!Records
    PROVE  /\ Audit!Content(r) \in Audit!LineContents
           /\ \A open \in BOOLEAN : Audit!Torn(open) \in Line
           /\ \A prev \in Seq(Audit!LineContents) : Audit!Sealed(Audit!Content(r), prev) \in Line
  <1>1. 1 \in Audit!Records
    BY DEF Audit!RecordsAssumption, Audit!Records
  <1>2. \A n \in Audit!Records : Audit!Content(n) \in Audit!LineContents
    BY DEF Audit!Content, Audit!LineContents
  <1>3. Audit!GENESIS_HASH \in Seq(Audit!LineContents)
    BY DEF Audit!GENESIS_HASH
  <1>4. ASSUME NEW prev \in Seq(Audit!LineContents)
        PROVE  Append(prev, Audit!Content(r)) \in Seq(Audit!LineContents)
    BY <1>2
  <1> HIDE DEF Audit!Records
  <1> QED
    BY <1>1, <1>2, <1>3, <1>4 DEF Audit!Torn, Audit!Sealed, Line

\* Lines have the types TypeOK asks of the log.
LEMMA LinesTyped ==
    ASSUME NEW lines \in Seq(Line)
    PROVE  \A i \in DOMAIN lines :
               lines[i].text \in {"whole", "open", "torn"} /\ lines[i].content \in Audit!LineContents
  <1>1. \A i \in DOMAIN lines : lines[i] \in Line
    OBVIOUS
  <1> QED
    BY <1>1 DEF Line

\* The log after each step is a sequence of lines.
LEMMA LogTypes ==
    ASSUME Audit!RecordsAssumption, AuditTypes, Audit!Next
    PROVE  log' \in Seq(Line)
  <1> USE DEF AuditTypes
  <1>1. CASE log' = log
    BY <1>1
  <1>2. ASSUME NEW r \in Audit!Records
        PROVE  \A open \in BOOLEAN : Audit!Torn(open) \in Line
    BY ContentTypes
  <1>3. ASSUME NEW w \in Writers, Audit!AppendLine(w)
        PROVE  log' \in Seq(Line)
    <2>1. record[w] \in Audit!Records /\ last[w] \in Seq(Audit!LineContents)
      BY <1>3 DEF Audit!AppendLine
    <2>2. Audit!Torn(FALSE) \in Line /\ Audit!Sealed(Audit!Content(record[w]), last[w]) \in Line
      BY <2>1, ContentTypes
    <2>3. CASE Audit!LeftOpen
      <3>1. log' = [log EXCEPT ![Len(log)] = Audit!Torn(FALSE)] /\ Len(log) \in 1 .. Len(log)
        BY <1>3, <2>3 DEF Audit!AppendLine, Audit!LeftOpen
      <3> QED
        BY <2>2, <3>1, ExceptSeq
    <2>4. CASE ~Audit!LeftOpen
      <3>1. log' = Append(log, Audit!Sealed(Audit!Content(record[w]), last[w]))
        BY <1>3, <2>4 DEF Audit!AppendLine
      <3> QED
        BY <2>2, <3>1, AppendProperties
    <2> QED
      BY <2>3, <2>4
  <1>4. ASSUME NEW w \in Writers, Audit!Empty(w)
        PROVE  log' \in Seq(Line)
    BY <1>4 DEF Audit!Empty
  <1>5. ASSUME NEW w \in Writers, Audit!Rewrite(w)
        PROVE  log' \in Seq(Line)
    <2>1. PICK rest \in {<<>>} \cup (IF log = <<>> THEN {} ELSE {<<Audit!Torn(Audit!LeftOpen)>>}) :
               log' = Audit!Resealed(kept[w]) \o rest
      BY <1>5 DEF Audit!Rewrite
    <2>2. rest \in Seq(Line)
      <3>1. CASE rest = <<>>
        BY <3>1
      <3>2. CASE log # <<>> /\ rest = <<Audit!Torn(Audit!LeftOpen)>>
        <4>1. log[1] \in Line
          BY <3>2
        <4>2. log[1].content.id \in Audit!Records
          BY <4>1 DEF Line, Audit!LineContents
        <4>3. Audit!LeftOpen \in BOOLEAN
          BY DEF Audit!LeftOpen
        <4> QED
          BY <1>2, <3>2, <4>2, <4>3
      <3> QED
        BY <2>1, <3>1, <3>2
    <2>3. Audit!Resealed(kept[w]) \in Seq(Line)
      BY ResealedIsAChain
    <2> QED
      BY <2>1, <2>2, <2>3, ConcatProperties
  <1>6. ASSUME NEW w \in Writers, Audit!Die(w)
        PROVE  log' \in Seq(Line)
    <2>1. CASE threadPc[w] = "append" /\ log' = Append(log, Audit!Torn(TRUE))
      BY <1>2, <2>1, AppendProperties
    <2> QED
      BY <1>1, <1>6, <2>1 DEF Audit!Die
  <1>7. ASSUME NEW i \in DOMAIN log, Audit!Alter(i)
        PROVE  log' \in Seq(Line)
    <2>1. log[i] \in Line /\ i \in 1 .. Len(log)
      OBVIOUS
    <2>2. [log[i] EXCEPT !.content.altered = TRUE] \in Line
      BY <2>1 DEF Line, Audit!LineContents
    <2>3. log' = [log EXCEPT ![i] = [log[i] EXCEPT !.content.altered = TRUE]]
      BY <1>7 DEF Audit!Alter
    <2> QED
      BY <2>1, <2>2, <2>3, ExceptSeq
  <1> QED
    BY <1>1, <1>3, <1>4, <1>5, <1>6, <1>7
       DEF Audit!Next, Audit!LogEvent, Audit!Purge, Audit!CheckAuditIntegrity, Audit!BeginAppend, Audit!List,
           Audit!ListRaises, Audit!LogFailure

\* Every step keeps the types.
LEMMA TypesKept ==
    ASSUME Audit!RecordsAssumption, AuditTypes, Audit!Next
    PROVE  AuditTypes'
  <1>1. log' \in Seq(Line)
    BY LogTypes
  <1>2. \A i \in DOMAIN log' : log'[i].text \in {"whole", "open", "torn"} /\ log'[i].content \in Audit!LineContents
    BY <1>1, LinesTyped
  <1>3. ThreadTypes
    BY DEF AuditTypes, Audit!TypeOK, ThreadTypes
  <1>4. SUFFICES /\ ThreadTypes'
                 /\ drawn' \in 0 .. MaxRecords /\ expired' \in SUBSET Audit!Records
                 /\ alerts' \in Nat /\ faults' \in Nat
                 /\ processOf' \in Placements
                 /\ returned' \in SUBSET Audit!Records /\ excused' \in SUBSET Audit!Records /\ raced' \in BOOLEAN
    BY <1>1, <1>2 DEF AuditTypes, Audit!TypeOK, ThreadTypes
  <1>0. /\ drawn \in 0 .. MaxRecords /\ expired \in SUBSET Audit!Records /\ alerts \in Nat /\ faults \in Nat
        /\ processOf \in Placements
        /\ returned \in SUBSET Audit!Records /\ excused \in SUBSET Audit!Records /\ raced \in BOOLEAN
    BY DEF AuditTypes, Audit!TypeOK
  <1>5. ASSUME NEW w \in Writers, NEW k \in {"event", "purge", "alarm"}, Audit!BeginAppend(w, k)
        PROVE  /\ ThreadTypes' /\ drawn' \in 0 .. MaxRecords /\ raced' \in BOOLEAN
               /\ UNCHANGED <<expired, alerts, faults, processOf, returned, excused>>
    <2>1. Audit!LastEntryHash \in Seq(Audit!LineContents)
      BY LastHashType
    <2>2. drawn + 1 \in Audit!Records /\ drawn + 1 \in 0 .. MaxRecords
      BY <1>0, <1>5 DEF Audit!BeginAppend, Audit!Records, Audit!RecordsAssumption
    <2>3. /\ record' = [record EXCEPT ![w] = drawn + 1] /\ last' = [last EXCEPT ![w] = Audit!LastEntryHash]
          /\ threadPc' = [threadPc EXCEPT ![w] = "append"] /\ kind' = [kind EXCEPT ![w] = k] /\ kept' = kept
          /\ drawn' = drawn + 1 /\ UNCHANGED <<expired, alerts, faults, processOf, returned, excused>>
          /\ raced' = (raced \/ Audit!Overlaps(w))
      BY <1>5 DEF Audit!BeginAppend
    <2> HIDE DEF Audit!Records
    <2>4. ThreadTypes'
      BY <1>3, <2>1, <2>2, <2>3 DEF ThreadTypes
    <2> QED
      BY <1>0, <1>5, <2>2, <2>3, <2>4
  <1>c. ASSUME NEW w \in Writers, Audit!CheckAuditIntegrity(w)
        PROVE  /\ ThreadTypes' /\ alerts' \in Nat
               /\ UNCHANGED <<drawn, expired, faults, processOf, returned, excused, raced>>
    BY <1>0, <1>3, <1>c DEF Audit!CheckAuditIntegrity, Audit!history, ThreadTypes
  <1>6. ASSUME NEW w \in Writers, Audit!AppendLine(w)
        PROVE  ThreadTypes' /\ returned' \in SUBSET Audit!Records /\ excused' \in SUBSET Audit!Records
               /\ UNCHANGED <<drawn, expired, alerts, faults, raced, processOf>>
    <2>1. record[w] \in Audit!Records
      BY <1>3, <1>6 DEF Audit!AppendLine, ThreadTypes
    <2>2. returned' \in SUBSET Audit!Records /\ excused' \in SUBSET Audit!Records
      BY <1>0, <1>6, <2>1 DEF Audit!AppendLine
    <2>3. ThreadTypes'
      <3>1. CASE kind[w] = "purge"
        BY <1>3, <1>6, <3>1 DEF Audit!AppendLine, ThreadTypes
      <3>2. CASE kind[w] # "purge"
        BY <1>3, <1>6, <3>2, ThreadEnds DEF Audit!AppendLine
      <3> QED
        BY <3>1, <3>2
    <2> QED
      BY <1>6, <2>2, <2>3 DEF Audit!AppendLine
  <1>7. ASSUME NEW w \in Writers, NEW old \in SUBSET Audit!Lines(log), Audit!List(w, old)
        PROVE  ThreadTypes' /\ expired' \in SUBSET Audit!Records /\ excused' \in SUBSET Audit!Records
               /\ raced' \in BOOLEAN /\ UNCHANGED <<drawn, alerts, faults, processOf, returned>>
    <2>1. Audit!Lines(log) \in SUBSET Audit!Records
      BY DEF AuditTypes, Audit!TypeOK, Audit!Lines, Audit!LineContents
    <2>2. Audit!Listed \in Seq(Audit!LineContents)
      <3>1. log \in [1 .. Len(log) -> Line] /\ Len(log) \in Nat
        BY DEF AuditTypes
      <3>2. Audit!Listed \in [1 .. Len(log) -> Audit!LineContents]
        BY <3>1 DEF Audit!Listed, Line
      <3> QED
        BY <3>1, <3>2, SeqDef
    <2>3. Audit!FilterExpired(Audit!Listed, expired') \in Seq(Audit!LineContents)
      BY <2>2, FilterKeeps
    <2>4. ThreadTypes'
      BY <1>3, <1>7, <2>3 DEF Audit!List, ThreadTypes
    <2> QED
      BY <1>0, <1>7, <2>1, <2>4 DEF Audit!List
  <1>8. ASSUME NEW w \in Writers, Audit!ListRaises(w)
        PROVE  ThreadTypes' /\ UNCHANGED <<drawn, expired, alerts, faults, returned, excused, raced, processOf>>
    BY <1>3, <1>8, ThreadEnds DEF Audit!ListRaises, Audit!history
  <1>9. ASSUME NEW w \in Writers, Audit!Empty(w)
        PROVE  ThreadTypes' /\ UNCHANGED <<drawn, expired, alerts, faults, returned, excused, raced, processOf>>
    BY <1>3, <1>9 DEF Audit!Empty, Audit!history, ThreadTypes
  <1>10. ASSUME NEW w \in Writers, Audit!Rewrite(w)
         PROVE  ThreadTypes' /\ raced' \in BOOLEAN
                /\ UNCHANGED <<drawn, expired, alerts, faults, returned, excused, processOf>>
    <2>1. Audit!End(w) /\ UNCHANGED <<drawn, expired, alerts, faults, returned, excused, processOf>>
      BY <1>10 DEF Audit!Rewrite
    <2>2. raced' \in BOOLEAN
      BY <1>10 DEF Audit!Rewrite
    <2> QED
      BY <1>3, <2>1, <2>2, ThreadEnds
  <1>11. ASSUME NEW w \in Writers, Audit!Die(w)
         PROVE  ThreadTypes' /\ faults' \in Nat /\ raced' \in BOOLEAN /\ excused' \in SUBSET Audit!Records
                /\ UNCHANGED <<drawn, expired, alerts, returned, processOf>>
    <2>1. ThreadTypes'
      BY <1>3, <1>11, ThreadEnds DEF Audit!Die
    <2>2. faults' = faults + 1 /\ raced' \in {raced, TRUE} /\ excused' \in {excused, Audit!Records}
      BY <1>11 DEF Audit!Die
    <2>3. UNCHANGED <<drawn, expired, alerts, returned, processOf>>
      BY <1>11 DEF Audit!Die
    <2>4. faults' \in Nat
      BY <1>0, <2>2
    <2>5. raced' \in BOOLEAN
      BY <1>0, <2>2
    <2>6. excused' \in SUBSET Audit!Records
      BY <1>0, <2>2
    <2> QED
      BY <2>1, <2>3, <2>4, <2>5, <2>6
  <1>12. ASSUME NEW i \in DOMAIN log, Audit!Alter(i)
         PROVE  ThreadTypes' /\ faults' \in Nat /\ raced' = TRUE
                /\ UNCHANGED <<drawn, expired, alerts, returned, excused, processOf>>
    BY <1>0, <1>3, <1>12 DEF Audit!Alter, ThreadTypes, Audit!thread
  <1>13. ASSUME NEW w \in Writers, Audit!LogEvent(w) \/ Audit!Purge(w) \/ Audit!LogFailure(w)
         PROVE  \E k \in {"event", "purge", "alarm"} : Audit!BeginAppend(w, k)
    BY <1>13 DEF Audit!LogEvent, Audit!Purge, Audit!LogFailure
  <1> QED
    BY <1>0, <1>5, <1>c, <1>6, <1>7, <1>8, <1>9, <1>10, <1>11, <1>12, <1>13 DEF Audit!Next

\* A step that makes nobody busy, begins no append and touches no append's file.
LEMMA QuietLock ==
    ASSUME OneInLock, Alone,
           raced' = raced, processOf' = processOf,
           \A w \in Writers : Busy(w)' => Busy(w),
           \A w \in Writers : threadPc'[w] = "append" => threadPc[w] = "append" /\ last'[w] = last[w],
           log' = log \/ \E w \in Writers : Busy(w) /\ threadPc'[w] # "append"
    PROVE  OneInLock' /\ Alone'
  <1>1. OneInLock'
    BY DEF OneInLock
  <1>2. ASSUME ~raced, NEW w \in Writers, threadPc'[w] = "append"
        PROVE  last'[w] = Audit!LastEntryHash'
    <2>1. threadPc[w] = "append" /\ last'[w] = Audit!LastEntryHash /\ Busy(w)
      BY <1>2 DEF Alone, Busy
    <2>2. log' = log
      BY <1>2, <2>1 DEF Alone
    <2> QED
      BY <2>1, <2>2 DEF Audit!LastEntryHash
  <1> QED
    BY <1>1, <1>2 DEF Alone

\* The lock keeps the appends of a process apart, and raced records every other
\* overlap: one step per action.
LEMMA LockStep ==
    ASSUME AuditTypes, OneInLock, Alone, Audit!Next
    PROVE  OneInLock' /\ Alone'
  <1>0. /\ threadPc \in [Writers -> {"idle", "alarm", "append", "list", "empty", "rewrite"}]
        /\ last \in [Writers -> Seq(Audit!LineContents)] /\ raced \in BOOLEAN
    BY DEF AuditTypes, Audit!TypeOK
  <1>1. ASSUME NEW w \in Writers, NEW k, Audit!BeginAppend(w, k)
        PROVE  OneInLock' /\ Alone'
    <2>1. /\ threadPc' = [threadPc EXCEPT ![w] = "append"] /\ last' = [last EXCEPT ![w] = Audit!LastEntryHash]
          /\ Audit!LockFree(w) /\ raced' = (raced \/ Audit!Overlaps(w)) /\ UNCHANGED <<log, processOf>>
      BY <1>1 DEF Audit!BeginAppend
    <2>2. OneInLock'
      BY <1>0, <2>1 DEF OneInLock, Audit!LockFree
    <2>3. ASSUME ~raced'
          PROVE  ~raced /\ \A x \in Writers : ~Busy(x)
      BY <1>0, <2>1, <2>3 DEF Audit!Overlaps, Audit!LockFree, Busy
    <2>4. \A x \in Writers : x # w => (Busy(x)' <=> Busy(x))
      BY <1>0, <2>1 DEF Busy, Audit!Purging
    <2>5. Audit!LastEntryHash' = Audit!LastEntryHash
      BY <2>1 DEF Audit!LastEntryHash
    <2>6. ASSUME ~raced', NEW x \in Writers, threadPc'[x] = "append"
          PROVE  last'[x] = Audit!LastEntryHash'
      <3>1. x = w
        BY <1>0, <2>1, <2>3, <2>6 DEF Busy
      <3> QED
        BY <1>0, <2>1, <2>5, <3>1
    <2> QED
      BY <2>2, <2>3, <2>4, <2>6 DEF Alone
  <1>2. ASSUME NEW w \in Writers, Audit!AppendLine(w)
        PROVE  OneInLock' /\ Alone'
    <2>1. threadPc[w] = "append" /\ threadPc' \in {[threadPc EXCEPT ![w] = "list"], [threadPc EXCEPT ![w] = "idle"]}
      BY <1>2 DEF Audit!AppendLine, Audit!End
    <2>2. /\ UNCHANGED <<raced, processOf>>
          /\ \A x \in Writers : x # w => last'[x] = last[x]
      BY <1>0, <1>2 DEF Audit!AppendLine, Audit!End
    <2> QED
      BY <1>0, <2>1, <2>2, QuietLock DEF Busy, Audit!Purging
  <1>3. ASSUME NEW w \in Writers, NEW old, Audit!List(w, old)
        PROVE  OneInLock' /\ Alone'
    <2>1. /\ threadPc[w] = "list" /\ threadPc' = [threadPc EXCEPT ![w] = "empty"]
          /\ raced' = (raced \/ Audit!Crossed(w)) /\ UNCHANGED <<log, last, processOf>>
      BY <1>3 DEF Audit!List
    <2>2. OneInLock'
      BY <1>0, <2>1 DEF OneInLock
    <2>3. ASSUME ~raced', NEW x \in Writers, Busy(x)'
          PROVE  x = w
      BY <1>0, <2>1, <2>3 DEF Audit!Crossed, Busy, Audit!Purging
    <2>4. threadPc'[w] # "append"
      BY <1>0, <2>1
    <2> QED
      BY <2>2, <2>3, <2>4 DEF Alone, Busy
  <1>4. ASSUME NEW w \in Writers, Audit!ListRaises(w)
        PROVE  OneInLock' /\ Alone'
    <2>1. /\ threadPc[w] = "list" /\ threadPc' = [threadPc EXCEPT ![w] = "idle"]
          /\ last' = [last EXCEPT ![w] = <<>>] /\ UNCHANGED <<log, raced, processOf>>
      BY <1>4 DEF Audit!ListRaises, Audit!End, Audit!history, Audit!GENESIS_HASH
    <2> QED
      BY <1>0, <2>1, QuietLock DEF Busy, Audit!Purging
  <1>5. ASSUME NEW w \in Writers, Audit!Empty(w)
        PROVE  OneInLock' /\ Alone'
    <2>1. /\ threadPc[w] = "empty" /\ threadPc' = [threadPc EXCEPT ![w] = "rewrite"]
          /\ UNCHANGED <<last, raced, processOf>>
      BY <1>5 DEF Audit!Empty, Audit!history
    <2> QED
      BY <1>0, <2>1, QuietLock DEF Busy, Audit!Purging
  <1>6. ASSUME NEW w \in Writers, Audit!Rewrite(w)
        PROVE  OneInLock' /\ Alone'
    <2>1. /\ threadPc[w] = "rewrite" /\ threadPc' = [threadPc EXCEPT ![w] = "idle"] /\ processOf' = processOf
          /\ Audit!Crossed(w) => raced'
      BY <1>6 DEF Audit!Rewrite, Audit!End
    <2>2. OneInLock'
      BY <1>0, <2>1 DEF OneInLock
    <2>3. ASSUME ~raced', NEW x \in Writers
          PROVE  ~Busy(x)'
      BY <1>0, <2>1, <2>3 DEF Audit!Crossed, Busy, Audit!Purging
    <2> QED
      BY <2>2, <2>3 DEF Alone, Busy
  <1>7. ASSUME NEW w \in Writers, Audit!Die(w)
        PROVE  OneInLock' /\ Alone'
    <2>1. /\ threadPc' = [threadPc EXCEPT ![w] = "idle"] /\ last' = [last EXCEPT ![w] = <<>>]
          /\ processOf' = processOf /\ (raced' \/ UNCHANGED <<log, raced>>)
      BY <1>7 DEF Audit!Die, Audit!End, Audit!GENESIS_HASH
    <2>2. OneInLock'
      BY <1>0, <2>1 DEF OneInLock
    <2>3. CASE raced'
      BY <2>2, <2>3 DEF Alone
    <2>4. CASE UNCHANGED <<log, raced>>
      BY <1>0, <2>1, <2>4, QuietLock DEF Busy, Audit!Purging
    <2> QED
      BY <2>1, <2>3, <2>4
  <1>8. ASSUME NEW w \in Writers, Audit!CheckAuditIntegrity(w)
        PROVE  OneInLock' /\ Alone'
    <2>1. /\ threadPc[w] = "idle" /\ threadPc' = [threadPc EXCEPT ![w] = "alarm"]
          /\ UNCHANGED <<log, last, raced, processOf>>
      BY <1>8 DEF Audit!CheckAuditIntegrity, Audit!history
    <2> QED
      BY <1>0, <2>1, QuietLock DEF Busy, Audit!Purging
  <1>9. ASSUME NEW i \in DOMAIN log, Audit!Alter(i)
        PROVE  OneInLock' /\ Alone'
    BY <1>9 DEF Audit!Alter, Audit!thread, OneInLock, Alone
  <1> QED
    BY <1>1, <1>2, <1>3, <1>4, <1>5, <1>6, <1>7, <1>8, <1>9
       DEF Audit!Next, Audit!LogEvent, Audit!Purge, Audit!LogFailure

\* A step that leaves the log's chain whole, or says that it may not be.
LEMMA ChainKept ==
    ASSUME Audit!RecordsAssumption, AuditTypes, Alone, Audit!ChainHolds, Audit!Next
    PROVE  Audit!ChainHolds'
  <1>1. CASE log' = log /\ (raced' \/ raced' = raced)
    BY <1>1 DEF Audit!ChainHolds, Audit!Readable, Audit!VerifyChain
  <1>2. CASE raced' = TRUE
    BY <1>2 DEF Audit!ChainHolds
  <1>3. ASSUME NEW w \in Writers, Audit!AppendLine(w), ~raced'
        PROVE  Audit!Readable(log') /\ Audit!VerifyChain(log')
    <2> DEFINE e == Audit!Sealed(Audit!Content(record[w]), last[w])
    <2>1. ~raced /\ last[w] = Audit!LastEntryHash /\ threadPc[w] = "append"
      BY <1>3 DEF Audit!AppendLine, Alone
    <2>2. Audit!Readable(log) /\ Audit!VerifyChain(log) /\ log \in Seq(Line)
      BY <2>1 DEF Audit!ChainHolds, AuditTypes
    <2>3. ~Audit!LeftOpen
      BY <2>2 DEF Audit!LeftOpen, Audit!Readable
    <2>4. log' = Append(log, e)
      BY <1>3, <2>3 DEF Audit!AppendLine
    <2>5. record[w] \in Audit!Records /\ last[w] \in Seq(Audit!LineContents)
      BY <2>1 DEF AuditTypes
    <2>6. e \in Line
      BY <2>5, ContentTypes
    <2>7. /\ e.text = "whole" /\ e.prev = last[w] /\ e.hash = Append(e.prev, e.content)
      BY DEF Audit!Sealed
    <2> HIDE DEF e
    <2>8. /\ DOMAIN log' = 1 .. Len(log) + 1 /\ DOMAIN log = 1 .. Len(log) /\ Len(log) \in Nat
          /\ \A i \in 1 .. Len(log) : log'[i] = log[i]
          /\ log'[Len(log) + 1] = e
      BY <2>2, <2>4, <2>6
    <2>9. Audit!Readable(log')
      <3> SUFFICES ASSUME NEW i \in DOMAIN log'
                   PROVE  log'[i].text = "whole"
        BY DEF Audit!Readable
      <3>1. i \in 1 .. Len(log) \/ i = Len(log) + 1
        BY <2>8
      <3> QED
        BY <2>2, <2>7, <2>8, <3>1 DEF Audit!Readable
    <2>10. Audit!VerifyChain(log')
      <3> SUFFICES ASSUME NEW i \in DOMAIN log'
                   PROVE  /\ log'[i].prev = IF i = 1 THEN Audit!GENESIS_HASH ELSE log'[i - 1].hash
                          /\ log'[i].hash = Append(log'[i].prev, log'[i].content)
        BY DEF Audit!VerifyChain
      <3>1. CASE i \in 1 .. Len(log)
        <4>1. i # 1 => log'[i - 1] = log[i - 1]
          BY <2>8, <3>1
        <4> QED
          BY <2>2, <2>8, <3>1, <4>1 DEF Audit!VerifyChain
      <3>2. CASE i = Len(log) + 1
        <4>1. Audit!LastEntryHash = IF i = 1 THEN Audit!GENESIS_HASH ELSE log'[i - 1].hash
          BY <2>2, <2>8, <3>2 DEF Audit!LastEntryHash
        <4> QED
          BY <2>1, <2>7, <2>8, <3>2, <4>1
      <3> QED
        BY <2>8, <3>1, <3>2
    <2> QED
      BY <2>9, <2>10
  <1>4. ASSUME NEW w \in Writers, Audit!Rewrite(w), ~raced'
        PROVE  Audit!Readable(log') /\ Audit!VerifyChain(log')
    <2>1. PICK rest : /\ log' = Audit!Resealed(kept[w]) \o rest
                      /\ raced' = (rest # <<>> \/ Audit!Crossed(w))
      BY <1>4 DEF Audit!Rewrite
    <2>2. kept[w] \in Seq(Audit!LineContents)
      BY DEF AuditTypes
    <2>3. /\ Audit!Resealed(kept[w]) \in Seq(Line)
          /\ Audit!Readable(Audit!Resealed(kept[w])) /\ Audit!VerifyChain(Audit!Resealed(kept[w]))
      BY <2>2, ResealedIsAChain
    <2>4. rest = <<>>
      BY <1>4, <2>1
    <2>5. log' = Audit!Resealed(kept[w])
      BY <2>1, <2>3, <2>4, ConcatEmptySeq
    <2> QED
      BY <2>3, <2>5
  <1>5. ASSUME NEW w \in Writers, Audit!AppendLine(w) \/ Audit!Rewrite(w)
        PROVE  Audit!ChainHolds'
    BY <1>3, <1>4, <1>5 DEF Audit!ChainHolds
  <1>6. ASSUME NEW w \in Writers, Audit!Empty(w)
        PROVE  Audit!ChainHolds'
    BY <1>6 DEF Audit!Empty, Audit!ChainHolds, Audit!Readable, Audit!VerifyChain
  <1>7. ASSUME NEW w \in Writers, NEW k, Audit!BeginAppend(w, k)
        PROVE  log' = log /\ (raced' \/ raced' = raced)
    BY <1>7 DEF Audit!BeginAppend, AuditTypes, Audit!TypeOK
  <1>8. ASSUME NEW w \in Writers, NEW old, Audit!List(w, old)
        PROVE  log' = log /\ (raced' \/ raced' = raced)
    BY <1>8 DEF Audit!List, AuditTypes, Audit!TypeOK
  <1> QED
    BY <1>1, <1>2, <1>5, <1>6, <1>7, <1>8
       DEF Audit!Next, Audit!LogEvent, Audit!Purge, Audit!LogFailure, Audit!CheckAuditIntegrity,
           Audit!ListRaises, Audit!Die, Audit!Alter, Audit!history

\* Lines finds every whole line.
LEMMA LineFound ==
    ASSUME NEW lines \in Seq(Line), NEW i \in 1 .. Len(lines), lines[i].text = "whole"
    PROVE  lines[i].content.id \in Audit!Lines(lines)
  BY DEF Audit!Lines

\* A line at the end loses no record, and adds its own if it is whole.
LEMMA AppendedLines ==
    ASSUME NEW lines \in Seq(Line), NEW e \in Line
    PROVE  /\ Audit!Lines(lines) \subseteq Audit!Lines(Append(lines, e))
           /\ e.text = "whole" => e.content.id \in Audit!Lines(Append(lines, e))
  <1> DEFINE longer == Append(lines, e)
  <1>1. /\ longer \in Seq(Line) /\ Len(lines) \in Nat
        /\ Len(longer) = Len(lines) + 1 /\ longer[Len(lines) + 1] = e
        /\ \A i \in 1 .. Len(lines) : longer[i] = lines[i]
    OBVIOUS
  <1> HIDE DEF longer
  <1>2. ASSUME NEW i \in 1 .. Len(lines), lines[i].text = "whole"
        PROVE  lines[i].content.id \in Audit!Lines(longer)
    <2>1. i \in 1 .. Len(longer) /\ longer[i] = lines[i]
      BY <1>1
    <2> QED
      BY <1>1, <1>2, <2>1, LineFound
  <1>3. Audit!Lines(lines) \subseteq Audit!Lines(longer)
    BY <1>2 DEF Audit!Lines
  <1>4. ASSUME e.text = "whole"
        PROVE  e.content.id \in Audit!Lines(longer)
    <2>1. Len(lines) + 1 \in 1 .. Len(longer)
      BY <1>1
    <2> QED
      BY <1>1, <1>4, <2>1, LineFound
  <1> QED
    BY <1>3, <1>4 DEF longer

\* A line replaced by one that is no less readable loses no record.
LEMMA ReplacedLines ==
    ASSUME NEW lines \in Seq(Line), NEW i \in 1 .. Len(lines), NEW e \in Line,
           lines[i].text = "whole" => e.text = "whole" /\ e.content.id = lines[i].content.id
    PROVE  Audit!Lines(lines) \subseteq Audit!Lines([lines EXCEPT ![i] = e])
  <1> DEFINE other == [lines EXCEPT ![i] = e]
  <1>1. /\ other \in Seq(Line) /\ Len(other) = Len(lines)
        /\ \A j \in 1 .. Len(lines) : other[j] = IF j = i THEN e ELSE lines[j]
    BY ExceptSeq
  <1> HIDE DEF other
  <1>2. ASSUME NEW j \in 1 .. Len(lines), lines[j].text = "whole"
        PROVE  lines[j].content.id \in Audit!Lines(other)
    <2>1. j \in 1 .. Len(other) /\ other[j].text = "whole" /\ other[j].content.id = lines[j].content.id
      BY <1>1, <1>2
    <2>2. other[j].content.id \in Audit!Lines(other)
      BY <1>1, <2>1, LineFound
    <2> QED
      BY <2>1, <2>2
  <1>3. Audit!Lines(lines) \subseteq Audit!Lines(other)
    BY <1>2 DEF Audit!Lines
  <1> QED
    BY <1>3 DEF other

\* A step that owes no more events, drops no line and starts no purge.
LEMMA QuietStep ==
    ASSUME Audit!EventsAreKept, PurgesHold,
           Owed' \subseteq Owed,
           Audit!Lines(log) \subseteq Audit!Lines(log'),
           \A w \in Writers : Audit!Purging(w)' => Audit!Purging(w) /\ kept'[w] = kept[w],
           \A w \in Writers : threadPc[w] = "rewrite" => threadPc'[w] = "rewrite"
    PROVE  Audit!EventsAreKept' /\ PurgesHold'
  <1>1. Audit!EventsAreKept'
    <2> SUFFICES ASSUME \A w \in Writers : threadPc'[w] # "rewrite"
                 PROVE  Owed' \subseteq Audit!Lines(log)'
      BY DEF Audit!EventsAreKept, Owed
    <2>1. Owed \subseteq Audit!Lines(log)
      BY DEF Audit!EventsAreKept, Owed
    <2>2. Audit!Lines(log') = Audit!Lines(log)'
      BY DEF Audit!Lines
    <2> QED
      BY <2>1, <2>2
  <1>2. PurgesHold'
    <2> SUFFICES ASSUME NEW w \in Writers, Audit!Purging(w)'
                 PROVE  Owed' \subseteq KeptIds(w)'
      BY DEF PurgesHold
    <2>1. Owed \subseteq KeptIds(w) /\ kept'[w] = kept[w]
      BY DEF PurgesHold
    <2> QED
      BY <2>1 DEF KeptIds
  <1> QED
    BY <1>1, <1>2

\* EventsAreKept with what purges hold is inductive: one step per action.
LEMMA EventsStep ==
    ASSUME Audit!RecordsAssumption, AuditTypes, Audit!EventsAreKept, PurgesHold, Audit!Next
    PROVE  Audit!EventsAreKept' /\ PurgesHold'
  <1>0. /\ log \in Seq(Line) /\ Len(log) \in Nat /\ DOMAIN log = 1 .. Len(log)
        /\ threadPc \in [Writers -> {"idle", "alarm", "append", "list", "empty", "rewrite"}]
        /\ kept \in [Writers -> Seq(Audit!LineContents)]
        /\ returned \subseteq Audit!Records
    BY DEF AuditTypes, Audit!TypeOK
  <1>1. ASSUME NEW w \in Writers, NEW k, threadPc[w] \in {"idle", "alarm"}, Audit!BeginAppend(w, k)
        PROVE  Audit!EventsAreKept' /\ PurgesHold'
    <2>1. /\ threadPc[w] \in {"idle", "alarm"} /\ threadPc' = [threadPc EXCEPT ![w] = "append"]
          /\ UNCHANGED <<log, kept, expired, returned, excused>>
      BY <1>1 DEF Audit!BeginAppend
    <2> QED
      BY <1>0, <2>1, QuietStep DEF Owed, Audit!Purging
  <1>2. ASSUME NEW w \in Writers, Audit!AppendLine(w)
        PROVE  Audit!EventsAreKept' /\ PurgesHold'
    <2> DEFINE r == record[w]
               e == Audit!Sealed(Audit!Content(r), last[w])
    <2>1. /\ threadPc[w] = "append" /\ r \in Audit!Records /\ last[w] \in Seq(Audit!LineContents)
          /\ expired' = expired /\ returned' = returned \cup {r}
      BY <1>2 DEF Audit!AppendLine, AuditTypes
    <2>2. /\ e \in Line /\ Audit!Torn(FALSE) \in Line /\ e.text = "whole" /\ e.content.id = r
      BY <2>1, ContentTypes DEF Audit!Sealed, Audit!Content
    <2>3. threadPc' \in {[threadPc EXCEPT ![w] = "list"], [threadPc EXCEPT ![w] = "idle"]}
      BY <1>2 DEF Audit!AppendLine, Audit!End
    <2>4. \A x \in Writers : Audit!Purging(x)' => Audit!Purging(x) /\ kept'[x] = kept[x]
      BY <1>0, <1>2, <2>1, <2>3 DEF Audit!AppendLine, Audit!End, Audit!Purging
    <2>5. \A x \in Writers : threadPc[x] = "rewrite" => threadPc'[x] = "rewrite"
      BY <1>0, <2>1, <2>3
    <2> HIDE DEF r, e
    <2>6. Audit!Lines(log) \subseteq Audit!Lines(log')
      <3>1. CASE Audit!LeftOpen
        <4>1. /\ log' = [log EXCEPT ![Len(log)] = Audit!Torn(FALSE)] /\ Len(log) \in 1 .. Len(log)
              /\ log[Len(log)].text = "open"
          BY <1>0, <1>2, <3>1 DEF Audit!AppendLine, Audit!LeftOpen
        <4> QED
          BY <1>0, <2>2, <4>1, ReplacedLines
      <3>2. CASE ~Audit!LeftOpen
        <4>1. log' = Append(log, e)
          BY <1>2, <3>2 DEF Audit!AppendLine, e, r
        <4> QED
          BY <1>0, <2>2, <4>1, AppendedLines
      <3> QED
        BY <3>1, <3>2
    <2>7. CASE Audit!LeftOpen \/ \E x \in Writers : Audit!Purging(x)
      <3>1. excused' = excused \cup {r}
        BY <1>2, <2>7 DEF Audit!AppendLine, r
      <3>2. Owed' \subseteq Owed
        BY <2>1, <3>1 DEF Owed
      <3> QED
        BY <2>4, <2>5, <2>6, <3>2, QuietStep
    <2>8. CASE ~Audit!LeftOpen /\ \A x \in Writers : ~Audit!Purging(x)
      <3>1. log' = Append(log, e) /\ excused' = excused
        BY <1>2, <2>8 DEF Audit!AppendLine, e, r
      <3>2. Owed' \subseteq Owed \cup {r} /\ r \in Audit!Lines(log')
        BY <1>0, <2>1, <2>2, <3>1, AppendedLines DEF Owed
      <3>3. Owed \subseteq Audit!Lines(log)
        BY <2>8 DEF Audit!EventsAreKept, Owed, Audit!Purging
      <3>4. Audit!Lines(log') = Audit!Lines(log)'
        BY DEF Audit!Lines
      <3>5. Audit!EventsAreKept'
        BY <2>6, <3>2, <3>3, <3>4 DEF Audit!EventsAreKept, Owed
      <3>6. PurgesHold'
        BY <2>4, <2>8 DEF PurgesHold
      <3> QED
        BY <3>5, <3>6
    <2> QED
      BY <2>7, <2>8
  <1>3. ASSUME NEW w \in Writers, NEW old \in SUBSET Audit!Lines(log), Audit!List(w, old)
        PROVE  Audit!EventsAreKept' /\ PurgesHold'
    <2>1. /\ threadPc[w] = "list" /\ Audit!Readable(log) /\ log' = log /\ returned' = returned
          /\ expired' = expired \cup old /\ threadPc' = [threadPc EXCEPT ![w] = "empty"]
          /\ kept' = [kept EXCEPT ![w] = Audit!FilterExpired(Audit!Listed, expired')]
          /\ excused' = IF Audit!ListsNothing(w) THEN Audit!Records ELSE excused
      BY <1>3 DEF Audit!List
    <2>2. CASE Audit!ListsNothing(w)
      <3>1. Owed' = {}
        BY <1>0, <2>1, <2>2 DEF Owed
      <3> QED
        BY <3>1 DEF Audit!EventsAreKept, PurgesHold, Owed
    <2>3. CASE ~Audit!ListsNothing(w)
      <3>1. Owed' \subseteq Owed /\ Owed' \cap expired' = {}
        BY <2>1, <2>3 DEF Owed
      <3>2. \A x \in Writers : threadPc[x] # "rewrite" /\ threadPc'[x] # "rewrite"
        BY <1>0, <2>1, <2>3 DEF Audit!ListsNothing
      <3>3. Owed \subseteq Audit!Lines(log)
        BY <3>2 DEF Audit!EventsAreKept, Owed
      <3>4. Audit!EventsAreKept'
        <4>1. Audit!Lines(log)' = Audit!Lines(log)
          BY <2>1 DEF Audit!Lines
        <4> QED
          BY <3>1, <3>3, <4>1 DEF Audit!EventsAreKept, Owed
      <3>5. ASSUME NEW n \in Owed'
            PROVE  n \in KeptIds(w)'
        <4>1. PICK i \in DOMAIN log : log[i].content.id = n
          BY <3>1, <3>3, <3>5 DEF Audit!Lines
        <4>2. Audit!Listed \in Seq(Audit!LineContents) /\ i \in DOMAIN Audit!Listed /\ Audit!Listed[i].id = n
          <5>1. log \in [1 .. Len(log) -> Line]
            BY <1>0
          <5>2. Audit!Listed \in [1 .. Len(log) -> Audit!LineContents]
            BY <1>0, <5>1 DEF Audit!Listed, Line
          <5> QED
            BY <1>0, <4>1, <5>2, SeqDef DEF Audit!Listed
        <4>3. n \notin expired'
          BY <3>1, <3>5
        <4>4. ASSUME NEW gone, n \notin gone
              PROVE  \E k \in DOMAIN Audit!FilterExpired(Audit!Listed, gone) :
                         Audit!FilterExpired(Audit!Listed, gone)[k].id = n
          <5>1. Audit!Listed[i].id \notin gone
            BY <4>2, <4>4
          <5>2. \E k \in DOMAIN Audit!FilterExpired(Audit!Listed, gone) :
                    Audit!FilterExpired(Audit!Listed, gone)[k].id = Audit!Listed[i].id
            BY <4>2, <5>1, FilterFinds
          <5> QED
            BY <4>2, <5>2
        <4>5. kept'[w] = Audit!FilterExpired(Audit!Listed, expired')
          BY <1>0, <2>1
        <4>6. \E k \in DOMAIN Audit!FilterExpired(Audit!Listed, expired') :
                  Audit!FilterExpired(Audit!Listed, expired')[k].id = n
          BY <4>3, <4>4
        <4> QED
          BY <4>5, <4>6 DEF KeptIds
      <3>6. ASSUME NEW x \in Writers, x # w, Audit!Purging(x)'
            PROVE  Owed' \subseteq KeptIds(x)'
        <4>1. Audit!Purging(x) /\ kept'[x] = kept[x]
          BY <1>0, <2>1, <3>6 DEF Audit!Purging
        <4> QED
          BY <3>1, <4>1 DEF PurgesHold, KeptIds
      <3> QED
        BY <3>4, <3>5, <3>6 DEF PurgesHold
    <2> QED
      BY <2>2, <2>3
  <1>4. ASSUME NEW w \in Writers, Audit!ListRaises(w)
        PROVE  Audit!EventsAreKept' /\ PurgesHold'
    <2>1. /\ threadPc[w] = "list" /\ threadPc' = [threadPc EXCEPT ![w] = "idle"] /\ kept' = [kept EXCEPT ![w] = <<>>]
          /\ UNCHANGED <<log, expired, returned, excused>>
      BY <1>4 DEF Audit!ListRaises, Audit!End, Audit!history
    <2> QED
      BY <1>0, <2>1, QuietStep DEF Owed, Audit!Purging
  <1>5. ASSUME NEW w \in Writers, Audit!Empty(w)
        PROVE  Audit!EventsAreKept' /\ PurgesHold'
    <2>1. /\ threadPc[w] = "empty" /\ threadPc' = [threadPc EXCEPT ![w] = "rewrite"]
          /\ UNCHANGED <<kept, expired, returned, excused>>
      BY <1>5 DEF Audit!Empty, Audit!history
    <2>2. Audit!EventsAreKept'
      BY <1>0, <2>1 DEF Audit!EventsAreKept
    <2>3. PurgesHold'
      BY <1>0, <2>1 DEF PurgesHold, Audit!Purging, KeptIds, Owed
    <2> QED
      BY <2>2, <2>3
  <1>6. ASSUME NEW w \in Writers, Audit!Rewrite(w)
        PROVE  Audit!EventsAreKept' /\ PurgesHold'
    <2>1. PICK rest \in {<<>>} \cup (IF log = <<>> THEN {} ELSE {<<Audit!Torn(Audit!LeftOpen)>>}) :
               log' = Audit!Resealed(kept[w]) \o rest
      BY <1>6 DEF Audit!Rewrite
    <2>2. /\ threadPc[w] = "rewrite" /\ threadPc' = [threadPc EXCEPT ![w] = "idle"]
          /\ kept' = [kept EXCEPT ![w] = <<>>]
          /\ UNCHANGED <<expired, returned, excused>>
      BY <1>6 DEF Audit!Rewrite, Audit!End
    <2>3. Owed' = Owed /\ Owed \subseteq KeptIds(w)
      BY <2>2 DEF Owed, PurgesHold, Audit!Purging
    <2>4. KeptIds(w) \subseteq Audit!Lines(log')
      <3> DEFINE R == Audit!Resealed(kept[w])
      <3>1. /\ kept[w] \in Seq(Audit!LineContents) /\ R \in Seq(Line) /\ DOMAIN R = DOMAIN kept[w]
            /\ \A i \in DOMAIN kept[w] : R[i].content = kept[w][i] /\ R[i].text = "whole"
        BY <1>0, ResealedIsAChain DEF Audit!Readable
      <3> HIDE DEF R
      <3>2. KeptIds(w) \subseteq Audit!Lines(R)
        BY <3>1 DEF KeptIds, Audit!Lines
      <3>3. Audit!Lines(R) \subseteq Audit!Lines(R \o rest)
        <4>1. CASE rest = <<>>
          BY <3>1, <4>1, ConcatEmptySeq
        <4>2. CASE log # <<>> /\ rest = <<Audit!Torn(Audit!LeftOpen)>>
          <5>1. log[1] \in Line
            BY <1>0, <4>2
          <5>2. log[1].content.id \in Audit!Records /\ Audit!LeftOpen \in BOOLEAN
            BY <5>1 DEF Line, Audit!LineContents, Audit!LeftOpen
          <5>3. Audit!Torn(Audit!LeftOpen) \in Line
            BY <5>2, ContentTypes
          <5>4. R \o rest = Append(R, Audit!Torn(Audit!LeftOpen))
            BY <3>1, <4>2, <5>3, AppendIsConcat
          <5> QED
            BY <3>1, <5>3, <5>4, AppendedLines
        <4> QED
          BY <2>1, <4>1, <4>2
      <3> QED
        BY <2>1, <3>2, <3>3 DEF R
    <2>5. Audit!Lines(log') = Audit!Lines(log)'
      BY DEF Audit!Lines
    <2>6. Audit!EventsAreKept'
      BY <2>3, <2>4, <2>5 DEF Audit!EventsAreKept, Owed
    <2>7. PurgesHold'
      <3> SUFFICES ASSUME NEW x \in Writers, Audit!Purging(x)'
                   PROVE  Owed' \subseteq KeptIds(x)'
        BY DEF PurgesHold
      <3>1. Audit!Purging(x) /\ kept'[x] = kept[x]
        BY <1>0, <2>2 DEF Audit!Purging
      <3> QED
        BY <2>3, <3>1 DEF PurgesHold, KeptIds
    <2> QED
      BY <2>6, <2>7
  <1>7. ASSUME NEW w \in Writers, Audit!Die(w)
        PROVE  Audit!EventsAreKept' /\ PurgesHold'
    <2>1. /\ threadPc' = [threadPc EXCEPT ![w] = "idle"] /\ kept' = [kept EXCEPT ![w] = <<>>]
          /\ expired' = expired /\ returned' = returned
          /\ excused' = IF threadPc[w] = "rewrite" THEN Audit!Records ELSE excused
      BY <1>7 DEF Audit!Die, Audit!End
    <2>2. CASE threadPc[w] = "rewrite"
      <3>1. Owed' = {}
        BY <1>0, <2>1, <2>2 DEF Owed
      <3> QED
        BY <3>1 DEF Audit!EventsAreKept, PurgesHold, Owed
    <2>3. CASE threadPc[w] # "rewrite"
      <3>1. Audit!Lines(log) \subseteq Audit!Lines(log')
        <4>1. CASE threadPc[w] = "append" /\ log' = Append(log, Audit!Torn(TRUE))
          <5>1. record[w] \in Audit!Records
            BY <4>1 DEF AuditTypes
          <5>2. Audit!Torn(TRUE) \in Line
            BY <5>1, ContentTypes
          <5> QED
            BY <1>0, <4>1, <5>2, AppendedLines
        <4> QED
          BY <1>7, <4>1 DEF Audit!Die
      <3> QED
        BY <1>0, <2>1, <2>3, <3>1, QuietStep DEF Owed, Audit!Purging
    <2> QED
      BY <2>2, <2>3
  <1>8. ASSUME NEW i \in DOMAIN log, Audit!Alter(i)
        PROVE  Audit!EventsAreKept' /\ PurgesHold'
    <2> DEFINE e == [log[i] EXCEPT !.content.altered = TRUE]
    <2>1. log[i] \in Line /\ i \in 1 .. Len(log)
      BY <1>0
    <2>2. e \in Line /\ e.text = log[i].text /\ e.content.id = log[i].content.id
      BY <2>1 DEF Line, Audit!LineContents
    <2>3. log' = [log EXCEPT ![i] = e] /\ UNCHANGED <<threadPc, kept, expired, returned, excused>>
      BY <1>8 DEF Audit!Alter, Audit!thread
    <2> HIDE DEF e
    <2>4. Audit!Lines(log) \subseteq Audit!Lines(log')
      BY <1>0, <2>1, <2>2, <2>3, ReplacedLines
    <2> QED
      BY <2>3, <2>4, QuietStep DEF Owed, Audit!Purging
  <1>9. ASSUME NEW w \in Writers, Audit!CheckAuditIntegrity(w)
        PROVE  Audit!EventsAreKept' /\ PurgesHold'
    <2>1. /\ threadPc[w] = "idle" /\ threadPc' = [threadPc EXCEPT ![w] = "alarm"]
          /\ UNCHANGED <<log, kept, expired, returned, excused>>
      BY <1>9 DEF Audit!CheckAuditIntegrity, Audit!history
    <2> QED
      BY <1>0, <2>1, QuietStep DEF Owed, Audit!Purging
  <1> QED
    BY <1>1, <1>2, <1>3, <1>4, <1>5, <1>6, <1>7, <1>8, <1>9 DEF Audit!Next, Audit!LogEvent, Audit!Purge,
       Audit!LogFailure

\* AuditInv holds of an empty log, every step keeps it, and so it always holds,
\* whatever the other parts do.
LEMMA AuditStart == Audit!RecordsAssumption /\ Audit!Init => AuditInv
  <1> SUFFICES ASSUME Audit!RecordsAssumption, Audit!Init
               PROVE  AuditInv
    OBVIOUS
  <1>1. log = <<>> /\ DOMAIN log = {} /\ <<>> \in Seq(Audit!LineContents) /\ <<>> \in Seq(Line)
    BY DEF Audit!Init
  <1>2. AuditTypes
    <2>1. Audit!TypeOK
      <3>1. 0 \in 0 .. MaxRecords /\ 0 \in Nat
        BY DEF Audit!RecordsAssumption
      <3>2. /\ threadPc \in [Writers -> {"idle", "alarm", "append", "list", "empty", "rewrite"}]
            /\ kind \in [Writers -> {"none", "event", "purge", "alarm"}]
            /\ record \in [Writers -> 0 .. MaxRecords]
        BY <3>1 DEF Audit!Init
      <3>3. /\ expired = {} /\ returned = {} /\ excused = {} /\ raced = FALSE
            /\ drawn = 0 /\ alerts = 0 /\ faults = 0 /\ processOf \in Placements
        BY DEF Audit!Init
      <3> QED
        BY <1>1, <3>1, <3>2, <3>3 DEF Audit!TypeOK
    <2>2. /\ last \in [Writers -> Seq(Audit!LineContents)] /\ kept \in [Writers -> Seq(Audit!LineContents)]
          /\ \A w \in Writers : threadPc[w] = "idle"
      BY <1>1 DEF Audit!Init, Audit!GENESIS_HASH
    <2> QED
      BY <1>1, <2>1, <2>2 DEF AuditTypes
  <1>3. Audit!ChainHolds
    BY <1>1 DEF Audit!ChainHolds, Audit!Readable, Audit!VerifyChain
  <1>4. Audit!EventsAreKept /\ PurgesHold
    BY DEF Audit!Init, Audit!EventsAreKept, PurgesHold, Audit!Purging
  <1>5. OneInLock /\ Alone
    BY DEF Audit!Init, OneInLock, Alone, Busy, Audit!Purging
  <1> QED
    BY <1>2, <1>3, <1>4, <1>5 DEF AuditInv

LEMMA AuditStep == Audit!RecordsAssumption /\ AuditInv /\ [Audit!Next]_(Audit!vars) => AuditInv'
  <1> SUFFICES ASSUME Audit!RecordsAssumption, AuditInv, [Audit!Next]_(Audit!vars)
               PROVE  AuditInv'
    OBVIOUS
  <1>1. CASE Audit!Next
    BY <1>1, TypesKept, LockStep, ChainKept, EventsStep DEF AuditInv
  <1>2. CASE UNCHANGED Audit!vars
    <2>1. UNCHANGED <<log, processOf, drawn, expired, alerts, faults, threadPc, kind, record, last, kept,
                      returned, excused, raced>>
      BY <1>2 DEF Audit!vars, Audit!thread, Audit!history
    <2>2. AuditTypes'
      BY <2>1 DEF AuditInv, AuditTypes, Audit!TypeOK
    <2>3. Audit!ChainHolds'
      BY <2>1 DEF AuditInv, Audit!ChainHolds, Audit!Readable, Audit!VerifyChain
    <2>4. Audit!EventsAreKept' /\ PurgesHold'
      BY <2>1 DEF AuditInv, Audit!EventsAreKept, Audit!Lines, PurgesHold, Audit!Purging, Owed, KeptIds
    <2>5. OneInLock' /\ Alone'
      BY <2>1 DEF AuditInv, OneInLock, Alone, Busy, Audit!Purging, Audit!LastEntryHash
    <2> QED
      BY <2>2, <2>3, <2>4, <2>5 DEF AuditInv
  <1> QED
    BY <1>1, <1>2

LEMMA AuditAlways == ServicesSpec => []AuditInv
  <1>1. ServicesInit => AuditInv
    BY ServicesAssumption, AuditStart DEF ServicesInit
  <1>2. AuditInv /\ [ServicesNext]_services => AuditInv'
    <2>1. [ServicesNext]_services => [Audit!Next]_(Audit!vars)
      BY DEF ServicesNext, services, auditVars, Audit!vars, Audit!thread, Audit!history
    <2> QED
      BY <2>1, ServicesAssumption, AuditStep
  <1> QED
    BY <1>1, <1>2, PTL DEF ServicesSpec, services

\* An event whose logging returned stays in the log until its retention is over,
\* with the excuses EventsAreKept names: purge_expired_file drops no other.
THEOREM LoggedEventsAreKept == ServicesSpec => []EventsAreKept
  <1>1. AuditInv => EventsAreKept
    BY DEF AuditInv, EventsAreKept
  <1> QED
    BY <1>1, AuditAlways, PTL

\* The chain of hashes verifies unless, since a purge last sealed the log whole, an
\* append overlapped one of another process or a purge, two purges overlapped, or a
\* line was torn or altered: the appends of one process the lock keeps apart.
THEOREM ChainVerifies == ServicesSpec => []ChainHolds
  <1>1. AuditInv => ChainHolds
    BY DEF AuditInv, ChainHolds
  <1> QED
    BY <1>1, AuditAlways, PTL

\* No other step than check_audit_integrity's alerts.
LEMMA OnlyChecksAlert ==
    ASSUME AuditTypes, Audit!Next, alerts' > alerts
    PROVE  \E w \in Writers : Audit!CheckAuditIntegrity(w)
  <1>1. alerts \in Nat
    BY DEF AuditTypes, Audit!TypeOK
  <1>2. alerts' # alerts
    BY <1>1
  <1> QED
    BY <1>2 DEF Audit!Next, Audit!LogEvent, Audit!Purge, Audit!BeginAppend, Audit!LogFailure, Audit!AppendLine,
                Audit!List, Audit!ListRaises, Audit!Empty, Audit!Rewrite, Audit!Die, Audit!Alter, Audit!End

\* check_audit_integrity raises an alarm only about a chain that an overlap, a
\* death or an alteration may have broken, or about a log longer than it reads.
THEOREM AlertsNeedBrokenChains == ServicesSpec => AlertsAreOfBrokenChains
  <1>1. ASSUME AuditInv, [ServicesNext]_services
        PROVE  [alerts' > alerts => raced \/ Len(log) > Limit]_(Audit!vars)
    <2> SUFFICES ASSUME Audit!Next, alerts' > alerts, ~raced, ~(Len(log) > Limit)
                 PROVE  FALSE
      BY <1>1 DEF ServicesNext, services, auditVars, Audit!vars, Audit!thread, Audit!history
    <2>1. PICK w \in Writers : Audit!CheckAuditIntegrity(w)
      BY <1>1, OnlyChecksAlert DEF AuditInv
    <2>2. Audit!LastLines(log) = log
      BY <1>1 DEF AuditInv, AuditTypes, Audit!LastLines
    <2>3. Audit!VerifyChain(log)
      BY <1>1 DEF AuditInv, Audit!ChainHolds
    <2> QED
      BY <2>1, <2>2, <2>3 DEF Audit!CheckAuditIntegrity
  <1> QED
    BY <1>1, AuditAlways, PTL DEF ServicesSpec, services, AlertsAreOfBrokenChains, Audit!AlertsAreOfBrokenChains

-----------------------------------------------------------------------------
(***************************************************************************)
(* The subscriptions.  NumbersInv is about what is true while calls are    *)
(* under way: until a confirmation has been to SNS, the topic holds the    *)
(* number only under the ARN of a confirmed item.                          *)
(***************************************************************************)
\* No confirmation is between SNS and its write.
NoneJoined == \A i \in Invocations : apiPc[i] # "confirm"

\* A call has a number, a text a code, and nobody subscribes a confirmed number.
CallsSound ==
    \A i \in Invocations :
        /\ apiPc[i] # "idle" => id[i] # 0
        /\ apiPc[i] = "text" => read[i].code # 0
        /\ apiPc[i] = "put" => read[i].status # "confirmed"

\* What the topic holds once the number was taken out of it, while no confirmation
\* is under way, and while no call is between SNS and its write.
LeavingEmpties ==
    \A i \in Invocations :
        ~apart /\ NoneJoined /\ apiPc[i] = "unsubscribe" /\ ~Numbers!Overwrites(i) => topic = 0
TopicIsItems == ~apart /\ NoneJoined => topic = 0 \/ (item.status = "confirmed" /\ item.arn = topic)
ConfirmedHasTopic == ~apart /\ ~Numbers!Between(Invocations) /\ item.status = "confirmed" => topic # 0

NumbersInv == Numbers!TypeOK /\ CallsSound /\ LeavingEmpties /\ TopicIsItems /\ ConfirmedHasTopic

\* What every call keeps, by whatever End does to the invocation.
CallTypes ==
    /\ apiPc \in [Invocations -> {"idle", "put", "text", "join", "confirm", "leave", "unsubscribe"}]
    /\ id \in [Invocations -> 0 .. MaxCalls] /\ read \in [Invocations -> Numbers!Item]
    /\ arn \in [Invocations -> 0 .. MaxCalls]

\* A call that ends keeps them.
LEMMA CallEnds == ASSUME Numbers!CallsAssumption, CallTypes, NEW i \in Invocations, Numbers!End(i) PROVE CallTypes'
  <1>1. 0 \in 0 .. MaxCalls /\ Numbers!Absent \in Numbers!Item
    BY DEF Numbers!CallsAssumption, Numbers!Absent, Numbers!Item
  <1> QED
    BY <1>1 DEF CallTypes, Numbers!End, Numbers!Goto

\* Every call keeps the types.
LEMMA NumbersTypes ==
    ASSUME Numbers!CallsAssumption, NumbersInv, Numbers!Next
    PROVE  Numbers!TypeOK'
  <1> USE DEF NumbersInv, Numbers!TypeOK, Numbers!CallsAssumption, Numbers!Item, Numbers!Absent, Numbers!Calls,
             Numbers!Goto, Numbers!invocation, Numbers!Save
  <1>1. ASSUME NEW i \in Invocations, NEW found \in former \cup {item}, NEW step \in {"put", "join", "leave"},
               Numbers!Begin(i, found, step)
        PROVE  Numbers!TypeOK'
    BY <1>1 DEF Numbers!Begin
  <1>2. ASSUME NEW i \in Invocations, Numbers!PutItem(i)
        PROVE  Numbers!TypeOK'
    BY <1>2 DEF Numbers!PutItem
  <1>a. CallTypes
    BY DEF CallTypes
  <1>b. ASSUME NEW i \in Invocations, Numbers!End(i)
        PROVE  CallTypes'
    BY <1>a, <1>b, CallEnds
  <1>3. ASSUME NEW i \in Invocations, Numbers!SendSms(i)
        PROVE  Numbers!TypeOK'
    <2>1. read[i].code \in Numbers!Calls
      <3>1. apiPc[i] = "text" /\ read[i].code # 0
        BY <1>3 DEF Numbers!SendSms, CallsSound
      <3>2. read[i].code \in 0 .. MaxCalls
        OBVIOUS
      <3> QED
        BY <3>1, <3>2
    <2>2. texted' \in SUBSET Numbers!Calls
      BY <1>3, <2>1 DEF Numbers!SendSms
    <2> QED
      BY <1>3, <1>b, <2>2 DEF Numbers!SendSms, CallTypes
  <1>4. ASSUME NEW i \in Invocations, Numbers!SnsSubscribe(i)
        PROVE  Numbers!TypeOK'
    <2>1. topic' \in {topic, id[i]}
      BY <1>4 DEF Numbers!SnsSubscribe
    <2>2. topic' \in 0 .. MaxCalls
      BY <2>1
    <2>3. arn' = [arn EXCEPT ![i] = topic'] \/ arn' = arn
      BY <1>4 DEF Numbers!SnsSubscribe
    <2>4. arn' \in [Invocations -> 0 .. MaxCalls]
      BY <2>2, <2>3
    <2>5. apart' \in BOOLEAN
      BY <1>4 DEF Numbers!SnsSubscribe
    <2> QED
      BY <1>4, <2>2, <2>4, <2>5 DEF Numbers!SnsSubscribe
  <1>5. ASSUME NEW i \in Invocations, Numbers!SaveConfirmed(i)
        PROVE  Numbers!TypeOK'
    <2>1. item' \in Numbers!Item /\ former' \in SUBSET Numbers!Item /\ apart' \in BOOLEAN
      BY <1>5 DEF Numbers!SaveConfirmed
    <2> QED
      BY <1>5, <1>b, <2>1 DEF Numbers!SaveConfirmed, CallTypes
  <1>6. ASSUME NEW i \in Invocations, Numbers!SnsUnsubscribe(i)
        PROVE  Numbers!TypeOK'
    <2>1. topic' \in {topic, 0} /\ apart' \in {apart, TRUE}
      BY <1>6 DEF Numbers!SnsUnsubscribe
    <2>2. topic' \in 0 .. MaxCalls
      BY <2>1
    <2>3. apart' \in BOOLEAN
      BY <2>1
    <2>4. /\ apiPc' \in [Invocations -> {"idle", "put", "text", "join", "confirm", "leave", "unsubscribe"}]
          /\ UNCHANGED <<item, former, texted, calls, id, read, arn>>
      BY <1>6 DEF Numbers!SnsUnsubscribe
    <2> QED
      BY <2>2, <2>3, <2>4
  <1>7. ASSUME NEW i \in Invocations, Numbers!SaveUnsubscribed(i)
        PROVE  Numbers!TypeOK'
    <2>1. item' \in Numbers!Item /\ former' \in SUBSET Numbers!Item /\ apart' \in BOOLEAN
      BY <1>7 DEF Numbers!SaveUnsubscribed
    <2> QED
      BY <1>7, <1>b, <2>1 DEF Numbers!SaveUnsubscribed, CallTypes
  <1>8. ASSUME NEW i \in Invocations, Numbers!Die(i)
        PROVE  Numbers!TypeOK'
    <2>1. apart' \in BOOLEAN
      BY <1>8 DEF Numbers!Die
    <2> QED
      BY <1>8, <1>b, <2>1 DEF Numbers!Die, CallTypes
  <1>9. CASE Numbers!Pass
    BY <1>9 DEF Numbers!Pass
  <1> QED
    BY <1>1, <1>2, <1>3, <1>4, <1>5, <1>6, <1>7, <1>8, <1>9 DEF Numbers!Next, Numbers!Confirm,
       Numbers!Subscribe, Numbers!Unsubscribe

\* Every call stays sound.
LEMMA CallsStaySound ==
    ASSUME Numbers!CallsAssumption, NumbersInv, Numbers!Next
    PROVE  CallsSound'
  <1>0. /\ CallsSound /\ calls \in Nat
        /\ apiPc \in [Invocations -> {"idle", "put", "text", "join", "confirm", "leave", "unsubscribe"}]
        /\ id \in [Invocations -> 0 .. MaxCalls] /\ read \in [Invocations -> Numbers!Item]
    BY DEF NumbersInv, Numbers!TypeOK, Numbers!CallsAssumption
  <1>1. ASSUME NEW i \in Invocations, NEW found \in former \cup {item}, NEW step \in {"put", "join", "leave"},
               Numbers!Begin(i, found, step), step = "put" => found.status # "confirmed"
        PROVE  CallsSound'
    <2>1. /\ apiPc' = [apiPc EXCEPT ![i] = step] /\ id' = [id EXCEPT ![i] = calls + 1]
          /\ read' = [read EXCEPT ![i] = found]
      BY <1>1 DEF Numbers!Begin, Numbers!Goto
    <2> QED
      BY <1>0, <1>1, <2>1 DEF CallsSound
  <1>2. ASSUME NEW i \in Invocations, Numbers!PutItem(i)
        PROVE  CallsSound'
    <2>1. /\ apiPc[i] = "put" /\ apiPc' = [apiPc EXCEPT ![i] = "text"] /\ id' = id
          /\ read' = [read EXCEPT ![i] = item'] /\ item'.code = id[i]
      BY <1>2 DEF Numbers!PutItem, Numbers!Goto, Numbers!Save
    <2> QED
      BY <1>0, <2>1 DEF CallsSound
  <1>3. ASSUME NEW i \in Invocations, Numbers!End(i)
        PROVE  CallsSound'
    BY <1>0, <1>3 DEF Numbers!End, Numbers!Goto, CallsSound
  <1>4. ASSUME NEW i \in Invocations, NEW step \in {"confirm", "unsubscribe"}, apiPc[i] \in {"join", "leave"},
               apiPc' = [apiPc EXCEPT ![i] = step], id' = id, read' = read
        PROVE  CallsSound'
    BY <1>0, <1>4 DEF CallsSound
  <1>5. ASSUME NEW i \in Invocations, Numbers!SnsSubscribe(i) \/ Numbers!SnsUnsubscribe(i)
        PROVE  CallsSound'
    BY <1>4, <1>5 DEF Numbers!SnsSubscribe, Numbers!SnsUnsubscribe, Numbers!Goto
  <1>6. CASE Numbers!Pass
    BY <1>0, <1>6 DEF Numbers!Pass, Numbers!invocation, CallsSound
  <1>7. ASSUME NEW i \in Invocations,
               \/ Numbers!SendSms(i) \/ Numbers!SaveConfirmed(i) \/ Numbers!SaveUnsubscribed(i) \/ Numbers!Die(i)
        PROVE  CallsSound'
    BY <1>3, <1>7 DEF Numbers!SendSms, Numbers!SaveConfirmed, Numbers!SaveUnsubscribed, Numbers!Die
  <1> QED
    BY <1>1, <1>2, <1>5, <1>6, <1>7 DEF Numbers!Next, Numbers!Confirm, Numbers!Subscribe, Numbers!Unsubscribe

\* A call that does not touch item and topic, before it has been to SNS, changes
\* nothing of what is known of the topic.
LEMMA QuietCall ==
    ASSUME NumbersInv, NEW i \in Invocations, item' = item, topic' = topic, ~apart' => ~apart,
           apiPc[i] \notin {"confirm", "unsubscribe"}, apiPc'[i] \notin {"confirm", "unsubscribe"},
           \A j \in Invocations \ {i} : apiPc'[j] = apiPc[j] /\ read'[j] = read[j]
    PROVE  LeavingEmpties' /\ TopicIsItems' /\ ConfirmedHasTopic'
  <1>1. (NoneJoined' <=> NoneJoined) /\ (Numbers!Between(Invocations)' <=> Numbers!Between(Invocations))
    BY DEF NoneJoined, Numbers!Between
  <1>2. LeavingEmpties'
    <2> SUFFICES ASSUME NEW j \in Invocations, ~apart', NoneJoined', apiPc'[j] = "unsubscribe",
                        ~Numbers!Overwrites(j)'
                 PROVE  topic' = 0
      BY DEF LeavingEmpties
    <2>1. j # i
      OBVIOUS
    <2>2. ~Numbers!Overwrites(j)
      BY <2>1 DEF Numbers!Overwrites
    <2> QED
      BY <1>1, <2>1, <2>2 DEF NumbersInv, LeavingEmpties
  <1>3. TopicIsItems' /\ ConfirmedHasTopic'
    BY <1>1 DEF NumbersInv, TopicIsItems, ConfirmedHasTopic
  <1> QED
    BY <1>2, <1>3

\* What is known of the topic is inductive: one step per call.
LEMMA TopicStep ==
    ASSUME Numbers!CallsAssumption, NumbersInv, Numbers!Next
    PROVE  LeavingEmpties' /\ TopicIsItems' /\ ConfirmedHasTopic'
  <1>0. /\ CallsSound /\ LeavingEmpties /\ TopicIsItems /\ ConfirmedHasTopic /\ item \in Numbers!Item
        /\ apiPc \in [Invocations -> {"idle", "put", "text", "join", "confirm", "leave", "unsubscribe"}]
        /\ read \in [Invocations -> Numbers!Item] /\ arn \in [Invocations -> 0 .. MaxCalls]
    BY DEF NumbersInv, Numbers!TypeOK
  <1>s. ASSUME NEW i \in Invocations, ~Numbers!Overwrites(i)
        PROVE  item.status = read[i].status /\ item.arn = read[i].arn
    <2>1. item \in Numbers!Item /\ read[i] \in Numbers!Item
      BY <1>0
    <2>2. [item EXCEPT !.stale = FALSE] = [read[i] EXCEPT !.stale = FALSE]
      BY <1>s DEF Numbers!Overwrites
    <2>3. \A x \in Numbers!Item :
            [x EXCEPT !.stale = FALSE].status = x.status /\ [x EXCEPT !.stale = FALSE].arn = x.arn
      BY DEF Numbers!Item
    <2> QED
      BY <2>1, <2>2, <2>3
  <1>1. ASSUME NEW i \in Invocations, NEW found \in former \cup {item}, NEW step \in {"put", "join", "leave"},
               Numbers!Begin(i, found, step)
        PROVE  LeavingEmpties' /\ TopicIsItems' /\ ConfirmedHasTopic'
    <2>1. /\ apiPc[i] = "idle" /\ apiPc' = [apiPc EXCEPT ![i] = step] /\ read' = [read EXCEPT ![i] = found]
          /\ UNCHANGED <<item, topic, apart>>
      BY <1>1 DEF Numbers!Begin, Numbers!Goto
    <2> QED
      BY <1>0, <2>1, QuietCall
  <1>2. ASSUME NEW i \in Invocations, Numbers!PutItem(i)
        PROVE  LeavingEmpties' /\ TopicIsItems' /\ ConfirmedHasTopic'
    <2>1. /\ apiPc[i] = "put" /\ apiPc' = [apiPc EXCEPT ![i] = "text"] /\ topic' = topic
          /\ item'.status = "pending" /\ (~apart' => ~apart /\ ~Numbers!Overwrites(i))
      BY <1>2 DEF Numbers!PutItem, Numbers!Goto, Numbers!Save
    <2>2. NoneJoined' => NoneJoined
      BY <1>0, <2>1 DEF NoneJoined
    <2>3. ~apart' => item.status # "confirmed"
      BY <1>0, <1>s, <2>1 DEF CallsSound
    <2>4. ~apart' /\ NoneJoined' => topic' = 0
      BY <1>0, <2>1, <2>2, <2>3 DEF TopicIsItems
    <2> QED
      BY <2>1, <2>4 DEF LeavingEmpties, TopicIsItems, ConfirmedHasTopic
  <1>3. ASSUME NEW i \in Invocations, Numbers!SendSms(i)
        PROVE  LeavingEmpties' /\ TopicIsItems' /\ ConfirmedHasTopic'
    <2>1. /\ apiPc[i] = "text" /\ apiPc' = [apiPc EXCEPT ![i] = "idle"]
          /\ read' = [read EXCEPT ![i] = Numbers!Absent] /\ UNCHANGED <<item, topic, apart>>
      BY <1>3 DEF Numbers!SendSms, Numbers!End, Numbers!Goto
    <2> QED
      BY <1>0, <2>1, QuietCall
  <1>4. ASSUME NEW i \in Invocations, Numbers!SnsSubscribe(i)
        PROVE  LeavingEmpties' /\ TopicIsItems' /\ ConfirmedHasTopic'
    <2>1. apiPc'[i] = "confirm"
      BY <1>0, <1>4 DEF Numbers!SnsSubscribe, Numbers!Goto
    <2>2. ~NoneJoined' /\ Numbers!Between(Invocations)'
      BY <2>1 DEF NoneJoined, Numbers!Between
    <2> QED
      BY <2>2 DEF LeavingEmpties, TopicIsItems, ConfirmedHasTopic
  <1>5. ASSUME NEW i \in Invocations, Numbers!SaveConfirmed(i)
        PROVE  LeavingEmpties' /\ TopicIsItems' /\ ConfirmedHasTopic'
    <2>1. /\ apiPc' = [apiPc EXCEPT ![i] = "idle"] /\ topic' = topic
          /\ item' = [item EXCEPT !.status = "confirmed", !.arn = arn[i]]
          /\ ~apart' => arn[i] = topic /\ topic # 0 /\ ~Numbers!Between(Invocations \ {i})
      BY <1>5 DEF Numbers!SaveConfirmed, Numbers!End, Numbers!Goto, Numbers!Save
    <2>2. item'.status = "confirmed" /\ item'.arn = arn[i]
      BY <1>0, <2>1 DEF Numbers!Item
    <2>3. ~apart' => \A j \in Invocations : apiPc'[j] # "unsubscribe"
      BY <1>0, <2>1 DEF Numbers!Between
    <2> QED
      BY <2>1, <2>2, <2>3 DEF LeavingEmpties, TopicIsItems, ConfirmedHasTopic
  <1>6. ASSUME NEW i \in Invocations, Numbers!SnsUnsubscribe(i)
        PROVE  LeavingEmpties' /\ TopicIsItems' /\ ConfirmedHasTopic'
    <2>1. /\ apiPc[i] = "leave" /\ apiPc' = [apiPc EXCEPT ![i] = "unsubscribe"] /\ item' = item /\ read' = read
          /\ ~apart' => ~apart /\ topic' = IF read[i].arn # 0 /\ read[i].arn = topic THEN 0 ELSE topic
      BY <1>6 DEF Numbers!SnsUnsubscribe, Numbers!Goto
    <2>2. (NoneJoined' => NoneJoined) /\ Numbers!Between(Invocations)'
      BY <1>0, <2>1 DEF NoneJoined, Numbers!Between
    <2>3. LeavingEmpties'
      <3> SUFFICES ASSUME NEW j \in Invocations, ~apart', NoneJoined', apiPc'[j] = "unsubscribe",
                          ~Numbers!Overwrites(j)'
                   PROVE  topic' = 0
        BY DEF LeavingEmpties
      <3>1. ~Numbers!Overwrites(j)
        BY <2>1 DEF Numbers!Overwrites
      <3>2. CASE j = i
        <4>1. topic = 0 \/ item.arn = topic
          BY <1>0, <2>1, <2>2 DEF TopicIsItems
        <4>2. item.arn = read[i].arn
          BY <1>s, <3>1, <3>2
        <4> QED
          BY <2>1, <4>1, <4>2
      <3>3. CASE j # i
        <4>1. topic = 0
          BY <1>0, <2>1, <2>2, <3>1, <3>3 DEF LeavingEmpties
        <4> QED
          BY <2>1, <4>1
      <3> QED
        BY <3>2, <3>3
    <2>4. TopicIsItems'
      BY <1>0, <2>1, <2>2 DEF TopicIsItems
    <2> QED
      BY <2>2, <2>3, <2>4 DEF ConfirmedHasTopic
  <1>7. ASSUME NEW i \in Invocations, Numbers!SaveUnsubscribed(i)
        PROVE  LeavingEmpties' /\ TopicIsItems' /\ ConfirmedHasTopic'
    <2>1. /\ apiPc[i] = "unsubscribe" /\ apiPc' = [apiPc EXCEPT ![i] = "idle"] /\ topic' = topic
          /\ item' = [item EXCEPT !.status = "unsubscribed"] /\ (~apart' => ~apart /\ ~Numbers!Overwrites(i))
      BY <1>7 DEF Numbers!Save, Numbers!SaveUnsubscribed, Numbers!End, Numbers!Goto
    <2>2. item'.status # "confirmed"
      BY <1>0, <2>1 DEF Numbers!Item
    <2>3. NoneJoined' => NoneJoined
      BY <1>0, <2>1 DEF NoneJoined
    <2>4. ~apart' /\ NoneJoined' => topic' = 0
      BY <1>0, <2>1, <2>3 DEF LeavingEmpties
    <2> QED
      BY <2>2, <2>4 DEF LeavingEmpties, TopicIsItems, ConfirmedHasTopic
  <1>8. ASSUME NEW i \in Invocations, Numbers!Die(i)
        PROVE  LeavingEmpties' /\ TopicIsItems' /\ ConfirmedHasTopic'
    <2>1. /\ apiPc' = [apiPc EXCEPT ![i] = "idle"] /\ read' = [read EXCEPT ![i] = Numbers!Absent]
          /\ UNCHANGED <<item, topic>> /\ apart' = (apart \/ apiPc[i] \in {"confirm", "unsubscribe"})
      BY <1>8 DEF Numbers!Die, Numbers!End, Numbers!Goto
    <2>2. CASE apiPc[i] \in {"confirm", "unsubscribe"}
      BY <2>1, <2>2 DEF LeavingEmpties, TopicIsItems, ConfirmedHasTopic
    <2>3. CASE apiPc[i] \notin {"confirm", "unsubscribe"}
      BY <1>0, <2>1, <2>3, QuietCall
    <2> QED
      BY <2>2, <2>3
  <1>9. CASE Numbers!Pass
    <2>1. /\ item' = [item EXCEPT !.stale = TRUE] /\ UNCHANGED <<topic, apiPc, read, apart>>
      BY <1>9 DEF Numbers!Pass, Numbers!invocation
    <2>2. /\ item'.status = item.status /\ item'.arn = item.arn
          /\ [item' EXCEPT !.stale = FALSE] = [item EXCEPT !.stale = FALSE]
      BY <1>0, <2>1 DEF Numbers!Item
    <2>3. \A i \in Invocations : Numbers!Overwrites(i)' = Numbers!Overwrites(i)
      BY <2>1, <2>2 DEF Numbers!Overwrites
    <2>4. NoneJoined' = NoneJoined /\ Numbers!Between(Invocations)' = Numbers!Between(Invocations)
      BY <2>1 DEF NoneJoined, Numbers!Between
    <2> QED
      BY <1>0, <2>1, <2>2, <2>3, <2>4 DEF LeavingEmpties, TopicIsItems, ConfirmedHasTopic
  <1> QED
    BY <1>1, <1>2, <1>3, <1>4, <1>5, <1>6, <1>7, <1>8, <1>9 DEF Numbers!Next, Numbers!Confirm,
       Numbers!Subscribe, Numbers!Unsubscribe

\* NumbersInv is inductive.
LEMMA NumbersStep == Numbers!CallsAssumption /\ NumbersInv /\ [Numbers!Next]_(Numbers!vars) => NumbersInv'
  <1> SUFFICES ASSUME Numbers!CallsAssumption, NumbersInv, [Numbers!Next]_(Numbers!vars)
               PROVE  NumbersInv'
    OBVIOUS
  <1>1. CASE UNCHANGED Numbers!vars
    <2>1. UNCHANGED <<item, former, topic, texted, calls, apiPc, id, read, arn, apart>>
      BY <1>1 DEF Numbers!vars, Numbers!invocation
    <2>2. Numbers!TypeOK' /\ CallsSound'
      BY <2>1 DEF NumbersInv, Numbers!TypeOK, CallsSound
    <2>3. LeavingEmpties' /\ TopicIsItems' /\ ConfirmedHasTopic'
      BY <2>1 DEF NumbersInv, LeavingEmpties, TopicIsItems, ConfirmedHasTopic, NoneJoined, Numbers!Overwrites,
                  Numbers!Between
    <2> QED
      BY <2>2, <2>3 DEF NumbersInv
  <1>2. CASE Numbers!Next
    BY <1>2, NumbersTypes, CallsStaySound, TopicStep DEF NumbersInv
  <1> QED
    BY <1>1, <1>2

\* NumbersInv holds, whatever the other parts do.
LEMMA NumbersAlways == ServicesSpec => []NumbersInv
  <1>1. ServicesInit => NumbersInv
    <2> SUFFICES ASSUME Numbers!CallsAssumption, Numbers!Init
                 PROVE  NumbersInv
      BY ServicesAssumption DEF ServicesInit
    <2>1. Numbers!TypeOK
      <3>1. 0 \in 0 .. MaxCalls
        BY DEF Numbers!CallsAssumption
      <3>2. Numbers!Absent \in Numbers!Item
        BY <3>1 DEF Numbers!Absent, Numbers!Item
      <3>3. /\ id \in [Invocations -> 0 .. MaxCalls] /\ read \in [Invocations -> Numbers!Item]
            /\ arn \in [Invocations -> 0 .. MaxCalls]
            /\ apiPc \in [Invocations -> {"idle", "put", "text", "join", "confirm", "leave", "unsubscribe"}]
        BY <3>1, <3>2 DEF Numbers!Init
      <3>4. item = Numbers!Absent /\ former = {} /\ topic = 0 /\ texted = {} /\ calls = 0 /\ apart = FALSE
        BY DEF Numbers!Init
      <3> QED
        BY <3>1, <3>2, <3>3, <3>4 DEF Numbers!TypeOK
    <2>2. topic = 0 /\ item.status = "absent" /\ \A i \in Invocations : apiPc[i] = "idle"
      BY DEF Numbers!Init, Numbers!Absent
    <2> QED
      BY <2>1, <2>2 DEF NumbersInv, CallsSound, LeavingEmpties, TopicIsItems, ConfirmedHasTopic
  <1>2. NumbersInv /\ [ServicesNext]_services => NumbersInv'
    <2>1. [ServicesNext]_services => [Numbers!Next]_(Numbers!vars)
      BY DEF ServicesNext, services, subscriptionVars, Numbers!vars, Numbers!invocation
    <2> QED
      BY <2>1, ServicesAssumption, NumbersStep
  <1> QED
    BY <1>1, <1>2, PTL DEF ServicesSpec, services

\* A number whose item does not say confirmed gets no updates, with the excuses
\* SilentUnlessConfirmed names: unsubscribing works whichever confirmation it follows.
THEOREM UnconfirmedNumbersAreSilent == ServicesSpec => []SilentUnlessConfirmed
  <1>1. NumbersInv => SilentUnlessConfirmed
    BY DEF NumbersInv, TopicIsItems, SilentUnlessConfirmed, Numbers!SilentUnlessConfirmed, NoneJoined,
           Numbers!Between
  <1> QED
    BY <1>1, NumbersAlways, PTL

\* A number whose item says confirmed is in the topic, under the ARN the item has.
THEOREM ConfirmedNumbersAreReached == ServicesSpec => []ConfirmedIsReached
  <1>1. NumbersInv => ConfirmedIsReached
    BY DEF NumbersInv, TopicIsItems, ConfirmedHasTopic, ConfirmedIsReached, Numbers!ConfirmedIsReached, NoneJoined,
           Numbers!Between
  <1> QED
    BY <1>1, NumbersAlways, PTL

-----------------------------------------------------------------------------
(***************************************************************************)
(* The holder's keys, whose invariant is that of HolderKeysProofs: what    *)
(* the keys' variables do in this specification is what they do alone.     *)
(***************************************************************************)
HP == INSTANCE HolderKeysProofs WITH pc <- procPc

\* What happens here is a behaviour of the holder's keys.
LEMMA HolderPart == ServicesSpec => HP!Spec
  <1>1. ServicesInit => HP!Init
    BY DEF ServicesInit, Holder!Init, HP!Init, Holder!NoDocument, Holder!NoRequests, Holder!Files, Holder!NoCall,
           HP!NoDocument, HP!NoRequests, HP!Files, HP!NoCall
  <1>2. HP!Next <=> Holder!Next
    BY DEF Holder!Next, Holder!Establish, Holder!RequestRecovery, Holder!Approve, Holder!Bind,
           Holder!RotateHolderKey, Holder!Resolve, Holder!ResolveFails, Holder!BeginPut, Holder!Put, Holder!Return,
           Holder!ConsumeNonce, Holder!LoadRequests, Holder!BeginSave, Holder!SaveRequests, Holder!Die,
           Holder!NoDocument, Holder!NoRequests, Holder!NoCall, Holder!Begin, Holder!End, Holder!Goto,
           Holder!BeginWrite, Holder!EndWrite, Holder!process, Holder!history, Holder!Rotated,
           Holder!AuthenticationCapable, Holder!Outcome, HP!Next, HP!Establish, HP!RequestRecovery, HP!Approve,
           HP!Bind, HP!RotateHolderKey, HP!Resolve, HP!ResolveFails, HP!BeginPut, HP!Put, HP!Return,
           HP!ConsumeNonce, HP!LoadRequests, HP!BeginSave, HP!SaveRequests, HP!Die, HP!NoDocument, HP!NoRequests,
           HP!NoCall, HP!Begin, HP!End, HP!Goto, HP!BeginWrite, HP!EndWrite, HP!process, HP!history, HP!Rotated,
           HP!AuthenticationCapable, HP!Outcome
  <1>3. [ServicesNext]_services => [HP!Next]_(HP!vars)
    BY <1>2 DEF ServicesNext, services, keyVars, HP!vars, HP!process, HP!history
  <1> QED
    BY <1>1, <1>3, PTL DEF ServicesSpec, services, HP!Spec

\* The assumption of their theorems is part of this module's.
LEMMA HolderAssumption == HP!KeysAssumption
  BY ServicesAssumption DEF Holder!KeysAssumption, HP!KeysAssumption

\* Whatever document a rotation or a recovery puts back, its active key is not
\* one that was replaced.
THEOREM RetiredKeysStayOut == ServicesSpec => []RetiredStaysRetired
  <1>1. HP!Spec => []HP!RetiredStaysRetired
    BY HolderAssumption, HP!ReplacedKeysStayOut
  <1>2. RetiredStaysRetired <=> HP!RetiredStaysRetired
    BY DEF RetiredStaysRetired, HP!RetiredStaysRetired, Holder!RetiredStaysRetired
  <1> QED
    BY <1>1, <1>2, HolderPart, PTL

\* verify_subject_binding accepts no possession proof begun with a replaced key.
THEOREM LateBindingsFail == ServicesSpec => []LateBindingRefused
  <1>1. HP!Spec => []HP!LateBindingRefused
    BY HolderAssumption, HP!LateProofsFail
  <1>2. LateBindingRefused <=> HP!LateBindingRefused
    BY DEF LateBindingRefused, HP!LateBindingRefused, Holder!LateBindingRefused
  <1> QED
    BY <1>1, <1>2, HolderPart, PTL

\* A recovery request that the file calls completed has shut out the key it was
\* filed against.
THEOREM RecoveriesRetire == ServicesSpec => []CompletedRecoveryRetires
  <1>1. HP!Spec => []HP!CompletedRecoveryRetires
    BY HolderAssumption, HP!RecoveriesShutOut
  <1>2. CompletedRecoveryRetires <=> HP!CompletedRecoveryRetires
    BY DEF CompletedRecoveryRetires, HP!CompletedRecoveryRetires, Holder!CompletedRecoveryRetires
  <1> QED
    BY <1>1, <1>2, HolderPart, PTL

-----------------------------------------------------------------------------
\* The part that acts keeps every variable in its type.
THEOREM ServicesTypes == ServicesSpec => []TypesOK
  <1>1. ServicesSpec => Spec
    <2>1. ServicesInit => Init
      BY DEF ServicesInit
    <2>2. [ServicesNext]_services => [Next]_vars
      BY DEF ServicesNext, services
    <2> QED
      BY <2>1, <2>2, PTL DEF ServicesSpec, services, Spec
  <1>2. HP!Spec => []HP!TypeOK
    BY HolderAssumption, HP!HolderTypes
  <1>3. HP!TypeOK <=> Holder!TypeOK
    BY DEF HP!TypeOK, Holder!TypeOK, HP!Document, Holder!Document, HP!Status, Holder!Status, HP!Call, Holder!Call,
           HP!Files, Holder!Files
  <1>4. AuditInv => Audit!TypeOK
    BY DEF AuditInv, AuditTypes
  <1>5. NumbersInv => Numbers!TypeOK
    BY DEF NumbersInv
  <1>6. TypeOK /\ HP!TypeOK /\ AuditInv /\ NumbersInv => TypesOK
    BY <1>3, <1>4, <1>5 DEF TypesOK
  <1> QED
    BY <1>1, <1>2, <1>6, VerificationTypes, HolderPart, AuditAlways, NumbersAlways, PTL
=============================================================================
