----------------------------- MODULE AuditTrail -----------------------------
(***************************************************************************)
(* The hash-chained audit log: presentation_audit.py appends to it,        *)
(* audit_governance.py purges what is older than its retention and seals   *)
(* the rest again, tamper_response.py verifies it.                         *)
(*                                                                         *)
(* An append reads the last hash and writes under a lock, which the        *)
(* threads of one process share and two processes do not.  A purge takes   *)
(* no lock: it logs itself, lists the file, empties it and writes it.      *)
(*                                                                         *)
(* A hash is the sequence of the records it commits to.                    *)
(***************************************************************************)
EXTENDS Naturals, Sequences, FiniteSets

CONSTANTS
    Writers,        \* threads that use the log
    Placements,     \* the processes they may run in: functions on Writers
    MaxRecords,     \* bound on the records
    MaxFaults,      \* bound on the deaths and alterations
    Limit           \* lines check_audit_integrity reads

RecordsAssumption == MaxRecords \in Nat

VARIABLES
    log,        \* the lines of the file
    processOf,  \* the process each thread runs in
    drawn,      \* records made
    expired,    \* records a purge found past their retention
    alerts, faults,
    pc, kind,   \* per thread: next step, its call
    record, last,   \* per thread: the record it appends, the hash it read
    kept,       \* per thread: the records its purge keeps
    returned,   \* history: records whose log_event returned
    excused,    \* history: records a race or a crash took
    raced       \* history: since the log was last sealed whole, an append overlapped one of another
                \* process or a purge, two purges overlapped, or a line was torn or altered

thread == <<processOf, pc, kind, record, last, kept>>
history == <<returned, excused, raced>>
vars == <<log, drawn, expired, alerts, faults, thread, history>>

-----------------------------------------------------------------------------
Records == 1 .. MaxRecords
GENESIS_HASH == <<>>

\* A record, and whether its line was altered from outside.
Content(r) == [id |-> r, altered |-> FALSE]
LineContents == [id : Records, altered : BOOLEAN]

Sealed(content, prev) == [text |-> "whole", content |-> content, prev |-> prev, hash |-> Append(prev, content)]
\* A line that is no JSON; open when no newline ends it.
Torn(open) == [text |-> IF open THEN "open" ELSE "torn", content |-> Content(1),
               prev |-> GENESIS_HASH, hash |-> GENESIS_HASH]

Readable(lines) == \A i \in DOMAIN lines : lines[i].text = "whole"

\* _last_entry_hash: of the last line, when it is JSON.
LastEntryHash == IF log = <<>> THEN GENESIS_HASH ELSE log[Len(log)].hash

\* verify_chain of lines that are JSON.
VerifyChain(lines) ==
    \A i \in DOMAIN lines :
        /\ lines[i].prev = IF i = 1 THEN GENESIS_HASH ELSE lines[i - 1].hash
        /\ lines[i].hash = Append(lines[i].prev, lines[i].content)

\* The chain purge_expired_file makes of the records it keeps.
Resealed(contents) == [i \in DOMAIN contents |-> Sealed(contents[i], SubSeq(contents, 1, i - 1))]

Lines(lines) == {lines[i].content.id : i \in {j \in DOMAIN lines : lines[j].text = "whole"}}

TypeOK ==
    /\ \A i \in DOMAIN log : log[i].text \in {"whole", "open", "torn"} /\ log[i].content \in LineContents
    /\ drawn \in 0 .. MaxRecords /\ expired \in SUBSET Records /\ alerts \in Nat /\ faults \in Nat
    /\ pc \in [Writers -> {"idle", "alarm", "append", "list", "empty", "rewrite"}]
    /\ kind \in [Writers -> {"none", "event", "purge", "alarm"}]
    /\ processOf \in Placements /\ record \in [Writers -> 0 .. MaxRecords]
    /\ returned \in SUBSET Records /\ excused \in SUBSET Records /\ raced \in BOOLEAN

Init ==
    /\ processOf \in Placements
    /\ log = <<>> /\ drawn = 0 /\ expired = {} /\ alerts = 0 /\ faults = 0
    /\ pc = [w \in Writers |-> "idle"] /\ kind = [w \in Writers |-> "none"]
    /\ record = [w \in Writers |-> 0] /\ last = [w \in Writers |-> GENESIS_HASH]
    /\ kept = [w \in Writers |-> <<>>]
    /\ returned = {} /\ excused = {} /\ raced = FALSE

-----------------------------------------------------------------------------
(* _append.                                                                *)

\* A purge past its listing.
Purging(w) == pc[w] \in {"empty", "rewrite"}

\* Mutant of LockFree: the lock keeps no thread out.
LockFreeAlways(w) == TRUE

\* No thread of the process of w is in its lock.
LockFree(w) == \A x \in Writers : processOf[x] = processOf[w] => pc[x] # "append"

\* An append of w that begins now overlaps one of another process, or a purge.
Overlaps(w) == \E x \in Writers : (pc[x] = "append" /\ processOf[x] # processOf[w]) \/ Purging(x)

\* Thread w takes the lock, for a record of the call k, and reads the last hash.
BeginAppend(w, k) ==
    /\ drawn < MaxRecords
    /\ LockFree(w)
    /\ drawn' = drawn + 1
    /\ record' = [record EXCEPT ![w] = drawn + 1]
    /\ last' = [last EXCEPT ![w] = LastEntryHash]
    /\ pc' = [pc EXCEPT ![w] = "append"]
    /\ kind' = [kind EXCEPT ![w] = k]
    /\ raced' = (raced \/ Overlaps(w))
    /\ UNCHANGED <<log, expired, alerts, faults, kept, returned, excused, processOf>>

\* log_event, and read_audit_authorized of an admin, which logs the reading.
LogEvent(w) == pc[w] = "idle" /\ BeginAppend(w, "event")

\* purge_expired_file of an admin: it logs itself first.
Purge(w) == pc[w] = "idle" /\ BeginAppend(w, "purge")

\* Mutant of LastLines: one line too few.
LastLinesShort(lines) ==
    SubSeq(lines, IF Len(lines) >= Limit THEN Len(lines) - Limit + 2 ELSE 1, Len(lines))

\* The lines check_audit_integrity reads and verifies from genesis.
LastLines(lines) == SubSeq(lines, IF Len(lines) > Limit THEN Len(lines) - Limit + 1 ELSE 1, Len(lines))

\* check_audit_integrity, of the default log: it raises on a line that is no
\* JSON, does nothing about a chain that verifies, and alerts of one that fails.
CheckAuditIntegrity(w) ==
    /\ pc[w] = "idle"
    /\ drawn < MaxRecords
    /\ Readable(LastLines(log))
    /\ ~VerifyChain(LastLines(log))
    /\ alerts' = alerts + 1
    /\ pc' = [pc EXCEPT ![w] = "alarm"]
    /\ UNCHANGED <<log, drawn, expired, faults, processOf, kind, record, last, kept, history>>

\* It then logs the failure, to the default log whichever file it checked.
LogFailure(w) == pc[w] = "alarm" /\ BeginAppend(w, "alarm")

End(w) ==
    /\ pc' = [pc EXCEPT ![w] = "idle"] /\ kind' = [kind EXCEPT ![w] = "none"]
    /\ record' = [record EXCEPT ![w] = 0] /\ last' = [last EXCEPT ![w] = GENESIS_HASH]
    /\ kept' = [kept EXCEPT ![w] = <<>>]

LeftOpen == log # <<>> /\ log[Len(log)].text = "open"

\* The line goes to the end of the file, onto a line that was left open.
AppendLine(w) ==
    LET r == record[w]
    IN  /\ pc[w] = "append"
        /\ log' = IF LeftOpen THEN [log EXCEPT ![Len(log)] = Torn(FALSE)]
                  ELSE Append(log, Sealed(Content(r), last[w]))
        /\ excused' = IF LeftOpen \/ \E x \in Writers : Purging(x) THEN excused \cup {r} ELSE excused
        /\ returned' = returned \cup {r}
        /\ IF kind[w] = "purge"
           THEN pc' = [pc EXCEPT ![w] = "list"] /\ UNCHANGED <<kind, record, last, kept>>
           ELSE End(w)
        /\ UNCHANGED <<drawn, expired, alerts, faults, raced, processOf>>

-----------------------------------------------------------------------------
(* purge_expired_file, once it has logged itself.                          *)

Listed == [i \in DOMAIN log |-> log[i].content]

\* filter_expired: the contents whose records are not in gone, in their order.
\* The k-th of them has k of them up to its place.
FilterExpired(contents, gone) ==
    LET keep == {i \in DOMAIN contents : contents[i].id \notin gone}
        UpTo(i) == Cardinality({j \in keep : j <= i})
    IN  [k \in 1 .. Cardinality(keep) |-> contents[CHOOSE i \in keep : UpTo(i) = k]]

\* A purge that lists the file while another has emptied it loses what it held.
ListsNothing(w) == \E x \in Writers \ {w} : pc[x] = "rewrite"

\* Somebody else is between reading the file and writing it.
Crossed(w) == \E x \in Writers \ {w} : pc[x] = "append" \/ Purging(x)

\* Mutant of List: the listing stops at the first record that expired.
ListUntilExpired(w, old) ==
    /\ pc[w] = "list"
    /\ Readable(log)
    /\ expired' = expired \cup old
    /\ LET first == {i \in DOMAIN log : log[i].content.id \in expired'}
       IN  kept' = [kept EXCEPT ![w] = IF first = {} THEN Listed
                                       ELSE SubSeq(Listed, 1, (CHOOSE i \in first : \A j \in first : i <= j) - 1)]
    /\ pc' = [pc EXCEPT ![w] = "empty"]
    /\ excused' = IF ListsNothing(w) THEN Records ELSE excused
    /\ raced' = (raced \/ Crossed(w))
    /\ UNCHANGED <<log, drawn, alerts, faults, kind, record, last, returned, processOf>>

\* The records are read, and filter_expired drops the expired ones, which are old
\* and what another purge found expired: each kind of event has its own retention.
List(w, old) ==
    /\ pc[w] = "list"
    /\ Readable(log)
    /\ expired' = expired \cup old
    /\ kept' = [kept EXCEPT ![w] = FilterExpired(Listed, expired')]
    /\ pc' = [pc EXCEPT ![w] = "empty"]
    /\ excused' = IF ListsNothing(w) THEN Records ELSE excused
    /\ raced' = (raced \/ Crossed(w))
    /\ UNCHANGED <<log, drawn, alerts, faults, kind, record, last, returned, processOf>>

\* A line that is no JSON ends the purge.
ListRaises(w) ==
    /\ pc[w] = "list"
    /\ ~Readable(log)
    /\ End(w)
    /\ UNCHANGED <<log, drawn, expired, alerts, faults, history, processOf>>

Empty(w) ==
    /\ pc[w] = "empty"
    /\ log' = <<>>
    /\ pc' = [pc EXCEPT ![w] = "rewrite"]
    /\ UNCHANGED <<drawn, expired, alerts, faults, kind, record, last, kept, history, processOf>>

\* What was appended since is overwritten, or a piece of it sticks out.
Rewrite(w) ==
    /\ pc[w] = "rewrite"
    /\ \E rest \in {<<>>} \cup (IF log = <<>> THEN {} ELSE {<<Torn(LeftOpen)>>}) :
            /\ log' = Resealed(kept[w]) \o rest
            /\ raced' = (rest # <<>> \/ Crossed(w))
    /\ End(w)
    /\ UNCHANGED <<drawn, expired, alerts, faults, returned, excused, processOf>>

-----------------------------------------------------------------------------
(* Crashes, and alterations from outside.                                  *)

\* A process dies: in its write it may leave half a line, and a purge an empty file.
Die(w) ==
    /\ pc[w] # "idle"
    /\ faults < MaxFaults /\ faults' = faults + 1
    /\ End(w)
    /\ \/ UNCHANGED <<log, raced>>
       \/ pc[w] = "append" /\ raced' = TRUE
          /\ log' = IF LeftOpen THEN log ELSE Append(log, Torn(TRUE))
    /\ excused' = IF pc[w] = "rewrite" THEN Records ELSE excused
    /\ UNCHANGED <<drawn, expired, alerts, returned, processOf>>

Alter(i) ==
    /\ faults < MaxFaults /\ faults' = faults + 1
    /\ log[i].text = "whole"
    /\ log' = [log EXCEPT ![i].content.altered = TRUE]
    /\ raced' = TRUE
    /\ UNCHANGED <<drawn, expired, alerts, thread, returned, excused>>

Next ==
    \/ \E w \in Writers : LogEvent(w) \/ Purge(w) \/ CheckAuditIntegrity(w) \/ LogFailure(w) \/ AppendLine(w)
    \/ \E w \in Writers, old \in SUBSET Lines(log) : List(w, old)
    \/ \E w \in Writers : ListRaises(w) \/ Empty(w) \/ Rewrite(w) \/ Die(w)
    \/ \E i \in DOMAIN log : Alter(i)

Spec == Init /\ [][Next]_vars

-----------------------------------------------------------------------------
(* Properties.                                                             *)

\* An event whose logging returned is in the log until its retention is over,
\* unless it was logged beside a purge, glued to a torn line, or a purge died
\* with the file empty.
EventsAreKept ==
    (\A w \in Writers : pc[w] # "rewrite") => returned \ (expired \cup excused) \subseteq Lines(log)

\* Unless an append overlapped one of another process or a purge, or a line was
\* torn or altered, since the log was last sealed whole, the chain verifies: the
\* lock keeps apart the threads of one process that append, a purge that nobody
\* crosses leaves a chain whenever it empties, seals or dies, and it mends a
\* broken one.
ChainHolds == ~raced => Readable(log) /\ VerifyChain(log)

\* check_audit_integrity alerts of a chain that an overlap, a death or an
\* alteration may have broken, or of a log longer than what it reads, which it
\* cannot tell from a broken one.
AlertsAreOfBrokenChains == [][alerts' > alerts => raced \/ Len(log) > Limit]_vars
=============================================================================
