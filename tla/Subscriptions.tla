--------------------------- MODULE Subscriptions ---------------------------
(***************************************************************************)
(* One telephone number's consent to public updates (subscription_api.py): *)
(* the item in the subscribers table and the number's place in the SNS     *)
(* topic, which two services keep and nothing updates together.            *)
(*                                                                         *)
(* Every invocation reads the item first, with an eventually consistent    *)
(* get_item, then calls SNS or sends a text, and writes the item without   *)
(* asking whether it is still what it read.                                *)
(* Requests that are refused read the item and change nothing.             *)
(***************************************************************************)
EXTENDS Naturals

CONSTANTS
    Invocations,    \* Lambda invocations that may run at a time
    MaxCalls        \* bound on the requests that get past their checks

CallsAssumption == MaxCalls \in Nat

VARIABLES
    item,       \* the number's item
    former,     \* the items of the last day that it replaced: get_item may return one
    topic,      \* the number's SNS subscription, 0 for none
    texted,     \* codes sent to the number
    calls,
    pc, id, read, arn,  \* per invocation: next step, a number for what it makes,
                    \* the item it read, the ARN it got
    apart       \* history: since item and topic last agreed, SNS failed, a call
                \* died, or an item was written that had changed since it was read

invocation == <<pc, id, read, arn>>
vars == <<item, former, topic, texted, calls, invocation, apart>>

-----------------------------------------------------------------------------
Calls == 1 .. MaxCalls

\* subscription_arn 0: none, or "sns-unavailable"; stale: made a day ago.
Item == [status : {"absent", "pending", "confirmed", "unsubscribed"},
         code : 0 .. MaxCalls, arn : 0 .. MaxCalls, stale : BOOLEAN]
Absent == [status |-> "absent", code |-> 0, arn |-> 0, stale |-> FALSE]

TypeOK ==
    /\ item \in Item /\ former \in SUBSET Item
    /\ topic \in 0 .. MaxCalls /\ texted \in SUBSET Calls /\ calls \in 0 .. MaxCalls
    /\ pc \in [Invocations -> {"idle", "put", "text", "join", "confirm", "leave", "unsubscribe"}]
    /\ id \in [Invocations -> 0 .. MaxCalls] /\ read \in [Invocations -> Item] /\ arn \in [Invocations -> 0 .. MaxCalls]
    /\ apart \in BOOLEAN

Init ==
    /\ item = Absent /\ former = {} /\ topic = 0 /\ texted = {} /\ calls = 0
    /\ pc = [i \in Invocations |-> "idle"]
    /\ id = [i \in Invocations |-> 0] /\ read = [i \in Invocations |-> Absent] /\ arn = [i \in Invocations |-> 0]
    /\ apart = FALSE

Goto(i, step) == pc' = [pc EXCEPT ![i] = step]

End(i) ==
    /\ Goto(i, "idle")
    /\ id' = [id EXCEPT ![i] = 0]
    /\ read' = [read EXCEPT ![i] = Absent] /\ arn' = [arn EXCEPT ![i] = 0]

\* get_item, by a request that goes on with what it finds.
Begin(i, found, step) ==
    /\ pc[i] = "idle"
    /\ calls < MaxCalls /\ calls' = calls + 1
    /\ id' = [id EXCEPT ![i] = calls']
    /\ read' = [read EXCEPT ![i] = found]
    /\ Goto(i, step)
    /\ UNCHANGED <<item, former, topic, texted, arn, apart>>

\* A write of the item.
Save(new) ==
    /\ item' = new
    /\ former' = former \cup {item}

\* Invocation i writes over an item that is no longer what it read.
Overwrites(i) == [item EXCEPT !.stale = FALSE] # [read[i] EXCEPT !.stale = FALSE]

\* One of them has been to SNS and has not written yet.
Between(is) == \E i \in is : pc[i] \in {"confirm", "unsubscribe"}

-----------------------------------------------------------------------------
(* The calls.                                                              *)

\* Mutant of Subscribe: a confirmed number may subscribe again.
SubscribeAgain(i, found) == Begin(i, found, "put")

\* handle_subscribe of a number that is not confirmed.
Subscribe(i, found) == found.status # "confirmed" /\ Begin(i, found, "put")

\* put_item replaces all of the item, under a new code.
PutItem(i) ==
    /\ pc[i] = "put"
    /\ Save([status |-> "pending", code |-> id[i], arn |-> 0, stale |-> FALSE])
    /\ apart' = (apart \/ Overwrites(i))
    /\ read' = [read EXCEPT ![i] = item']
    /\ Goto(i, "text")
    /\ UNCHANGED <<topic, texted, calls, id, arn>>

\* The code is texted; the item stays when that fails.
SendSms(i) ==
    /\ pc[i] = "text"
    /\ texted' \in {texted, texted \cup {read[i].code}}
    /\ End(i)
    /\ UNCHANGED <<item, former, topic, calls, apart>>

\* handle_confirm with a code of the number: the item's, not a day old.  The
\* item may be pending or unsubscribed.
Confirm(i, found, code) ==
    /\ code \in texted
    /\ found.status \notin {"absent", "confirmed"}
    /\ found.code = code /\ ~found.stale
    /\ Begin(i, found, "join")

\* sns.subscribe gives the number's subscription, a new one if it has none; when
\* it raises, the number may have been subscribed nevertheless.
SnsSubscribe(i) ==
    /\ pc[i] = "join"
    /\ LET a == IF topic = 0 THEN id[i] ELSE topic
       IN  \/ topic' = a /\ arn' = [arn EXCEPT ![i] = a] /\ UNCHANGED apart
           \/ topic' \in {topic, a} /\ apart' = TRUE /\ UNCHANGED arn
    /\ Goto(i, "confirm")
    /\ UNCHANGED <<item, former, texted, calls, id, read>>

\* Mutant of SaveConfirmed: an ARN in the item is not replaced.
SaveConfirmedFirst(i) ==
    /\ pc[i] = "confirm"
    /\ Save([item EXCEPT !.status = "confirmed", !.arn = IF item.arn = 0 THEN arn[i] ELSE item.arn])
    /\ apart' = (arn[i] \notin {topic} \ {0} \/ Overwrites(i) \/ Between(Invocations \ {i}))
    /\ End(i)
    /\ UNCHANGED <<topic, texted, calls>>

\* update_item of a confirmation; alone it makes item and topic agree again.
SaveConfirmed(i) ==
    /\ pc[i] = "confirm"
    /\ Save([item EXCEPT !.status = "confirmed", !.arn = arn[i]])
    /\ apart' = (arn[i] \notin {topic} \ {0} \/ Overwrites(i) \/ Between(Invocations \ {i}))
    /\ End(i)
    /\ UNCHANGED <<topic, texted, calls>>

\* handle_unsubscribe of a number that has an item.
Unsubscribe(i, found) == found.status # "absent" /\ Begin(i, found, "leave")

\* sns.unsubscribe, with the ARN that was read.  When it raises the call goes on.
SnsUnsubscribe(i) ==
    /\ pc[i] = "leave"
    /\ \/ topic' = (IF read[i].arn # 0 /\ read[i].arn = topic THEN 0 ELSE topic) /\ UNCHANGED apart
       \/ read[i].arn # 0 /\ apart' = TRUE /\ UNCHANGED topic
    /\ Goto(i, "unsubscribe")
    /\ UNCHANGED <<item, former, texted, calls, id, read, arn>>

\* Mutant of SaveUnsubscribed: a status nobody else knows.
SaveUnsubscribedMisspelt(i) ==
    /\ pc[i] = "unsubscribe"
    /\ Save([item EXCEPT !.status = "unsubscribe"])
    /\ apart' = (apart \/ Overwrites(i))
    /\ End(i)
    /\ UNCHANGED <<topic, texted, calls>>

SaveUnsubscribed(i) ==
    /\ pc[i] = "unsubscribe"
    /\ Save([item EXCEPT !.status = "unsubscribed"])
    /\ apart' = (apart \/ Overwrites(i))
    /\ End(i)
    /\ UNCHANGED <<topic, texted, calls>>

\* The invocation times out.
Die(i) ==
    /\ pc[i] # "idle"
    /\ apart' = (apart \/ pc[i] \in {"confirm", "unsubscribe"})
    /\ End(i)
    /\ UNCHANGED <<item, former, topic, texted, calls>>

\* A day has passed since the code was made, and no read is that old.
Pass ==
    /\ item.status # "absent" /\ ~item.stale
    /\ item' = [item EXCEPT !.stale = TRUE] /\ former' = {}
    /\ UNCHANGED <<topic, texted, calls, invocation, apart>>

Next ==
    \/ \E i \in Invocations, found \in former \cup {item}, code \in Calls : Confirm(i, found, code)
    \/ \E i \in Invocations, found \in former \cup {item} : Subscribe(i, found) \/ Unsubscribe(i, found)
    \/ \E i \in Invocations : PutItem(i) \/ SendSms(i)
    \/ \E i \in Invocations : SnsSubscribe(i) \/ SaveConfirmed(i) \/ SnsUnsubscribe(i) \/ SaveUnsubscribed(i) \/ Die(i)
    \/ Pass

Spec == Init /\ [][Next]_vars

-----------------------------------------------------------------------------
(* Properties.                                                             *)

\* A number whose item says unsubscribed (or never confirmed) gets no updates,
\* unless two calls crossed, one died half-way or SNS failed since the last
\* confirmation that nothing disturbed.
SilentUnlessConfirmed == ~apart /\ ~Between(Invocations) /\ item.status # "confirmed" => topic = 0

\* A number whose item says confirmed is in the topic under the ARN that will
\* take it out again, with the same excuses.
ConfirmedIsReached == ~apart /\ ~Between(Invocations) /\ item.status = "confirmed" => topic # 0 /\ item.arn = topic
=============================================================================
