----------------------------- MODULE MCServices -----------------------------
(***************************************************************************)
(* Services for TLC.  The proof path has one scheme id in two versions,    *)
(* the first with an adapter, two protocols, two policies, and the         *)
(* requests that differ in at most one field from one that is right.       *)
(***************************************************************************)
EXTENDS Services, TLC

Scheme == <<"mock-scheme", 1>>
RightRequest == [scheme |-> Scheme, protocol |-> "sf", policy |-> "p1", strict |-> TRUE,
                 flaws |-> {}, claim |-> "shown", bound |-> TRUE, proof |-> "right"]
LooseRequest == [RightRequest EXCEPT !.policy = "p2", !.strict = FALSE]
NearRequests ==
    {RightRequest, LooseRequest, [RightRequest EXCEPT !.scheme = <<"mock-scheme", 2>>],
     [RightRequest EXCEPT !.strict = FALSE], [RightRequest EXCEPT !.bound = FALSE]} \cup
    {[RightRequest EXCEPT !.protocol = p] : p \in {"sf2", Ambiguous, None}} \cup
    {[RightRequest EXCEPT !.policy = p] : p \in {"p2", None}} \cup
    {[RightRequest EXCEPT !.flaws = f] :
        f \in {{"leak"}, {"raises"}, {"ambiguous", "malformed"}, {"unverifiable"}, {"large"}}} \cup
    {[RightRequest EXCEPT !.claim = c] : c \in {"absent", "unshown", "other"}} \cup
    {[RightRequest EXCEPT !.proof = p] : p \in {"wrong", "malformed"}}
Deciding(policy, deny, claim, allow) ==
    [policy |-> policy, force_deny |-> deny, require_claim |-> claim, allow_when_valid |-> allow]
SomePolicies == {Deciding("p1", FALSE, FALSE, TRUE), Deciding("p2", FALSE, TRUE, TRUE),
                 Deciding("p1", TRUE, TRUE, TRUE), Deciding("p1", FALSE, TRUE, FALSE)}

SomeAdapters == {Scheme}

\* The audit log: two threads, of one process or of two.
SomePlacements == {[t1 |-> 1, t2 |-> 1], [t1 |-> 1, t2 |-> 2]}
=============================================================================
