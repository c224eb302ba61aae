---------------------------- MODULE OneTimeTokens ----------------------------
(***************************************************************************)
(* What a challenge store promises to those who present and those who      *)
(* verify: a token is handed out once and accepted at most once.           *)
(***************************************************************************)
EXTENDS Naturals

CONSTANT Tokens

VARIABLES
    handed,     \* tokens somebody was given
    uses        \* how often each token was accepted

tokens == <<handed, uses>>

TInit == handed = {} /\ uses = [t \in Tokens |-> 0]

Hand(t) ==
    /\ t \notin handed
    /\ handed' = handed \cup {t}
    /\ UNCHANGED uses

Accept(t) ==
    /\ t \in handed
    /\ uses[t] = 0
    /\ uses' = [uses EXCEPT ![t] = 1]
    /\ UNCHANGED handed

TNext == \E t \in Tokens : Hand(t) \/ Accept(t)

TSpec == TInit /\ [][TNext]_tokens
=============================================================================
