-------------------------- MODULE StoreAndForward --------------------------
(***************************************************************************)
(* What a store-and-forward buffer promises its producers: a reading it    *)
(* accepted is held until it is delivered, and a delivered reading is      *)
(* never taken back.  Lose is what a fault may do to it: only readings     *)
(* still held are lost, and they never come back.                          *)
(***************************************************************************)
CONSTANT Readings

VARIABLES held, delivered, lost

avars == <<held, delivered, lost>>

AInit == held = {} /\ delivered = {} /\ lost = {}

Accept(r) ==
    /\ r \notin held \cup delivered \cup lost
    /\ held' = held \cup {r}
    /\ UNCHANGED <<delivered, lost>>

Deliver(r) ==
    /\ r \in held
    /\ held' = held \ {r}
    /\ delivered' = delivered \cup {r}
    /\ UNCHANGED lost

Lose(S) ==
    /\ S \subseteq held
    /\ held' = held \ S
    /\ lost' = lost \cup S
    /\ UNCHANGED delivered

ANext ==
    \/ \E r \in Readings : Accept(r) \/ Deliver(r)
    \/ \E S \in SUBSET Readings : Lose(S)

ASpec == AInit /\ [][ANext]_avars
=============================================================================
