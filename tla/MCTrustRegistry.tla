--------------------------- MODULE MCTrustRegistry ---------------------------
(***************************************************************************)
(* TrustRegistry for TLC: processes are interchangeable.                   *)
(***************************************************************************)
EXTENDS TrustRegistry, TLC

Symmetry == Permutations(Clients)
=============================================================================
