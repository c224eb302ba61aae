------------------------ MODULE MCCredentialLifecycle ------------------------
(***************************************************************************)
(* CredentialLifecycle for TLC: processes are interchangeable, and so are  *)
(* the ids not yet drawn.                                                  *)
(***************************************************************************)
EXTENDS CredentialLifecycle, TLC

Symmetry == Permutations(Clients) \cup Permutations(Creds \ External)
=============================================================================
