----------------------------- MODULE MCNonceStore ----------------------------
(***************************************************************************)
(* NonceStore for TLC: the threads of one server, or a process each.       *)
(* Nonces and threads are interchangeable, processes with them.            *)
(***************************************************************************)
EXTENDS NonceStore, TLC

CONSTANT server

OneProcess == [t \in Threads |-> server]
ProcessEach == [t \in Threads |-> t]

Symmetry == Permutations(Nonces) \cup Permutations(Threads)
=============================================================================
