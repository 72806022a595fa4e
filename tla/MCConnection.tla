---------------------------- MODULE MCConnection ----------------------------
(* Callers are interchangeable. *)
EXTENDS Connection, TLC

Symmetric == Permutations(Callers)
=============================================================================
