------------------------------- MODULE MCPool -------------------------------
(* Pool for TLC: the accounts and the callers are interchangeable. *)
EXTENDS Pool, TLC

Symmetry == Permutations(Accounts) \cup Permutations(Callers)
=============================================================================
