------------------------------ MODULE MCRoster ------------------------------
(* Roster for TLC: the handlers are interchangeable. *)
EXTENDS Roster, TLC

Symmetry == Permutations(Callers)
=============================================================================
