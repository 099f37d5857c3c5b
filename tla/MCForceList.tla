----------------------------- MODULE MCForceList -----------------------------
(* ForceList for TLC: channels and handlers are interchangeable. *)
EXTENDS ForceList, TLC

Symmetry == Permutations(Channels) \cup Permutations(Handlers)
=============================================================================
