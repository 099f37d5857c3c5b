------------------------------ MODULE MCRunner ------------------------------
(* Runner on a small instance: the drops, the channels and
   the callers are alike. *)
EXTENDS Runner, TLC

Symmetry == Permutations(Drops) \cup Permutations(Channels)
              \cup Permutations(Callers)
=============================================================================
