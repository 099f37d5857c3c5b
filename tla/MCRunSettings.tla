--------------------------- MODULE MCRunSettings ---------------------------
(* Two callers and two saves over two settings. *)
EXTENDS RunSettings, TLC

Symmetry == Permutations(Readers) \cup Permutations(Savers) \cup Permutations(Keys)

=============================================================================
