----------------------------- MODULE MCKanzlei -----------------------------
(* Two connections, and a grace of three units against one for a header. *)
EXTENDS Kanzlei, TLC

Symmetry == Permutations(Conns)

=============================================================================
