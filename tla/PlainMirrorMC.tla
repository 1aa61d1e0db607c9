--------------------------- MODULE PlainMirrorMC ---------------------------
(* Small instances of PlainMirror for TLC. *)
EXTENDS PlainMirror, TLC

\* No size is told from another, but by whether they are equal.
Symmetry == Permutations(Sizes)

=============================================================================
