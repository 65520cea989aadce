----------------------------- MODULE MCLibrary -----------------------------
(* Small instances of Library for TLC. *)
EXTENDS Library, TLC

CONSTANTS r1, r2, c1, u1, d1

Symmetry == Permutations(Reviews)

=============================================================================
