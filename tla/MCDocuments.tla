---------------------------- MODULE MCDocuments ----------------------------
(* Small instances of Documents for TLC. *)
EXTENDS Documents, TLC

CONSTANTS u1, u2, u3, d1, d2, w1, w2

Symmetry == Permutations(Uploads) \cup Permutations(Deletes) \cup Permutations(Workers)

=============================================================================
