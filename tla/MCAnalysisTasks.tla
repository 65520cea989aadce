-------------------------- MODULE MCAnalysisTasks --------------------------
(* Small instances of AnalysisTasks for TLC. *)
EXTENDS AnalysisTasks, TLC

CONSTANTS r1, r2, w1, w2, ta, tb

Symmetry == Permutations(Requests) \cup Permutations(Workers)
            \cup Permutations(Types)

=============================================================================
