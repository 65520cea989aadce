----------------------------- MODULE MCTenancy -----------------------------
(* Small instances of Tenancy for TLC. *)
EXTENDS Tenancy, TLC

CONSTANTS q1, q2, x1, x2, x3, x4

Symmetry == Permutations(Slots) \cup Permutations(Projects)

\* Three plans of constants.py, with smaller limits.
MCLimit == [trial |-> 1, starter |-> 2, enterprise |-> -1]

=============================================================================
