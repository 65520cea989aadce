--------------------------- MODULE MCTrialEmails ---------------------------
(* Small instances of TrialEmails for TLC. *)
EXTENDS TrialEmails, TLC

CONSTANTS o1, o2, s1, s2, s3

Symmetry == Permutations(Orgs) \cup Permutations(Slots) \cup Permutations(Milestones)

=============================================================================
