----------------------------- MODULE MCSkillRuns ----------------------------
(* SkillRuns with interchangeable administrators.                          *)
EXTENDS SkillRuns, TLC

Symmetry == Permutations(Admins)
=============================================================================
