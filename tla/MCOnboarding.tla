---------------------------- MODULE MCOnboarding ----------------------------
(* Instances of Onboarding for TLC: two learners, one of whom is also      *)
(* invited as an instructor.                                               *)
EXTENDS Onboarding, TLC

CONSTANTS a, b, i1, i2, i3, r1, r2

MCEmailOf == [i \in Invites |-> IF i = i2 THEN b ELSE a]
MCRoleOf  == [i \in Invites |-> IF i = i3 THEN "INSTRUCTOR" ELSE "LEARNER"]

\* Requests are interchangeable.
RequestSymmetry == Permutations(Requests)

=============================================================================
