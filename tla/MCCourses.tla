----------------------------- MODULE MCCourses -----------------------------
(* Instances of Courses for TLC: the limit of FREE, 1 here, stands for 3.      *)
EXTENDS Courses, TLC

CONSTANTS ENTERPRISE, t1, t2, u1, u2, r1, r2, c1, c2, c3, l1, n1, n2

MCLimit == (FREE :> 1) @@ (ENTERPRISE :> NoLimit)

Symmetry == Permutations(Tenants) \cup Permutations(Users) \cup Permutations(Requests)
              \cup Permutations(Courses) \cup Permutations(Lessons)
              \cup Permutations(Enrollments)

=============================================================================
