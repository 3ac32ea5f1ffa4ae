-------------------------- MODULE MCLearningEvents --------------------------
(* Instances of LearningEvents for TLC.                                    *)
EXTENDS LearningEvents, TLC

CONSTANTS r1, r2, r3

\* Two lessons at once after one or instead of one, completion set and taken back.
MCPayloads ==
    {[NoPayload EXCEPT !.lessons = 1, !.progress = 50],
     [NoPayload EXCEPT !.lessons = 2, !.touch = TRUE],
     [NoPayload EXCEPT !.completed = "true"],
     [NoPayload EXCEPT !.completed = "false"]}

Symmetry == Permutations(Requests)

=============================================================================
