----------------------------- MODULE MCAttempt -----------------------------
(* Attempt with two assignments of one exercise and one student. *)
EXTENDS Attempt, TLC

CONSTANTS a1, a2, e1

MCExerciseOf == [a \in Assignments |-> e1]
Symmetry == Permutations(Requests) \cup Permutations(Assignments) \cup Permutations(Questions)
=============================================================================
