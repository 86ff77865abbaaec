-------------------------- MODULE MCExerciseEditor --------------------------
(* ExerciseEditor for TLC: the constants are given in the configurations. *)
EXTENDS ExerciseEditor
=============================================================================
