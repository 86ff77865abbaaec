-------------------------- MODULE MCSpeakingAttempt -------------------------
(* SpeakingAttempt for TLC: with a time budget, and without one. *)
EXTENDS SpeakingAttempt

MCClocks == {"none", "running"}
=============================================================================
