--------------------------- MODULE MCAttemptDraft ---------------------------
(* AttemptDraft for TLC: an essay and a quiz with two edits and all the time *)
(* there is, a timed quiz with one edit.                                     *)
EXTENDS AttemptDraft

MCAttempts == {<<"writing", FALSE>>, <<"quiz", FALSE>>, <<"quiz", TRUE>>}
MCMaxEdits == [with_time_budget \in BOOLEAN |-> IF with_time_budget THEN 1 ELSE 2]
=============================================================================
