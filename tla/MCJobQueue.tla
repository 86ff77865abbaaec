----------------------------- MODULE MCJobQueue -----------------------------
(* Small instances of JobQueue for TLC.                                     *)
EXTENDS JobQueue, TLC

CONSTANTS j1, j2, j3, s1, c1, c2

\* j1 and j2 ask for the same submission, j3 is a generation.
MCJobs     == {j1, j2, j3}
MCSubOf    == j1 :> s1 @@ j2 :> s1 @@ j3 :> NoSub
MCOneCenter  == [j \in MCJobs |-> c1]
MCBackoff  == <<1>>

\* Two independent generation jobs.
MCTwoJobs   == {j1, j2}
MCNoSubs    == [j \in MCTwoJobs |-> NoSub]
MCTwoCenter == [j \in MCTwoJobs |-> c1]

Symmetry == Permutations(Workers)
=============================================================================
