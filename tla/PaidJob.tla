------------------------------- MODULE PaidJob -------------------------------
(***************************************************************************)
(* What classlite-api promises somebody who asks for an AI job, whatever   *)
(* workers, sweeps, retries and lost transactions it is done with: one     *)
(* outcome, a bounded number of calls of the provider, and the credit back *)
(* in the very step in which the job fails.  JobQueue implements it.       *)
(***************************************************************************)
EXTENDS Integers

CONSTANTS
    Jobs,         \* what may be asked for
    SubOf,        \* the submission a job is for, or NoSub
    NoSub,
    Paid,         \* the jobs that cost a credit
    MaxRetries    \* calls of the provider after the first one

VARIABLES
    state,      \* "none", then "inflight", then "delivered" or "failed"
    calls,      \* calls of the provider for each job
    exhausted,  \* failed jobs whose owner is told that all calls were used up
    charged,    \* jobs a credit was taken for
    returned    \* jobs whose credit came back

vars == <<state, calls, exhausted, charged, returned>>

Init ==
    /\ state = [j \in Jobs |-> "none"]
    /\ calls = [j \in Jobs |-> 0]
    /\ exhausted = {}
    /\ charged = {}
    /\ returned = {}

\* One job at a time for a submission, and its credit with it.
Order(j) ==
    /\ state[j] = "none"
    /\ \A k \in Jobs : SubOf[k] = SubOf[j] /\ SubOf[j] # NoSub => state[k] # "inflight"
    /\ state' = [state EXCEPT ![j] = "inflight"]
    /\ charged' = charged \cup ({j} \cap Paid)
    /\ UNCHANGED <<calls, exhausted, returned>>

Call(j) ==
    /\ state[j] = "inflight"
    /\ calls[j] <= MaxRetries
    /\ calls' = [calls EXCEPT ![j] = @ + 1]
    /\ UNCHANGED <<state, exhausted, charged, returned>>

Deliver(j) ==
    /\ state[j] = "inflight" /\ calls[j] # 0
    /\ state' = [state EXCEPT ![j] = "delivered"]
    /\ UNCHANGED <<calls, exhausted, charged, returned>>

\* Several jobs may be given up at once, and some of them for want of retries.
GiveUp(S, T) ==
    /\ \A j \in S : state[j] = "inflight" /\ calls[j] # 0
    /\ \A j \in T : calls[j] = MaxRetries + 1
    /\ state' = [j \in Jobs |-> IF j \in S THEN "failed" ELSE state[j]]
    /\ exhausted' = exhausted \cup T
    /\ returned' = returned \cup (S \cap charged)
    /\ UNCHANGED <<calls, charged>>

Next ==
    \/ \E j \in Jobs : Order(j) \/ Call(j) \/ Deliver(j)
    \/ \E S \in SUBSET Jobs : \E T \in SUBSET S : GiveUp(S, T)

Spec == Init /\ [][Next]_vars
=============================================================================
