------------------------------ MODULE JobQueue ------------------------------
(***************************************************************************)
(* The durable job queue of classlite-api: the jobs table, the API calls   *)
(* that enqueue into it, the worker pool and the stuck-sweep that drain    *)
(* it, and the one credit a paid job costs and gets back when it fails     *)
(* (internal/worker/dispatcher.go, internal/store/queries/jobs.sql,        *)
(* internal/service/ai_grade_service.go, ai_generation_service.go).        *)
(*                                                                         *)
(* A worker and a sweep are database transactions: tx[p] holds the writes  *)
(* process p has made and not committed.  The rows in it are locked by p,  *)
(* every other process reads the committed values.                         *)
(***************************************************************************)
EXTENDS Integers, Sequences, FiniteSets

CONSTANTS
    Jobs,         \* identities of the jobs rows that may be inserted
    Workers,      \* claim loops, of one API process or of several
    Sweepers,     \* sweep loops, one per API process
    Centers,      \* tenants
    CenterOf,     \* jobs.center_id of each job
    Submissions,  \* submissions an AI grade may be asked for
    SubOf,        \* params->>'submissionId' of each job, or NoSub
    NoSub,
    Paid,         \* the jobs whose enqueue writes a job_deduction
    NoJob,
    MaxRetries,   \* jobs.max_retries (model.MaxJobRetries)
    Backoff,      \* the delays before the retries (model.JobRetryBackoffs)
    StuckTimeout, \* model.StuckJobTimeout, in ticks
    MaxFaults     \* bound on the faults of the environment

Procs == Workers \cup Sweepers

ASSUME JobQueueAssumption ==
    /\ IsFiniteSet(Jobs)
    /\ NoJob \notin Jobs
    /\ NoSub \notin Submissions
    /\ Workers \cap Sweepers = {}
    /\ CenterOf \in [Jobs -> Centers]
    /\ SubOf \in [Jobs -> Submissions \cup {NoSub}]
    /\ Paid \subseteq Jobs
    /\ MaxRetries \in Nat
    /\ Backoff \in Seq(Nat) /\ Backoff # <<>>
    /\ StuckTimeout \in Nat
    /\ MaxFaults \in Nat

VARIABLES
    status,     \* jobs.status, "absent" before the insert
    retry,      \* jobs.retry_count
    wait,       \* next_attempt_at - now, 0 once it is reached or when NULL
    age,        \* now - started_at of a processing job, up to StuckTimeout + 1
    born,       \* rank of jobs.created_at
    reason,     \* jobs.error_details
    deducted,   \* jobs with a job_deduction row in the ledger
    refunded,   \* jobs with a job_failed_refund row in the ledger
    due,        \* centers past their ai_credits.reset_at, the bucket not rolled over
    tx,         \* the open transaction of each worker and each sweep
    faults,     \* faults of the environment so far
    attempts    \* history: how often each job was claimed

table   == <<status, retry, wait, age, born, reason>>
ledger  == <<deducted, refunded, due>>
vars    == <<table, ledger, tx, faults, attempts>>

Status  == {"absent", "pending", "processing", "complete", "failed"}
Reasons == {"none", "transient_failure", "max_retries_exhausted",
            "rejected", "stuck_timeout"}

NoTx == [pc |-> "idle", job |-> NoJob, retry |-> 0, stuck |-> {}, done |-> {},
         again |-> {}, failed |-> {}, refund |-> {}, why |-> "none"]

Inflight(j) == status[j] \in {"pending", "processing"}

\* The rows p has written in its open transaction: nobody else can write
\* them before p commits or rolls back.
Rows(p) == tx[p].done \cup tx[p].again \cup tx[p].failed

\* The UPDATE ... WHERE status = 'processing' of p finds row j.  It waits
\* for a row another transaction has written (neither Hits nor Misses).
HitsAnyStatus(p, j) == \A q \in Procs \ {p} : j \notin Rows(q)  \* mutant: no guard
Hits(p, j)   == status[j] = "processing" /\ \A q \in Procs \ {p} : j \notin Rows(q)
Misses(j)    == status[j] # "processing"

\* pg_advisory_xact_lock(center, lockClassCredit): taken by the first refund
\* of a transaction, paid for or not, and kept until its end.
CreditLocked(p, c) == \E j \in tx[p].refund : CenterOf[j] = c
CreditFree(p, c)   == \A q \in Procs \ {p} : ~CreditLocked(q, c)

Init ==
    /\ status = [j \in Jobs |-> "absent"]
    /\ retry = [j \in Jobs |-> 0]
    /\ wait = [j \in Jobs |-> 0]
    /\ age = [j \in Jobs |-> 0]
    /\ born = [j \in Jobs |-> 0]
    /\ reason = [j \in Jobs |-> "none"]
    /\ deducted = {}
    /\ refunded = {}
    /\ due = {}
    /\ tx = [p \in Procs |-> NoTx]
    /\ faults = 0
    /\ attempts = [j \in Jobs |-> 0]

-----------------------------------------------------------------------------
(* The API: enqueue a job, and its charge, in one transaction.             *)

\* uq_jobs_ai_grade_inflight has a row for the submission of j.
Conflicts(j) ==
    SubOf[j] # NoSub /\ \E k \in Jobs : SubOf[k] = SubOf[j] /\ Inflight(k)

\* EnqueueAIGrade and EnqueueGeneration.  A second enqueue for a submission
\* with a job in flight violates uq_jobs_ai_grade_inflight: the transaction,
\* charge included, is rolled back and the request answered with the job in
\* flight.  The charge waits for the credit lock and, having the user's id, rolls
\* the month over first if that is due.
Enqueue(j) ==
    /\ status[j] = "absent"
    /\ ~Conflicts(j)
    /\ j \in Paid => \A p \in Procs : ~CreditLocked(p, CenterOf[j])
    /\ status' = [status EXCEPT ![j] = "pending"]
    /\ born' = [born EXCEPT ![j] = Cardinality({k \in Jobs : status[k] # "absent"})]
    /\ deducted' = deducted \cup ({j} \cap Paid)
    /\ due' = IF j \in Paid THEN due \ {CenterOf[j]} ELSE due
    /\ UNCHANGED <<retry, wait, age, reason, refunded, tx, faults, attempts>>

\* The clock passes reset_at.  The bucket is rolled over by the next call that
\* spends, returns or reads credits (applyLazyReset).
MonthEnds(c) ==
    /\ due' = due \cup {c}
    /\ UNCHANGED <<table, deducted, refunded, tx, faults, attempts>>

\* Such a call on behalf of a user: the balance is read or credits are bought.
Reset(c) ==
    /\ \A p \in Procs : ~CreditLocked(p, c)
    /\ due' = due \ {c}
    /\ UNCHANGED <<table, deducted, refunded, tx, faults, attempts>>

-----------------------------------------------------------------------------
(* A worker: claim in a transaction of its own, then process in another.   *)

Ready(j) == status[j] = "pending" /\ wait[j] = 0

\* claimJob: the oldest ready job of a center, SKIP LOCKED.
Claim(w, j) ==
    /\ tx[w].pc = "idle"
    /\ Ready(j)
    /\ \A k \in Jobs : Ready(k) /\ CenterOf[k] = CenterOf[j] => born[j] <= born[k]
    /\ status' = [status EXCEPT ![j] = "processing"]
    /\ age' = [age EXCEPT ![j] = 0]
    /\ attempts' = [attempts EXCEPT ![j] = @ + 1]
    /\ tx' = [tx EXCEPT ![w] = [NoTx EXCEPT !.pc = "generate", !.job = j,
                                           !.retry = retry[j]]]
    /\ UNCHANGED <<retry, wait, born, reason, ledger, faults>>

\* dispatch, the handler succeeded: MarkJobComplete.  A row that is no longer
\* processing is left alone and the result discarded.
GenerateOk(w) ==
    /\ tx[w].pc = "generate"
    /\ \/ /\ Hits(w, tx[w].job)
          /\ tx' = [tx EXCEPT ![w].pc = "commit", ![w].done = {tx[w].job}]
       \/ /\ Misses(tx[w].job)
          /\ tx' = [tx EXCEPT ![w].pc = "commit"]
    /\ UNCHANGED <<table, ledger, faults, attempts>>

\* By the worker's copy of the row.
RetriesLeftOff(w)   == tx[w].retry <= MaxRetries     \* mutant: one retry too many
RetriesLeftShort(w) == tx[w].retry + 1 < MaxRetries  \* mutant: one too few
RetriesLeft(w)      == tx[w].retry < MaxRetries

\* handleFailure, a retryable error with retries left: RescheduleJob.
GenerateRetry(w) ==
    /\ tx[w].pc = "generate"
    /\ RetriesLeft(w)
    /\ \/ /\ Hits(w, tx[w].job)
          /\ tx' = [tx EXCEPT ![w].pc = "commit", ![w].again = {tx[w].job},
                              ![w].why = "transient_failure"]
       \/ /\ Misses(tx[w].job)
          /\ tx' = [tx EXCEPT ![w].pc = "commit"]
    /\ UNCHANGED <<table, ledger, faults, attempts>>

\* terminalFail, its first statement: MarkJobFailedTerminal.  The credit is
\* refunded next if the row was hit, else the call is over (pc after).
MarkFailed(p, j, why, rest, after) ==
    \/ /\ Hits(p, j)
       /\ tx' = [tx EXCEPT ![p].pc = "refund", ![p].job = j, ![p].stuck = rest,
                           ![p].failed = @ \cup {j}, ![p].why = why]
    \/ /\ Misses(j)
       /\ tx' = [tx EXCEPT ![p].pc = after, ![p].stuck = rest]

\* mutant: the credit before the row
GenerateFailCreditFirst(w) ==
    /\ tx[w].pc = "generate"
    /\ IF tx[w].refund = {}
       THEN /\ CreditFree(w, CenterOf[tx[w].job])
            /\ tx' = [tx EXCEPT ![w].refund = {tx[w].job}]
       ELSE \/ /\ Hits(w, tx[w].job)
               /\ tx' = [tx EXCEPT ![w].pc = "commit", ![w].failed = {tx[w].job},
                                   ![w].why = "rejected"]
            \/ /\ Misses(tx[w].job)
               /\ tx' = [tx EXCEPT ![w] = [NoTx EXCEPT !.pc = "commit"]]
    /\ UNCHANGED <<table, ledger, faults, attempts>>

\* handleFailure: an invalid AI response, a missing target, an unknown type,
\* or a retryable error with no retry left.
GenerateFail(w) ==
    /\ tx[w].pc = "generate"
    /\ \/ MarkFailed(w, tx[w].job, "rejected", {}, "commit")
       \/ /\ ~RetriesLeft(w)
          /\ MarkFailed(w, tx[w].job, "max_retries_exhausted", {}, "commit")
    /\ UNCHANGED <<table, ledger, faults, attempts>>

\* With the gate armed, rolling a month over needs a user for the grant's ledger
\* row, and a worker or a sweep has none: a refund that finds the month over cannot
\* be written.  A job that was not charged is sent back before the month is looked at.
ResetUnwritable(j) == j \in deducted /\ CenterOf[j] \in due

\* terminalFail, its second statement: RefundCreditTx, under the credit lock.
Refund(p) ==
    /\ tx[p].pc = "refund"
    /\ CreditFree(p, CenterOf[tx[p].job])
    /\ ~ResetUnwritable(tx[p].job)
    /\ tx' = [tx EXCEPT ![p].pc = IF p \in Workers THEN "commit" ELSE "sweep",
                        ![p].refund = @ \cup {tx[p].job}]
    /\ UNCHANGED <<table, ledger, faults, attempts>>

\* The error ends the worker's transaction, or the sweep's with every job of the
\* center in it: nothing is written and the jobs stay in processing.
RefundFails(p) ==
    /\ tx[p].pc = "refund"
    /\ CreditFree(p, CenterOf[tx[p].job])
    /\ ResetUnwritable(tx[p].job)
    /\ tx' = [tx EXCEPT ![p] = NoTx]
    /\ UNCHANGED <<table, ledger, faults, attempts>>

-----------------------------------------------------------------------------
(* The stuck-sweep: every stuck job of one center in one transaction.      *)

StuckFirstTry(j) == status[j] = "processing" /\ age[j] > StuckTimeout
                    /\ retry[j] = 0  \* mutant: a retried job is forgotten
Stuck(j) == status[j] = "processing" /\ age[j] > StuckTimeout

\* FindStuckProcessingJobs: a snapshot, read once, by center.
SweepBegin(s, c) ==
    /\ tx[s].pc = "idle"
    /\ LET stuck == {j \in Jobs : CenterOf[j] = c /\ Stuck(j)}
       IN  /\ stuck # {}
           /\ tx' = [tx EXCEPT ![s] = [NoTx EXCEPT !.pc = "sweep", !.stuck = stuck]]
    /\ UNCHANGED <<table, ledger, faults, attempts>>

\* The next job of the snapshot.  Any order: the ages the code sorts by are
\* equal beyond StuckTimeout here.
SweepMark(s, j) ==
    /\ tx[s].pc = "sweep"
    /\ j \in tx[s].stuck
    /\ MarkFailed(s, j, "stuck_timeout", tx[s].stuck \ {j}, "sweep")
    /\ UNCHANGED <<table, ledger, faults, attempts>>

-----------------------------------------------------------------------------
(* The end of a transaction.                                               *)

CanCommit(p) == \/ tx[p].pc = "commit"
                \/ tx[p].pc = "sweep" /\ tx[p].stuck = {}

\* retry_count after p commits: RescheduleJob adds one.
RetryKept(p, j)  == retry[j]  \* mutant: it does not
RetryAfter(p, j) == IF j \in tx[p].again THEN retry[j] + 1 ELSE retry[j]

\* The refunds p commits: none for a job that was not charged.
RefundAll(p) == tx[p].refund  \* mutant: not derived from the deduction
Refunds(p)   == tx[p].refund \cap deducted

\* The delay before the next attempt; the ladder ends at its last rung.
Delay(n) == Backoff[IF n < Len(Backoff) THEN n + 1 ELSE Len(Backoff)]

Commit(p) ==
    /\ CanCommit(p)
    /\ LET done == tx[p].done  again == tx[p].again  failed == tx[p].failed
       IN  /\ status' = [j \in Jobs |-> CASE j \in done   -> "complete"
                                          [] j \in failed -> "failed"
                                          [] j \in again  -> "pending"
                                          [] OTHER        -> status[j]]
           /\ retry' = [j \in Jobs |-> RetryAfter(p, j)]
           /\ wait' = [j \in Jobs |-> CASE j \in again  -> Delay(tx[p].retry)
                                        [] j \in failed -> 0
                                        [] OTHER        -> wait[j]]
           /\ age' = [j \in Jobs |-> IF j \in Rows(p) THEN 0 ELSE age[j]]
           /\ reason' = [j \in Jobs |-> CASE j \in done           -> "none"
                                          [] j \in failed \cup again -> tx[p].why
                                          [] OTHER                -> reason[j]]
    /\ refunded' = refunded \cup Refunds(p)
    /\ tx' = [tx EXCEPT ![p] = NoTx]
    /\ UNCHANGED <<born, deducted, due, faults, attempts>>

\* A panic, a failed statement or commit, a lost connection, the death of the
\* process: the writes are gone, a claim committed earlier is not.  A failed
\* statement of the handler is one too, although handleFailure classifies it as
\* retryable: the reschedule would be written in the transaction it aborted.
Rollback(p) ==
    /\ tx[p].pc # "idle"
    /\ faults < MaxFaults
    /\ faults' = faults + 1
    /\ tx' = [tx EXCEPT ![p] = NoTx]
    /\ UNCHANGED <<table, ledger, attempts>>

\* The lock p is waiting for is held by q.
WaitsFor(p, q) ==
    \/ /\ tx[p].pc = "refund"
       /\ CreditLocked(q, CenterOf[tx[p].job])
    \/ /\ tx[p].pc = "generate"
       /\ tx[p].job \in Rows(q)
    \/ /\ tx[p].pc = "sweep"
       /\ tx[p].stuck # {}
       /\ tx[p].stuck \subseteq UNION {Rows(r) : r \in Procs \ {p}}
       /\ tx[p].stuck \cap Rows(q) # {}

Deadlocked(p) ==
    \E C \in SUBSET Procs : /\ p \in C
                           /\ \A q \in C : \E r \in C \ {q} : WaitsFor(q, r)

\* PostgreSQL aborts one transaction of a cycle of waits.
DeadlockVictim(p) ==
    /\ Deadlocked(p)
    /\ tx' = [tx EXCEPT ![p] = NoTx]
    /\ UNCHANGED <<table, ledger, faults, attempts>>

\* The clock: a pending job nears its next attempt, a processing one ages.
Tick ==
    /\ wait' = [j \in Jobs |-> IF wait[j] > 0 THEN wait[j] - 1 ELSE 0]
    /\ age' = [j \in Jobs |-> IF status[j] = "processing" /\ age[j] <= StuckTimeout
                              THEN age[j] + 1 ELSE age[j]]
    /\ UNCHANGED <<status, retry, born, reason, ledger, tx, faults, attempts>>

-----------------------------------------------------------------------------
WorkerStep(w) ==
    \/ \E j \in Jobs : Claim(w, j)
    \/ GenerateOk(w)
    \/ GenerateRetry(w)
    \/ GenerateFail(w)

SweepStep(s) ==
    \/ \E c \in Centers : SweepBegin(s, c)
    \/ \E j \in Jobs : SweepMark(s, j)

Next ==
    \/ \E j \in Jobs : Enqueue(j)
    \/ \E w \in Workers : WorkerStep(w)
    \/ \E s \in Sweepers : SweepStep(s)
    \/ \E p \in Procs : \/ Refund(p) \/ RefundFails(p)
                        \/ Commit(p) \/ Rollback(p) \/ DeadlockVictim(p)
    \/ \E c \in Centers : MonthEnds(c) \/ Reset(c)
    \/ Tick

Spec == Init /\ [][Next]_vars

\* The loops tick forever and a transaction ends: the clock, the claims, the
\* handlers and the sweeps go on, and PostgreSQL breaks a deadlock.  A waiter
\* for the credit lock is queued and granted it when the holder lets go: it
\* is not passed over for ever, hence SF.  Nobody has to read a balance: no
\* fairness on Reset.
Fairness ==
    /\ WF_vars(Tick)
    /\ \A w \in Workers : /\ WF_vars(\E j \in Jobs : Claim(w, j))
                          /\ WF_vars(GenerateOk(w) \/ GenerateRetry(w) \/ GenerateFail(w))
    /\ \A s \in Sweepers : WF_vars(SweepStep(s))
    /\ \A p \in Procs : /\ SF_vars(Refund(p) \/ RefundFails(p))
                        /\ WF_vars(Commit(p))
                        /\ WF_vars(DeadlockVictim(p))

FairSpec == Spec /\ Fairness

-----------------------------------------------------------------------------
(* Properties.                                                             *)

TypeOK ==
    /\ status \in [Jobs -> Status]
    /\ retry \in [Jobs -> 0 .. MaxRetries]
    /\ wait \in [Jobs -> Nat]
    /\ age \in [Jobs -> 0 .. StuckTimeout + 1]
    /\ born \in [Jobs -> Nat]
    /\ reason \in [Jobs -> Reasons]
    /\ deducted \subseteq Jobs
    /\ refunded \subseteq Jobs
    /\ due \subseteq Centers
    /\ tx \in [Procs -> [pc : {"idle", "generate", "sweep", "refund", "commit"},
                         job : Jobs \cup {NoJob}, retry : 0 .. MaxRetries,
                         stuck : SUBSET Jobs, done : SUBSET Jobs,
                         again : SUBSET Jobs, failed : SUBSET Jobs,
                         refund : SUBSET Jobs, why : Reasons]]
    /\ faults \in 0 .. MaxFaults
    /\ attempts \in [Jobs -> Nat]

\* The customer pays exactly for what is delivered: a charged job has its
\* credit back if and only if it failed, whatever worker and sweep raced for
\* it and wherever a transaction was cut (terminalFail, refundCredit).
RefundIffFailed ==
    \A j \in Jobs : j \in refunded <=> (j \in deducted /\ status[j] = "failed")

\* A double click never leaves two jobs in flight for one submission, each
\* with its charge (EnqueueAIGrade, uq_jobs_ai_grade_inflight).
OneInflightPerSubmission ==
    \A i, j \in Jobs : i # j /\ SubOf[i] = SubOf[j] /\ SubOf[i] # NoSub
                       => ~(Inflight(i) /\ Inflight(j))

\* A job is driven by one worker at a time, although the claim commits before
\* the work and the row is not locked during it (claimJob, processClaimed).
OneDriver ==
    \A v, w \in Workers : v # w /\ tx[v].pc # "idle" => tx[v].job # tx[w].job

\* The provider is called at most 1 + max_retries times for one charge: every
\* claim but the last one was paid for by a retry (RescheduleJob).
AttemptsBounded ==
    \A j \in Jobs :
        attempts[j] = retry[j] + (IF status[j] \in {"absent", "pending"} THEN 0 ELSE 1)

\* "Exhausted" means it: the whole ladder was climbed (exhaustionReason).
ExhaustedClimbedTheLadder ==
    \A j \in Jobs : reason[j] = "max_retries_exhausted"
                     => status[j] = "failed" /\ attempts[j] = MaxRetries + 1

\* A slow worker never overwrites the outcome of a job the sweep has failed
\* and refunded, nor the sweep a delivered result (the guards on status).
TerminalIsFinal ==
    [][\A j \in Jobs : status[j] \in {"complete", "failed"} =>
            status'[j] = status[j] /\ reason'[j] = reason[j]]_vars

\* Wherever transactions wait for each other in a circle, a sweep is in it that has
\* refunded one job and goes on to the next row: the lock it keeps is the only one
\* taken out of the order row, then credit, and workers alone never deadlock
\* (sweepStuck, terminalFail, acquireLock).
DeadlockNeedsASweep ==
    \A C \in SUBSET Procs :
        C # {} /\ (\A q \in C : \E r \in C \ {q} : WaitsFor(q, r))
            => \E s \in C \cap Sweepers : tx[s].pc = "sweep" /\ tx[s].refund # {}

\* What the owner of a job sees of the queue.
PaidState ==
    [j \in Jobs |-> CASE status[j] = "absent"   -> "none"
                      [] status[j] = "complete" -> "delivered"
                      [] status[j] = "failed"   -> "failed"
                      [] OTHER                  -> "inflight"]

Promise == INSTANCE PaidJob WITH
    state <- PaidState,
    calls <- attempts,
    exhausted <- {j \in Jobs : reason[j] = "max_retries_exhausted"},
    charged <- deducted,
    returned <- refunded

\* Whatever the workers and the sweeps do to it, a job has one outcome, within its
\* calls of the provider, and fails in one step with the refund of its credit
\* (MarkJobFailedTerminal and RefundCreditTx in one transaction).
ImplementsPaidJob == Promise!Spec

\* Every job that was enqueued ends, and with RefundIffFailed the credit is
\* delivered for or returned, however workers fail and months end, if from some
\* time on its center's month is rolled over and does not end again (a month may end
\* between any two steps here; StuckJobTimeout, applyLazyReset).
EveryJobSettles ==
    \A j \in Jobs :
        <>[](CenterOf[j] \notin due)
            => (status[j] = "pending" ~> status[j] \in {"complete", "failed"})
=============================================================================
