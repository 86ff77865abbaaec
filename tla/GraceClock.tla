----------------------------- MODULE GraceClock -----------------------------
(***************************************************************************)
(* The payment-failure grace period of one center                          *)
(* (internal/service/billing_grace.go, billing_polar.go,                   *)
(* internal/worker/billing_grace_tick.go).  A past_due event starts a      *)
(* seven-day clock kept going by billing_grace_tick jobs, each of which    *)
(* inserts the next: warnings and re-collects on the way, the downgrade to *)
(* Free at the deadline, unless a payment ends the grace period before.    *)
(*                                                                         *)
(* A webhook is one transaction under the subscription lock: one action.   *)
(* So is a tick, until the deadline: the downgrade takes a second lock     *)
(* after it has written the subscription, and the reconcile of a lost      *)
(* webhook takes that lock alone.  These two are steps.                    *)
(***************************************************************************)
EXTENDS Integers, FiniteSets

CONSTANTS
    Ticks,          \* slots for the center's tick jobs (bound on live ones)
    Day,            \* clock units in a day
    Window,         \* graceWindowDays
    EmailDays,      \* graceEmailDays
    RetryDays,      \* graceRetryDays
    MaxTries,       \* jobs.max_retries
    UnpaidUpdates,  \* Polar reports new periods of unpaid subscriptions
    Reconciles,     \* owners return from checkouts whose webhook is late
    MonthEnds,      \* months end while nobody looks at the AI credits
    MaxFaults,      \* bound on workers dying
    MaxNow          \* bound on the clock

ASSUME GraceAssumption ==
    /\ IsFiniteSet(Ticks) /\ Ticks # {}
    /\ Day \in Nat \ {0} /\ Window \in Nat \ {0}
    /\ EmailDays \subseteq Nat /\ RetryDays \subseteq Nat
    /\ MaxTries \in Nat /\ MaxFaults \in Nat /\ MaxNow \in Nat
    /\ UnpaidUpdates \in BOOLEAN /\ Reconciles \in BOOLEAN /\ MonthEnds \in BOOLEAN

None == -1

VARIABLES
    now,      \* the clock
    status,   \* subscriptions.status
    start,    \* grace_period_start, None when NULL
    lastDay,  \* grace_last_tick_day
    retries,  \* grace_retry_count
    emails,   \* history: warnings decided on in this grace period
    row,      \* status of the tick's jobs row; "none" without one, or when final
    due,      \* its next_attempt_at while it is pending, else 0
    tries,    \* its retry_count, 0 without a row
    step,     \* where the worker is that claimed it
    next,     \* the next tick it has computed, None for none
    recon,    \* the reconcile: "idle", or holding the credit lock
    stale,    \* ai_credits.reset_at has passed, nobody has run the reset
    faults    \* how many workers have died

sub    == <<status, start, lastDay, retries, emails>>
jobs   == <<row, due, tries>>
worker == <<step, next>>
vars   == <<now, sub, jobs, worker, recon, stale, faults>>

Elapsed(s)  == (now - s) \div Day
\* The end of the calendar day on which the window ends.
Deadline(s) == ((s \div Day) + Window + 1) * Day - 1

\* A transaction of a tick is under way and holds the subscription lock.
NotLocked == FALSE  \* mutant: webhooks do not take it
SubLocked == \E i \in Ticks : step[i] \in {"expiring", "updated"}

\* ProcessPolarEvent takes the subscription lock and, for a plan, the credit
\* lock; an event without a plan may as well come before the reconcile.
WebhookFree == ~SubLocked /\ recon = "idle"

Init ==
    /\ now = 0
    /\ status = "active" /\ start = None
    /\ lastDay = -1 /\ retries = 0 /\ emails = 0
    /\ row = [i \in Ticks |-> "none"]
    /\ due = [i \in Ticks |-> 0]
    /\ tries = [i \in Ticks |-> 0]
    /\ step = [i \in Ticks |-> "idle"]
    /\ next = [i \in Ticks |-> None]
    /\ recon = "idle"
    /\ stale = FALSE
    /\ faults = 0

\* The grace columns of SetPastDueWithGrace, ClearGrace and ExpireGraceToFree.
SetGrace(s) == start' = s /\ lastDay' = -1 /\ retries' = 0 /\ emails' = 0

\* CancelPendingGraceTicks: pending and processing rows are deleted.
CancelTicks ==
    /\ row' = [i \in Ticks |-> "none"]
    /\ due' = [i \in Ticks |-> 0]
    /\ tries' = [i \in Ticks |-> 0]

\* The row of tick i becomes r, to be claimed again at d, after n failures.
SetRow(i, r, d, n) ==
    /\ row' = [row EXCEPT ![i] = r]
    /\ due' = [due EXCEPT ![i] = d]
    /\ tries' = [tries EXCEPT ![i] = n]

-----------------------------------------------------------------------------
(* Webhooks.                                                               *)

\* enterGraceTx; a second failure of the same period changes nothing.
PastDue ==
    /\ WebhookFree
    /\ status # "past_due"
    /\ status' = "past_due"
    /\ SetGrace(now)
    /\ \E i \in Ticks :
         /\ row[i] = "none" /\ step[i] = "idle"
         /\ SetRow(i, "pending", now, 0)
    /\ UNCHANGED <<now, worker, recon, stale, faults>>

\* recoverFromGraceTx: a payment (isRecoveryEligibleEvent) ends the period.
Recover ==
    /\ WebhookFree
    /\ status = "past_due"
    /\ status' = "active"
    /\ SetGrace(None)
    /\ CancelTicks
    /\ UNCHANGED <<now, worker, recon, stale, faults>>

\* setPlanFromPolarTx with a new plan or period, the payload not "active" if
\* the center is past due: the status is written, the grace columns are not.
PlanEvent ==
    /\ WebhookFree
    /\ status = "past_due" => UnpaidUpdates
    /\ status' = "active"
    /\ stale' = FALSE
    /\ UNCHANGED <<now, start, lastDay, retries, emails, jobs, worker, recon, faults>>

-----------------------------------------------------------------------------
(* The tick: HandleGraceTick in a transaction of its own, then the next    *)
(* tick and the completion in the job's.                                   *)

Claim(i) ==
    /\ row[i] = "pending" /\ step[i] = "idle"
    /\ due[i] <= now
    /\ SetRow(i, "processing", 0, tries[i])
    /\ step' = [step EXCEPT ![i] = "claimed"]
    /\ UNCHANGED <<now, sub, next, recon, stale, faults>>

Expired == now >= Deadline(start)

MissedDays == (lastDay + 1) .. Elapsed(start)

\* Nothing to do: not past due, or the day was dealt with.
TickNothing(i) ==
    /\ step[i] = "claimed" /\ ~SubLocked
    /\ status = "past_due" => ~Expired /\ Elapsed(start) <= lastDay
    /\ step' = [step EXCEPT ![i] = "acted"]
    /\ UNCHANGED <<now, sub, jobs, next, recon, stale, faults>>

\* Every re-collect since the last tick, one warning for the days of it.
TickAct(i) ==
    /\ step[i] = "claimed" /\ ~SubLocked
    /\ status = "past_due"
    /\ ~Expired
    /\ Elapsed(start) > lastDay
    /\ retries' = retries + Cardinality(RetryDays \cap MissedDays)
    /\ emails' = IF EmailDays \cap MissedDays = {} THEN emails ELSE emails + 1
    /\ lastDay' = Elapsed(start)
    /\ step' = [step EXCEPT ![i] = "acted"]
    /\ UNCHANGED <<now, status, start, jobs, next, recon, stale, faults>>

\* expireGraceToFreeTx: the row was read past due under the subscription lock;
\* it is written (and so locked); then the credit lock is taken.
ExpireRead(i) ==
    /\ step[i] = "claimed" /\ ~SubLocked
    /\ status = "past_due"
    /\ Expired
    /\ step' = [step EXCEPT ![i] = "expiring"]
    /\ UNCHANGED <<now, sub, jobs, next, recon, stale, faults>>

ExpireUpdate(i) ==
    /\ step[i] = "expiring"
    /\ step' = [step EXCEPT ![i] = "updated"]
    /\ UNCHANGED <<now, sub, jobs, next, recon, stale, faults>>

ExpireCommit(i) ==
    /\ step[i] = "updated"
    /\ recon = "idle"
    /\ ~stale
    /\ status' = "cancelled"
    /\ SetGrace(None)
    /\ CancelTicks
    /\ step' = [step EXCEPT ![i] = "acted"]
    /\ UNCHANGED <<now, next, recon, stale, faults>>

\* handleFailure: again after a backoff (minutes), or failed for good.
OneMoreTry(i) == row[i] = "processing" /\ tries[i] <= MaxTries  \* mutant
TriesLeft(i)  == row[i] = "processing" /\ tries[i] < MaxTries

Retry(i) ==
    /\ IF TriesLeft(i) THEN SetRow(i, "pending", now, tries[i] + 1)
                       ELSE SetRow(i, "none", 0, 0)
    /\ step' = [step EXCEPT ![i] = "idle"]
    /\ UNCHANGED <<now, sub, next, recon, stale, faults>>

\* The downgrade caps the AI credits.  If their month has ended the reset has
\* to be run first, which needs a user: a worker has none (tenantUUIDs).
ExpireRefused(i) ==
    /\ step[i] = "updated"
    /\ recon = "idle"
    /\ stale
    /\ Retry(i)

\* Each of tick and reconcile holds what the other waits for, and the database
\* ends one of them.
LockCycle(i) ==
    /\ step[i] = "updated"
    /\ recon = "locked"
    /\ \/ Retry(i)
       \/ recon' = "idle" /\ UNCHANGED <<now, sub, jobs, worker, stale, faults>>

-----------------------------------------------------------------------------
GivesUp  == status = "past_due" /\ now < Deadline(start)  \* mutant: not once late
StillDue == status = "past_due"

FollowingDay(s) == s + (Elapsed(s) + 1) * Day  \* mutant: not capped
NextTick(s) ==
    IF FollowingDay(s) > Deadline(s) \/ FollowingDay(s) <= now
      THEN Deadline(s) ELSE FollowingDay(s)

\* RescheduleGraceTickTx reads the subscription without a lock ...
Reread(i) ==
    /\ step[i] = "acted"
    /\ step' = [step EXCEPT ![i] = "next"]
    /\ next' = [next EXCEPT ![i] = IF StillDue THEN NextTick(start) ELSE None]
    /\ UNCHANGED <<now, sub, jobs, recon, stale, faults>>

\* ... and the next tick appears with the completion of this one, even if that
\* was deleted meanwhile (MarkJobComplete hits no row).  It takes over the slot.
Complete(i) ==
    /\ step[i] = "next"
    /\ IF next[i] = None THEN SetRow(i, "none", 0, 0)
                         ELSE SetRow(i, "pending", next[i], 0)
    /\ step' = [step EXCEPT ![i] = "idle"]
    /\ next' = [next EXCEPT ![i] = None]
    /\ UNCHANGED <<now, sub, recon, stale, faults>>

\* The worker dies: its transactions are rolled back, and the stuck-sweep fails
\* the job minutes later.
Die(i) ==
    /\ step[i] # "idle"
    /\ faults < MaxFaults
    /\ faults' = faults + 1
    /\ step' = [step EXCEPT ![i] = "idle"]
    /\ SetRow(i, "none", 0, 0)
    /\ next' = [next EXCEPT ![i] = None]
    /\ UNCHANGED <<now, sub, recon, stale>>

-----------------------------------------------------------------------------
(* The owner, and time.                                                    *)

\* applyReconciledCheckoutTx: setPlanFromPolarTx under the credit lock alone,
\* which it takes before it writes the subscription.
ReconcileLock ==
    /\ Reconciles
    /\ recon = "idle"
    /\ recon' = "locked"
    /\ UNCHANGED <<now, sub, jobs, worker, stale, faults>>

ReconcileApply ==
    /\ recon = "locked"
    /\ \A i \in Ticks : step[i] # "updated"
    /\ recon' = "idle"
    /\ status' = "active"
    /\ stale' = FALSE
    /\ UNCHANGED <<now, start, lastDay, retries, emails, jobs, worker, faults>>

MonthEnd ==
    /\ MonthEnds
    /\ stale' = TRUE
    /\ UNCHANGED <<now, sub, jobs, worker, recon, faults>>

\* The owner opens the billing page (GetUsageAndLimits runs the reset).
ViewBilling ==
    /\ recon = "idle"
    /\ stale' = FALSE
    /\ UNCHANGED <<now, sub, jobs, worker, recon, faults>>

Pass ==
    /\ now < MaxNow
    /\ now' = now + 1
    /\ UNCHANGED <<sub, jobs, worker, recon, stale, faults>>

-----------------------------------------------------------------------------
Expire(i) == ExpireUpdate(i) \/ ExpireCommit(i) \/ ExpireRefused(i) \/ LockCycle(i)

Work(i) ==
    \/ Claim(i)
    \/ TickNothing(i) \/ TickAct(i) \/ ExpireRead(i) \/ Expire(i)
    \/ Reread(i) \/ Complete(i)

Webhook == PastDue \/ Recover \/ PlanEvent
Owner   == ReconcileLock \/ ReconcileApply \/ ViewBilling

Next ==
    \/ Webhook
    \/ Owner
    \/ \E i \in Ticks : Work(i) \/ Die(i)
    \/ MonthEnd
    \/ Pass

Spec == Init /\ [][Next]_vars

\* A worker carries on with what it claimed and claims what is due, and a
\* request runs to its end.
FairSpec ==
    /\ Spec
    /\ \A i \in Ticks : WF_vars(Work(i))
    /\ WF_vars(ReconcileApply)

-----------------------------------------------------------------------------
(* Properties.                                                             *)

Live(i) == row[i] # "none"

TypeOK ==
    /\ now \in 0 .. MaxNow
    /\ status \in {"active", "past_due", "cancelled"}
    /\ start \in {None} \cup (0 .. now)
    /\ status = "past_due" => start # None
    /\ lastDay \in {-1} \cup Nat
    /\ retries \in Nat /\ emails \in Nat
    /\ row \in [Ticks -> {"none", "pending", "processing"}]
    /\ due \in [Ticks -> Nat]
    /\ tries \in [Ticks -> 0 .. MaxTries]
    /\ step \in [Ticks -> {"idle", "claimed", "expiring", "updated", "acted", "next"}]
    /\ next \in [Ticks -> {None} \cup Nat]
    /\ recon \in {"idle", "locked"}
    /\ stale \in BOOLEAN
    /\ faults \in 0 .. MaxFaults

\* "idempotent per day via the grace_last_tick_day high-water marker": however
\* late, doubled or retried the ticks, every re-collect day that was passed was
\* acted on exactly once, every warning day at most once.
DunningOnSchedule ==
    status = "past_due" =>
        /\ retries = Cardinality({d \in RetryDays : d <= lastDay})
        /\ emails <= Cardinality({d \in EmailDays : d <= lastDay})

\* R1: "the downgrade fires AT this instant and not before".  No old tick, no
\* clock that was started over and no late worker downgrades a center early.
NeverEarly ==
    [][status = "past_due" /\ status' = "cancelled" => now >= Deadline(start)]_vars

\* "a last-minute recovery can never race the auto-downgrade"
\* (lockClassSubscription): only a center that is past due is downgraded.
OnlyPastDueExpires == [][status' = "cancelled" => status # "active"]_vars

\* The ticks, with their retries and lost workers, keep the promise of
\* GracePeriod; "Unlocked" is the reconcile, which does not take the lock.
Grace == INSTANCE GracePeriod WITH day <- lastDay, Unlocked <- Reconciles

ImplementsGrace == Grace!Spec

\* The chain never breaks: past due, some tick is waiting for a moment not after
\* the deadline, or a worker is busy with one.
ClockRuns ==
    status = "past_due" =>
        \E i \in Ticks :
            \/ row[i] = "pending" /\ due[i] <= Deadline(start)
            \/ /\ row[i] = "processing" /\ step[i] # "idle"
               /\ step[i] = "next" => next[i] # None

\* FR-65: after the deadline nobody stays on the unpaid plan.
EveryGraceEnds ==
    (status = "past_due" /\ Expired) ~> status # "past_due"
=============================================================================
