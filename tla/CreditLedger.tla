---------------------------- MODULE CreditLedger ----------------------------
(***************************************************************************)
(* The AI-credit engine of one center: the ai_credits row (a monthly       *)
(* bucket that is reset lazily, an add-on bucket that carries forward) and *)
(* the append-only ai_credit_ledger it projects                            *)
(* (internal/service/billing_service.go, billing_polar.go, billing_read.go,*)
(* internal/worker/dispatcher.go).                                         *)
(*                                                                         *)
(* Every transaction that touches either takes the advisory lock (center,  *)
(* credit) before it reads them and keeps it until it ends, and centers    *)
(* share nothing: an operation is one action.                              *)
(***************************************************************************)
EXTENDS Integers, FiniteSets

CONSTANTS
    Jobs,          \* AI jobs of the center
    Purchases,     \* add-on orders of the center, by purchaseIDForOrder
    Plans,         \* plan.Tier
    Free,          \* plan.Free
    Allowance,     \* plan.LimitsFor(tier).AICreditsPerMonth
    Pack,          \* AddonPack.Credits
    ArmedAtStart,  \* BILLING_ENFORCEMENT_ENABLED at the first deployment
    MaxFlips,      \* bound on the deployments that change it
    MaxMonths      \* bound on the clock

MaxAllowance == CHOOSE n \in {Allowance[t] : t \in Plans} :
                    \A t \in Plans : Allowance[t] <= n

ASSUME CreditLedgerAssumption ==
    /\ IsFiniteSet(Jobs) /\ IsFiniteSet(Purchases)
    /\ Free \in Plans
    /\ Allowance \in [Plans -> Nat]
    /\ Allowance[Free] = 0
    /\ \E t \in Plans : \A u \in Plans : Allowance[u] <= Allowance[t]
    /\ Pack \in Nat \ {0}
    /\ ArmedAtStart \in BOOLEAN
    /\ MaxFlips \in Nat
    /\ MaxMonths \in Nat

VARIABLES
    now,        \* the clock, in months
    plan,       \* subscriptions.plan
    alloc,      \* ai_credits.monthly_allocation
    used,       \* ai_credits.monthly_used
    addon,      \* ai_credits.addon_remaining
    resetAt,    \* ai_credits.reset_at
    head,       \* balance_after of the newest ledger row, 0 without one
    total,      \* SUM(change) of the ledger
    job,        \* what became of each job
    periodEnd,  \* period_end of its job_deduction row, 0 when NULL
    refunded,   \* jobs with a job_failed_refund row
    granted,    \* orders with an addon_purchase row
    armed,      \* billingEnforcementEnabled()
    flips       \* how often that changed

buckets == <<alloc, used, addon, resetAt>>
ledger  == <<head, total>>
flag    == <<armed, flips>>
vars    == <<now, plan, buckets, ledger, job, periodEnd, refunded, granted, flag>>

\* A job is absent, running, doomed (it will fail, its transaction has not
\* committed), failed or complete.  Every job is charged for when enqueued.
JobStates == {"absent", "running", "doomed", "failed", "complete"}
Charged   == {j \in Jobs : job[j] # "absent"}

Available(al, us, ad) == (al - us) + ad

\* EnsureBillingRows: a new center is on Free, with empty buckets.
Init ==
    /\ now = 0
    /\ plan = Free
    /\ alloc = 0 /\ used = 0 /\ addon = 0
    /\ resetAt = 1
    /\ head = 0 /\ total = 0
    /\ job = [j \in Jobs |-> "absent"]
    /\ periodEnd = [j \in Jobs |-> 0]
    /\ refunded = {}
    /\ granted = {}
    /\ armed = ArmedAtStart /\ flips = 0

-----------------------------------------------------------------------------
(* applyLazyReset, the first thing every operation does: once the clock has*)
(* reached reset_at the month's use is forgotten, reset_at moves past the  *)
(* clock, and a monthly_grant row brings the ledger to the new balance.    *)

Due == now >= resetAt

RolledUsed    == IF Due THEN 0 ELSE used
RolledResetAt == IF Due THEN now + 1 ELSE resetAt

\* GetLatestLedgerBalanceAfter, past the grant row.
StaleHead  == head  \* mutant: read before the reset
RolledHead == IF Due THEN Available(alloc, 0, addon) ELSE head

TotalKept   == total  \* mutant: the reset writes no grant row
RolledTotal == IF Due THEN total + (Available(alloc, 0, addon) - head) ELSE total

-----------------------------------------------------------------------------
(* Charging a job and giving its credit back.                              *)

SpendsMonthlyLast == RolledUsed < alloc /\ addon = 0  \* mutant: add-ons first
SpendsMonthly     == RolledUsed < alloc

\* consumeCreditTx in the transaction that inserts the job.  A plan without
\* AI freezes the add-ons; an empty balance is a 402: the transaction, a reset
\* included, is rolled back.
EnqueueArmed(j) ==
    /\ armed
    /\ job[j] = "absent"
    /\ Allowance[plan] > 0
    /\ Available(alloc, RolledUsed, addon) > 0
    /\ \/ /\ SpendsMonthly
          /\ used' = RolledUsed + 1
          /\ addon' = addon
          /\ periodEnd' = [periodEnd EXCEPT ![j] = RolledResetAt]
       \/ /\ ~SpendsMonthly
          /\ used' = RolledUsed
          /\ addon' = addon - 1
          /\ periodEnd' = periodEnd
    /\ resetAt' = RolledResetAt
    /\ head' = Available(alloc, used', addon')
    /\ total' = RolledTotal - 1
    /\ job' = [job EXCEPT ![j] = "running"]
    /\ UNCHANGED <<now, plan, alloc, refunded, granted, flag>>

\* InsertJobDeduction: with the flag off only the ledger knows, and the
\* balance of the row is the payer's sum (one payer here).
EnqueueLegacy(j) ==
    /\ ~armed
    /\ job[j] = "absent"
    /\ head' = total - 1
    /\ total' = total - 1
    /\ job' = [job EXCEPT ![j] = "running"]
    /\ UNCHANGED <<now, plan, buckets, periodEnd, refunded, granted, flag>>

\* dispatch: the handler succeeds, or fails for good (or is stuck).
Outcome(j, s) ==
    /\ job[j] = "running"
    /\ job' = [job EXCEPT ![j] = s]
    /\ UNCHANGED <<now, plan, buckets, ledger, periodEnd, refunded, granted, flag>>

\* The credit goes back to the monthly bucket it came from if that is still
\* the current one.
ReclaimAny(j)  == used > 0  \* mutant: whatever it came from
Reclaims(j)    == periodEnd[j] = resetAt /\ used > 0

\* terminalFail with refundCreditTx, by a worker or the sweep.  The tenant of
\* a worker has no user: a reset that is due cannot write its grant row
\* (tenantUUIDs is a ForbiddenError), the transaction is rolled back and the
\* job tried again later.
FailArmed(j) ==
    /\ armed
    /\ job[j] = "doomed"
    /\ ~Due
    /\ \/ Reclaims(j) /\ used' = used - 1 /\ addon' = addon
       \/ ~Reclaims(j) /\ used' = used /\ addon' = addon + 1
    /\ head' = Available(alloc, used', addon')
    /\ total' = total + 1
    /\ job' = [job EXCEPT ![j] = "failed"]
    /\ refunded' = refunded \cup {j}
    /\ UNCHANGED <<now, plan, alloc, resetAt, periodEnd, granted, flag>>

\* RefundJob.
FailLegacy(j) ==
    /\ ~armed
    /\ job[j] = "doomed"
    /\ head' = total + 1
    /\ total' = total + 1
    /\ job' = [job EXCEPT ![j] = "failed"]
    /\ refunded' = refunded \cup {j}
    /\ UNCHANGED <<now, plan, buckets, periodEnd, granted, flag>>

-----------------------------------------------------------------------------
(* The plan, the add-ons, the clock.                                       *)

\* A monthly_grant row for a new allocation.
Regrant(t, us) ==
    /\ plan' = t
    /\ alloc' = Allowance[t]
    /\ used' = us
    /\ head' = Available(Allowance[t], us, addon)
    /\ total' = RolledTotal + (Available(Allowance[t], us, addon) - RolledHead)
    /\ UNCHANGED <<now, addon, job, periodEnd, refunded, granted, flag>>

UsedKept(t)   == RolledUsed  \* mutant: not capped by the lower allocation
CappedUsed(t) == IF RolledUsed > Allowance[t] THEN Allowance[t] ELSE RolledUsed

\* setPlanFromPolarTx, a genuine change (another plan, cycle or period): what
\* was used this month stays used.
PolarPlan(t) ==
    /\ Regrant(t, CappedUsed(t))
    /\ resetAt' = RolledResetAt

\* expireGraceToFreeTx, by a worker: no user, so no reset either.
ExpireToFree ==
    /\ ~Due
    /\ Regrant(Free, CappedUsed(Free))
    /\ UNCHANGED resetAt

\* SetPlan, the override seam: no lazy reset, a fresh month's use.  The row
\* goes straight from the old head to the new balance.
SetPlan(t) ==
    /\ plan' = t
    /\ alloc' = Allowance[t]
    /\ used' = 0
    /\ head' = Available(Allowance[t], 0, addon)
    /\ total' = total + (Available(Allowance[t], 0, addon) - head)
    /\ resetAt' = RolledResetAt
    /\ UNCHANGED <<now, addon, job, periodEnd, refunded, granted, flag>>

\* applyOrderPaidTx, from the webhook or the reconcile of a lost one; an order
\* already granted adds nothing.  Its invoice is left out.
OrderPaid(p) ==
    /\ \/ /\ p \notin granted
          /\ addon' = addon + Pack
          /\ head' = RolledHead + Pack
          /\ total' = RolledTotal + Pack
          /\ granted' = granted \cup {p}
       \/ /\ p \in granted
          /\ head' = RolledHead
          /\ total' = RolledTotal
          /\ UNCHANGED <<addon, granted>>
    /\ used' = RolledUsed
    /\ resetAt' = RolledResetAt
    /\ UNCHANGED <<now, plan, alloc, job, periodEnd, refunded, flag>>

\* GetUsageAndLimits: the owner looks at the meter.
ViewBilling ==
    /\ Due
    /\ used' = 0
    /\ resetAt' = RolledResetAt
    /\ head' = RolledHead
    /\ total' = RolledTotal
    /\ UNCHANGED <<now, plan, alloc, addon, job, periodEnd, refunded, granted, flag>>

NextMonth ==
    /\ now < MaxMonths
    /\ now' = now + 1
    /\ UNCHANGED <<plan, buckets, ledger, job, periodEnd, refunded, granted, flag>>

\* A deployment with the flag changed, jobs in flight.
Flip ==
    /\ flips < MaxFlips
    /\ flips' = flips + 1
    /\ armed' = ~armed
    /\ UNCHANGED <<now, plan, buckets, ledger, job, periodEnd, refunded, granted>>

-----------------------------------------------------------------------------
Fail(j) == FailArmed(j) \/ FailLegacy(j)

Next ==
    \/ \E j \in Jobs : \/ EnqueueArmed(j) \/ EnqueueLegacy(j) \/ Fail(j)
                       \/ \E s \in {"doomed", "complete"} : Outcome(j, s)
    \/ \E t \in Plans : PolarPlan(t) \/ SetPlan(t)
    \/ \E p \in Purchases : OrderPaid(p)
    \/ ExpireToFree
    \/ ViewBilling
    \/ NextMonth
    \/ Flip

Spec == Init /\ [][Next]_vars

-----------------------------------------------------------------------------
(* Properties.                                                             *)

TypeOK ==
    /\ now \in Nat
    /\ plan \in Plans
    /\ alloc \in Nat /\ used \in 0 .. alloc /\ addon \in Nat
    /\ resetAt \in Nat \ {0}
    /\ head \in Int /\ total \in Int
    /\ job \in [Jobs -> JobStates]
    /\ periodEnd \in [Jobs -> Nat]
    /\ refunded \subseteq Jobs
    /\ granted \subseteq Purchases
    /\ armed \in BOOLEAN /\ flips \in 0 .. MaxFlips

\* D14: the buckets are a projection of the ledger.  What the center can spend
\* is the balance of the newest row, after any mix of charges, refunds, resets
\* plan changes and purchases (while the gate is armed).
HeadIsAvailable == head = Available(alloc, used, addon)

\* The ledger is an audit trail: its changes add up to its newest balance, so
\* every credit that came, went or was forfeited has a row.
LedgerAddsUp == total = head

\* Jobs that were charged to the add-on bucket and did not fail.
OnAddon == {j \in Charged \ refunded : periodEnd[j] = 0}

\* FR-64, D17: a purchased credit is in the add-on bucket or was spent on a job
\* that did not fail; no reset, plan change or downgrade and no refund into the
\* wrong bucket ever loses one.
PurchasedNeverLost == addon + Cardinality(OnAddon) >= Pack * Cardinality(granted)

\* The engine keeps the promise of CreditBalance, read off the ledger.
Balance == INSTANCE CreditBalance WITH
    Allowances <- 0 .. MaxAllowance,
    balance <- head, carried <- addon,
    charged <- Charged, returned <- refunded, bought <- granted

ImplementsBalance == Balance!Spec
=============================================================================
