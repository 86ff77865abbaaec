------------------------- MODULE CreditLedgerProofs -------------------------
(***************************************************************************)
(* Theorems about the credit engine, for any number of jobs, orders and    *)
(* months and any catalog of plans.                                        *)
(*                                                                         *)
(* Three inductive invariants.  Shape holds whatever is deployed: the rows *)
(* are well-formed, and at worst a failed job has cost a purchased credit. *)
(* RInv is what survives the roll-out of the gate, as long as it is not    *)
(* disarmed again: before it, purchased credits are not spent; from then   *)
(* on each one spent is on a job that did not fail.  IInv adds, where the  *)
(* gate was armed from the start, two facts that only hold together: the   *)
(* buckets are the newest balance (D14), and the changes add up to it.  A  *)
(* charge writes the balance from the buckets and the change from the old  *)
(* balance, a purchase does the reverse: neither survives alone.           *)
(***************************************************************************)
EXTENDS CreditLedger, FiniteSetTheorems, TLAPS

\* The gate may be armed by a deployment, and is not disarmed again.
NeverDisarmed == MaxFlips <= (IF ArmedAtStart THEN 0 ELSE 1)

\* The gate is armed, and stays so.
AlwaysArmed == ArmedAtStart = TRUE /\ MaxFlips = 0

\* Armed is once and for all.
OneWay == armed <=> ArmedAtStart \/ flips # 0

\* As long as the gate is disarmed nothing is spent from the add-on bucket.
SpareAddons == ~armed => addon >= Pack * Cardinality(granted)

\* Jobs that were charged to the add-on bucket, failed or not.
EverOnAddon == {j \in Charged : periodEnd[j] = 0}

LossBounded == addon + Cardinality(EverOnAddon) >= Pack * Cardinality(granted)

Shape ==
    /\ TypeOK
    /\ refunded = {j \in Jobs : job[j] = "failed"}
    /\ \A j \in Jobs : job[j] = "absent" => periodEnd[j] = 0
    /\ LossBounded

RInv ==
    /\ Shape
    /\ OneWay
    /\ SpareAddons
    /\ PurchasedNeverLost

IInv ==
    /\ RInv
    /\ armed
    /\ HeadIsAvailable
    /\ LedgerAddsUp

-----------------------------------------------------------------------------
(* The catalog, the reset, and the add-on bucket.                          *)

\* The largest allowance bounds every plan's (LimitsFor).
LEMMA AllowanceBounded ==
    /\ MaxAllowance \in Nat
    /\ \A t \in Plans : Allowance[t] <= MaxAllowance
<1> DEFINE S == {Allowance[t] : t \in Plans}
           P(n) == \A t \in Plans : Allowance[t] <= n
<1>1. \E n \in S : P(n)
  BY CreditLedgerAssumption
<1>2. (CHOOSE n \in S : P(n)) \in S /\ P(CHOOSE n \in S : P(n))
  BY <1>1
<1>3. S \subseteq Nat
  BY CreditLedgerAssumption
<1> QED
  BY <1>2, <1>3 DEF MaxAllowance

\* applyLazyReset leaves a month, and a ledger, that can be.
LEMMA ResetTyped ==
    ASSUME TypeOK
    PROVE  /\ RolledUsed \in 0 .. alloc
           /\ RolledResetAt \in Nat \ {0}
           /\ RolledHead \in Int /\ RolledTotal \in Int
BY DEF TypeOK, RolledUsed, RolledResetAt, RolledHead, RolledTotal, Available, Due

\* It brings the ledger to the buckets.
LEMMA ResetAgrees ==
    ASSUME IInv
    PROVE  /\ RolledUsed \in 0 .. alloc
           /\ RolledResetAt \in Nat \ {0}
           /\ RolledHead = Available(alloc, RolledUsed, addon)
           /\ RolledTotal = RolledHead
BY DEF IInv, RInv, Shape, TypeOK, HeadIsAvailable, LedgerAddsUp, RolledUsed, RolledResetAt,
       RolledHead, RolledTotal, Available, Due

\* The jobs on the add-on bucket are finitely many.
LEMMA JobsFinite ==
    ASSUME NEW S \in SUBSET Jobs
    PROVE  IsFiniteSet(S) /\ Cardinality(S) \in Nat
BY CreditLedgerAssumption, FS_Subset, FS_CardinalityType

\* What was bought is a number of credits.
LEMMA BoughtTyped ==
    ASSUME TypeOK
    PROVE  Pack * Cardinality(granted) \in Nat
<1>1. IsFiniteSet(granted)
  BY CreditLedgerAssumption, FS_Subset DEF TypeOK
<1>2. Cardinality(granted) \in Nat /\ Pack \in Nat
  BY <1>1, FS_CardinalityType, CreditLedgerAssumption
<1> QED
  BY <1>2

\* One more order is one more pack.
LEMMA OneMoreOrder ==
    ASSUME NEW p \in Purchases, granted \subseteq Purchases, p \notin granted
    PROVE  Pack * Cardinality(granted \cup {p}) = Pack * Cardinality(granted) + Pack
<1>1. IsFiniteSet(granted)
  BY CreditLedgerAssumption, FS_Subset
<1>2. /\ Cardinality(granted) \in Nat /\ Pack \in Nat
      /\ Cardinality(granted \cup {p}) = Cardinality(granted) + 1
  BY <1>1, FS_AddElement, FS_CardinalityType, CreditLedgerAssumption
<1> QED
  BY <1>2

-----------------------------------------------------------------------------
(* Each operation keeps Shape.                                             *)

\* A charge takes from the add-on bucket what it counts as charged to it: for
\* any set of jobs that gets j if that is where the credit came from.
LEMMA ChargeCounts ==
    ASSUME TypeOK, NEW j \in Jobs, EnqueueArmed(j), addon' \in Nat,
           NEW A \in SUBSET Jobs, NEW B \in SUBSET Jobs, j \notin A,
           B = A \/ B = A \cup {j}, addon' # addon => B = A \cup {j},
           addon + Cardinality(A) >= Pack * Cardinality(granted)
    PROVE  addon' + Cardinality(B) >= Pack * Cardinality(granted)
<1>1. /\ Cardinality(A) \in Nat /\ IsFiniteSet(A)
      /\ Cardinality(A \cup {j}) = Cardinality(A) + 1
  BY JobsFinite, FS_AddElement
<1>2. addon' = addon \/ addon' = addon - 1
  BY DEF EnqueueArmed
<1>3. addon \in Nat /\ Pack * Cardinality(granted) \in Nat
  BY BoughtTyped DEF TypeOK
<1>4. CASE B = A \cup {j}
  <2>1. Cardinality(B) = Cardinality(A) + 1
    BY <1>1, <1>4
  <2> QED
    BY <2>1, <1>1, <1>2, <1>3
<1>5. CASE B = A /\ addon' = addon
  BY <1>5
<1> QED
  BY <1>4, <1>5

\* One more job counted as charged loses nothing.
LEMMA MoreCounts ==
    ASSUME TypeOK, NEW A \in SUBSET Jobs, NEW B \in SUBSET Jobs, A \subseteq B,
           addon + Cardinality(A) >= Pack * Cardinality(granted)
    PROVE  addon + Cardinality(B) >= Pack * Cardinality(granted)
<1>1. /\ Cardinality(A) \in Nat /\ Cardinality(B) \in Nat
      /\ Cardinality(A) <= Cardinality(B)
  BY JobsFinite, FS_Subset
<1>2. addon \in Nat /\ Pack * Cardinality(granted) \in Nat
  BY BoughtTyped DEF TypeOK
<1> QED
  BY <1>1, <1>2

\* A payment adds to the bucket what it counts as bought.
LEMMA OrderCounts ==
    ASSUME TypeOK, NEW p \in Purchases, OrderPaid(p)
    PROVE  /\ addon \in Nat /\ addon' \in Nat
           /\ Pack * Cardinality(granted) \in Nat
           /\ \E n \in Nat :
                /\ addon' = addon + n
                /\ Pack * Cardinality(granted') = Pack * Cardinality(granted) + n
<1>1. /\ Pack * Cardinality(granted) \in Nat /\ Pack \in Nat /\ addon \in Nat
      /\ granted \subseteq Purchases
  BY BoughtTyped, CreditLedgerAssumption DEF TypeOK
<1>2. CASE granted' = granted /\ addon' = addon
  BY <1>1, <1>2
<1>3. CASE p \notin granted /\ granted' = granted \cup {p} /\ addon' = addon + Pack
  BY <1>1, <1>3, OneMoreOrder
<1> QED
  BY <1>2, <1>3 DEF OrderPaid

LEMMA EnqueueArmedShape ==
    ASSUME Shape, NEW j \in Jobs, EnqueueArmed(j)
    PROVE  Shape'
<1>1. TypeOK /\ periodEnd[j] = 0 /\ job[j] = "absent" /\ j \notin refunded
  BY DEF Shape, EnqueueArmed
<1>2. /\ RolledUsed \in 0 .. alloc /\ RolledResetAt \in Nat \ {0} /\ RolledTotal \in Int
      /\ alloc \in Nat /\ addon \in Nat
  BY <1>1, ResetTyped DEF TypeOK
<1>3. UNCHANGED <<now, plan, alloc, refunded, granted, armed, flips>>
  BY DEF EnqueueArmed, flag
<1>4. /\ job' = [job EXCEPT ![j] = "running"]
      /\ resetAt' = RolledResetAt
      /\ head' = Available(alloc, used', addon')
      /\ total' = RolledTotal - 1
  BY DEF EnqueueArmed
<1>5. \/ /\ SpendsMonthly
         /\ used' = RolledUsed + 1 /\ addon' = addon
         /\ periodEnd' = [periodEnd EXCEPT ![j] = RolledResetAt]
      \/ /\ ~SpendsMonthly
         /\ used' = RolledUsed /\ addon' = addon - 1
         /\ periodEnd' = periodEnd
  BY DEF EnqueueArmed
<1>6. Available(alloc, RolledUsed, addon) > 0
  BY DEF EnqueueArmed
<1>7. used' \in 0 .. alloc /\ addon' \in Nat
  BY <1>2, <1>5, <1>6 DEF SpendsMonthly, Available
<1>8. head' \in Int /\ total' \in Int
  BY <1>2, <1>4, <1>7 DEF Available
<1>9. periodEnd' \in [Jobs -> Nat] /\ job' \in [Jobs -> JobStates]
  BY <1>1, <1>2, <1>4, <1>5 DEF TypeOK, JobStates
<1>10. TypeOK'
  BY <1>1, <1>2, <1>3, <1>4, <1>7, <1>8, <1>9 DEF TypeOK
<1>11. /\ refunded' = {k \in Jobs : job'[k] = "failed"}
       /\ \A k \in Jobs : job'[k] = "absent" => periodEnd'[k] = 0
  BY <1>1, <1>3, <1>4, <1>5 DEF TypeOK, Shape
<1>12. LossBounded'
  <2> DEFINE A == EverOnAddon
             B == EverOnAddon'
  <2>1. A \in SUBSET Jobs /\ B \in SUBSET Jobs /\ j \notin A
    BY <1>1 DEF EverOnAddon, Charged
  <2>2. addon' # addon => periodEnd' = periodEnd
    BY <1>5
  <2>3. (B = A \/ B = A \cup {j}) /\ (addon' # addon => B = A \cup {j})
    BY <1>1, <1>2, <1>4, <1>5, <2>2 DEF EverOnAddon, Charged, TypeOK
  <2>4. addon + Cardinality(A) >= Pack * Cardinality(granted)
    BY DEF Shape, LossBounded
  <2> HIDE DEF A, B
  <2>5. addon' + Cardinality(B) >= Pack * Cardinality(granted)
    BY <1>1, <1>7, <2>1, <2>3, <2>4, ChargeCounts
  <2> QED
    BY <2>5, <1>3 DEF LossBounded, B
<1> QED
  BY <1>10, <1>11, <1>12 DEF Shape

LEMMA EnqueueLegacyShape ==
    ASSUME Shape, NEW j \in Jobs, EnqueueLegacy(j)
    PROVE  Shape'
<1>1. TypeOK /\ periodEnd[j] = 0 /\ job[j] = "absent"
  BY DEF Shape, EnqueueLegacy
<1>2. /\ UNCHANGED <<now, plan, alloc, used, addon, resetAt, periodEnd, refunded, granted,
                     armed, flips>>
      /\ head' = total - 1 /\ total' = total - 1
      /\ job' = [job EXCEPT ![j] = "running"]
  BY DEF EnqueueLegacy, buckets, flag
<1>3. TypeOK'
  BY <1>1, <1>2 DEF TypeOK, JobStates
<1>4. /\ refunded' = {k \in Jobs : job'[k] = "failed"}
      /\ \A k \in Jobs : job'[k] = "absent" => periodEnd'[k] = 0
  BY <1>1, <1>2 DEF Shape, TypeOK
<1>5. LossBounded'
  <2> DEFINE A == EverOnAddon
             B == EverOnAddon'
  <2>1. A \in SUBSET Jobs /\ B \in SUBSET Jobs /\ A \subseteq B
    BY <1>1, <1>2 DEF EverOnAddon, Charged, TypeOK
  <2>2. addon + Cardinality(A) >= Pack * Cardinality(granted)
    BY DEF Shape, LossBounded
  <2> HIDE DEF A, B
  <2>3. addon + Cardinality(B) >= Pack * Cardinality(granted)
    BY <1>1, <2>1, <2>2, MoreCounts
  <2> QED
    BY <2>3, <1>2 DEF LossBounded, B
<1> QED
  BY <1>3, <1>4, <1>5 DEF Shape

LEMMA OutcomeShape ==
    ASSUME Shape, NEW j \in Jobs, NEW s \in {"doomed", "complete"}, Outcome(j, s)
    PROVE  Shape' /\ Charged' = Charged
<1>1. TypeOK'
  BY DEF Shape, TypeOK, Outcome, buckets, ledger, flag, JobStates
<1>2. /\ refunded' = {k \in Jobs : job'[k] = "failed"}
      /\ \A k \in Jobs : job'[k] = "absent" => periodEnd'[k] = 0
  BY DEF Shape, TypeOK, Outcome
<1>3. Charged' = Charged
  BY DEF Shape, TypeOK, Outcome, Charged
<1>4. LossBounded'
  BY <1>3 DEF Shape, Outcome, LossBounded, EverOnAddon, buckets
<1> QED
  BY <1>1, <1>2, <1>3, <1>4 DEF Shape

\* A refund, to a bucket or to the ledger alone.
LEMMA FailShape ==
    ASSUME Shape, NEW j \in Jobs, Fail(j)
    PROVE  Shape' /\ Charged' = Charged
<1>1. TypeOK /\ job[j] = "doomed" /\ alloc \in Nat /\ total \in Int
  BY DEF Shape, TypeOK, Fail, FailArmed, FailLegacy
<1>2. UNCHANGED <<now, plan, alloc, resetAt, periodEnd, granted, armed, flips>>
  BY DEF Fail, FailArmed, FailLegacy, flag, buckets
<1>3. /\ job' = [job EXCEPT ![j] = "failed"]
      /\ refunded' = refunded \cup {j}
  BY DEF Fail, FailArmed, FailLegacy
<1>4. \/ Reclaims(j) /\ used' = used - 1 /\ addon' = addon
      \/ used' = used /\ addon' = addon + 1
      \/ used' = used /\ addon' = addon
  BY DEF Fail, FailArmed, FailLegacy, buckets
<1>5. used' \in 0 .. alloc /\ addon' \in Nat /\ addon <= addon'
  BY <1>1, <1>4 DEF Reclaims, TypeOK
<1>6. head' \in Int /\ total' \in Int
  <2>1. total' = total + 1
    BY DEF Fail, FailArmed, FailLegacy
  <2>2. head' = (alloc - used') + addon' \/ head' = total + 1
    BY DEF Fail, FailArmed, FailLegacy, Available
  <2> QED
    BY <2>1, <2>2, <1>1, <1>5
<1>7. TypeOK'
  BY <1>1, <1>2, <1>3, <1>5, <1>6 DEF TypeOK, JobStates
<1>8. /\ refunded' = {k \in Jobs : job'[k] = "failed"}
      /\ \A k \in Jobs : job'[k] = "absent" => periodEnd'[k] = 0
  BY <1>1, <1>2, <1>3 DEF Shape, TypeOK
<1>9. Charged' = Charged
  BY <1>1, <1>3 DEF Charged, TypeOK
<1>10. LossBounded'
  <2> DEFINE A == EverOnAddon
  <2>1. EverOnAddon' = A /\ A \in SUBSET Jobs
    BY <1>2, <1>9 DEF EverOnAddon, Charged
  <2>2. Cardinality(A) \in Nat
    BY <2>1, JobsFinite
  <2>3. addon + Cardinality(A) >= Pack * Cardinality(granted)
    BY DEF Shape, LossBounded
  <2>4. addon \in Nat /\ Pack * Cardinality(granted) \in Nat
    BY <1>1, BoughtTyped DEF TypeOK
  <2> HIDE DEF A
  <2>5. addon' + Cardinality(A) >= Pack * Cardinality(granted)
    BY <1>5, <2>2, <2>3, <2>4
  <2> QED
    BY <2>1, <2>5, <1>2 DEF LossBounded
<1> QED
  BY <1>7, <1>8, <1>9, <1>10 DEF Shape

\* A plan change by whatever way, a reset, a deployment, time.
LEMMA MonthShape ==
    ASSUME Shape, plan' \in Plans, alloc' \in Nat, used' \in 0 .. alloc', now' \in Nat,
           resetAt' \in Nat \ {0}, head' \in Int, total' \in Int,
           armed' \in BOOLEAN, flips' \in 0 .. MaxFlips,
           UNCHANGED <<addon, job, periodEnd, refunded, granted>>
    PROVE  Shape'
<1>1. TypeOK'
  BY DEF Shape, TypeOK
<1> QED
  BY <1>1 DEF Shape, LossBounded, EverOnAddon, Charged

\* A new allocation after a reset.
LEMMA RegrantTyped ==
    ASSUME TypeOK, NEW t \in Plans, NEW us \in 0 .. Allowance[t], Regrant(t, us)
    PROVE  /\ plan' \in Plans /\ alloc' \in Nat /\ used' \in 0 .. alloc' /\ now' \in Nat
           /\ head' \in Int /\ total' \in Int
<1>1. Allowance[t] \in Nat /\ addon \in Nat /\ RolledHead \in Int /\ RolledTotal \in Int
  BY ResetTyped, CreditLedgerAssumption DEF TypeOK
<1>2. head' \in Int
  BY <1>1 DEF Regrant, Available
<1>3. total' \in Int
  BY <1>1 DEF Regrant, Available
<1> QED
  BY <1>1, <1>2, <1>3 DEF Regrant, TypeOK

\* What was used is not more than the new allocation.
LEMMA CappedTyped ==
    ASSUME TypeOK, NEW t \in Plans
    PROVE  CappedUsed(t) \in 0 .. Allowance[t]
<1>1. Allowance[t] \in Nat /\ RolledUsed \in Nat
  BY ResetTyped, CreditLedgerAssumption DEF TypeOK
<1> QED
  BY <1>1 DEF CappedUsed

LEMMA PlanShape ==
    ASSUME Shape, NEW t \in Plans, PolarPlan(t) \/ SetPlan(t)
    PROVE  Shape'
<1>1. /\ TypeOK /\ Allowance[t] \in Nat /\ addon \in Nat /\ head \in Int /\ total \in Int
      /\ armed \in BOOLEAN /\ flips \in 0 .. MaxFlips /\ now \in Nat
  BY CreditLedgerAssumption DEF Shape, TypeOK
<1>2. /\ resetAt' \in Nat \ {0}
      /\ UNCHANGED <<now, addon, job, periodEnd, refunded, granted, armed, flips>>
  BY <1>1, ResetTyped DEF PolarPlan, SetPlan, Regrant, flag
<1>3. CASE PolarPlan(t)
  <2>1. /\ plan' \in Plans /\ alloc' \in Nat /\ used' \in 0 .. alloc'
        /\ head' \in Int /\ total' \in Int
    BY <1>1, <1>3, CappedTyped, RegrantTyped DEF PolarPlan
  <2> QED
    BY <1>1, <1>2, <2>1, MonthShape
<1>4. CASE SetPlan(t)
  <2>1. /\ plan' = t /\ alloc' = Allowance[t] /\ used' = 0
        /\ head' = (Allowance[t] - 0) + addon
        /\ total' = total + (((Allowance[t] - 0) + addon) - head)
    BY <1>4 DEF SetPlan, Available
  <2>2. head' \in Int /\ total' \in Int
    BY <1>1, <2>1
  <2> QED
    BY <1>1, <1>2, <2>1, <2>2, MonthShape
<1> QED
  BY <1>3, <1>4

LEMMA ExpireShape ==
    ASSUME Shape, ExpireToFree
    PROVE  Shape'
<1>1. /\ TypeOK /\ Free \in Plans /\ resetAt \in Nat \ {0}
      /\ armed \in BOOLEAN /\ flips \in 0 .. MaxFlips
  BY CreditLedgerAssumption DEF Shape, TypeOK
<1>2. /\ plan' \in Plans /\ alloc' \in Nat /\ used' \in 0 .. alloc' /\ now' \in Nat
      /\ head' \in Int /\ total' \in Int
  BY <1>1, CappedTyped, RegrantTyped DEF ExpireToFree
<1>3. UNCHANGED <<resetAt, addon, job, periodEnd, refunded, granted, armed, flips>>
  BY DEF ExpireToFree, Regrant, flag
<1> QED
  BY <1>1, <1>2, <1>3, MonthShape

LEMMA OrderPaidShape ==
    ASSUME Shape, NEW p \in Purchases, OrderPaid(p)
    PROVE  Shape'
<1>1. TypeOK /\ plan \in Plans /\ alloc \in Nat /\ addon \in Nat /\ Pack \in Nat
  BY CreditLedgerAssumption DEF Shape, TypeOK
<1>2. UNCHANGED <<now, plan, alloc, job, periodEnd, refunded, armed, flips>>
  BY DEF OrderPaid, flag
<1>3. /\ used' \in 0 .. alloc /\ addon' \in Nat /\ resetAt' \in Nat \ {0}
      /\ head' \in Int /\ total' \in Int
  BY <1>1, ResetTyped DEF OrderPaid
<1>4. granted' \subseteq Purchases
  BY <1>1 DEF OrderPaid, TypeOK
<1>5. TypeOK'
  BY <1>1, <1>2, <1>3, <1>4 DEF TypeOK
<1>6. LossBounded'
  <2> DEFINE A == EverOnAddon
  <2>1. EverOnAddon' = A /\ A \in SUBSET Jobs
    BY <1>2 DEF EverOnAddon, Charged
  <2>2. Cardinality(A) \in Nat
    BY <2>1, JobsFinite
  <2>3. addon + Cardinality(A) >= Pack * Cardinality(granted)
    BY DEF Shape, LossBounded
  <2> HIDE DEF A
  <2>4. addon' + Cardinality(A) >= Pack * Cardinality(granted')
    BY <1>1, <2>2, <2>3, OrderCounts
  <2> QED
    BY <2>1, <2>4 DEF LossBounded
<1> QED
  BY <1>2, <1>5, <1>6 DEF Shape

\* Deployments, the owner and time.
LEMMA OthersShape ==
    ASSUME Shape, Flip \/ ViewBilling \/ NextMonth \/ UNCHANGED vars
    PROVE  Shape' /\ Charged' = Charged
<1>1. /\ TypeOK /\ MaxFlips \in Nat /\ flips \in 0 .. MaxFlips /\ armed \in BOOLEAN
      /\ alloc \in Nat /\ now \in Nat
  BY CreditLedgerAssumption DEF Shape, TypeOK
<1>2. UNCHANGED <<plan, alloc, addon, job, periodEnd, refunded, granted>>
  BY DEF Flip, ViewBilling, NextMonth, vars, buckets
<1>3. armed' \in BOOLEAN /\ flips' \in 0 .. MaxFlips /\ now' \in Nat
  <2>1. \/ armed' = ~armed /\ flips' = flips + 1 /\ flips < MaxFlips
        \/ armed' = armed /\ flips' = flips
    BY DEF Flip, ViewBilling, NextMonth, vars, flag
  <2>2. now' = now \/ now' = now + 1
    BY DEF Flip, ViewBilling, NextMonth, vars
  <2>3. armed' \in BOOLEAN
    BY <1>1, <2>1
  <2>4. flips' \in 0 .. MaxFlips /\ now' \in Nat
    BY <1>1, <2>1, <2>2
  <2> QED
    BY <2>3, <2>4
<1>4. /\ used' \in 0 .. alloc /\ resetAt' \in Nat \ {0} /\ head' \in Int /\ total' \in Int
  <2>1. CASE ViewBilling
    BY <1>1, <2>1, ResetTyped DEF ViewBilling
  <2>2. CASE UNCHANGED <<used, resetAt, head, total>>
    BY <1>1, <2>2 DEF TypeOK
  <2> QED
    BY <2>1, <2>2 DEF Flip, NextMonth, vars, buckets, ledger
<1>5. plan \in Plans
  BY DEF Shape, TypeOK
<1> QED
  BY <1>1, <1>2, <1>3, <1>4, <1>5, MonthShape DEF Charged

LEMMA InitShape == Init => Shape
<1> SUFFICES ASSUME Init
             PROVE  Shape
  OBVIOUS
<1>1. TypeOK
  BY CreditLedgerAssumption DEF Init, TypeOK, JobStates
<1>2. /\ refunded = {j \in Jobs : job[j] = "failed"}
      /\ \A j \in Jobs : job[j] = "absent" => periodEnd[j] = 0
  BY DEF Init
<1>3. LossBounded
  <2>1. EverOnAddon = {} /\ granted = {} /\ addon = 0
    BY DEF Init, EverOnAddon, Charged
  <2> QED
    BY <2>1, FS_EmptySet, CreditLedgerAssumption DEF LossBounded
<1> QED
  BY <1>1, <1>2, <1>3 DEF Shape

LEMMA StepShape ==
    ASSUME Shape, [Next]_vars
    PROVE  Shape'
<1>1. CASE \E j \in Jobs : \/ EnqueueArmed(j) \/ EnqueueLegacy(j) \/ Fail(j)
                          \/ \E s \in {"doomed", "complete"} : Outcome(j, s)
  BY <1>1, EnqueueArmedShape, EnqueueLegacyShape, FailShape, OutcomeShape
<1>2. CASE \E t \in Plans : PolarPlan(t) \/ SetPlan(t)
  BY <1>2, PlanShape
<1>3. CASE \E p \in Purchases : OrderPaid(p)
  BY <1>3, OrderPaidShape
<1>4. CASE ExpireToFree
  BY <1>4, ExpireShape
<1>5. CASE Flip \/ ViewBilling \/ NextMonth \/ UNCHANGED vars
  BY <1>5, OthersShape
<1> QED
  BY <1>1, <1>2, <1>3, <1>4, <1>5 DEF Next

\* Shape holds as long as the center exists.
THEOREM ShapeInductive == Spec => []Shape
BY InitShape, StepShape, PTL DEF Spec

-----------------------------------------------------------------------------
(* The gate is armed once, or was from the start.                          *)

\* Most operations leave the purchases and the gate alone.
LEMMA PurchasesUntouched ==
    ASSUME RInv, UNCHANGED <<addon, Charged, periodEnd, refunded, granted, armed, flips>>
    PROVE  OneWay' /\ SpareAddons' /\ PurchasedNeverLost'
BY DEF RInv, OneWay, SpareAddons, PurchasedNeverLost, OnAddon

LEMMA ChargeKeeps ==
    ASSUME RInv, Shape', NEW j \in Jobs, EnqueueArmed(j) \/ EnqueueLegacy(j)
    PROVE  OneWay' /\ SpareAddons' /\ PurchasedNeverLost'
<1>1. TypeOK /\ periodEnd[j] = 0 /\ job[j] = "absent" /\ j \notin refunded
  BY DEF RInv, Shape, EnqueueArmed, EnqueueLegacy
<1>2. /\ UNCHANGED <<refunded, granted, armed, flips>>
      /\ job' = [job EXCEPT ![j] = "running"]
      /\ addon' \in Nat
  BY DEF EnqueueArmed, EnqueueLegacy, flag, Shape, TypeOK
<1>3. \/ addon' = addon /\ periodEnd' = [periodEnd EXCEPT ![j] = RolledResetAt]
      \/ addon' = addon - 1 /\ periodEnd' = periodEnd
      \/ EnqueueLegacy(j) /\ addon' = addon /\ periodEnd' = periodEnd
  BY DEF EnqueueArmed, EnqueueLegacy, buckets
<1>4. OneWay' /\ SpareAddons'
  <2>1. CASE EnqueueLegacy(j)
    BY <1>2, <2>1 DEF RInv, OneWay, SpareAddons, EnqueueLegacy, buckets
  <2>2. CASE EnqueueArmed(j)
    BY <1>2, <2>2 DEF RInv, OneWay, SpareAddons, EnqueueArmed
  <2> QED
    BY <2>1, <2>2
<1>5. PurchasedNeverLost'
  <2> DEFINE A == OnAddon
             B == OnAddon'
  <2>1. A \in SUBSET Jobs /\ B \in SUBSET Jobs /\ j \notin A
    BY <1>1 DEF OnAddon, Charged
  <2>2. addon \in Nat /\ RolledResetAt \in Nat \ {0}
    BY <1>1, ResetTyped DEF TypeOK
  <2>3. addon' # addon => periodEnd' = periodEnd
    BY <1>3
  <2>4. (B = A \/ B = A \cup {j}) /\ (addon' # addon => B = A \cup {j})
    BY <1>1, <1>2, <1>3, <2>2, <2>3 DEF OnAddon, Charged, TypeOK
  <2>5. addon + Cardinality(A) >= Pack * Cardinality(granted)
    BY DEF RInv, PurchasedNeverLost
  <2> HIDE DEF A, B
  <2>6. CASE EnqueueArmed(j)
    <3>1. addon' + Cardinality(B) >= Pack * Cardinality(granted)
      BY <1>1, <1>2, <2>1, <2>4, <2>5, <2>6, ChargeCounts
    <3> QED
      BY <3>1, <1>2 DEF PurchasedNeverLost, B
  <2>7. CASE EnqueueLegacy(j)
    <3>1. addon' = addon /\ A \subseteq B
      BY <2>4, <2>7 DEF EnqueueLegacy, buckets
    <3>2. addon + Cardinality(B) >= Pack * Cardinality(granted)
      BY <1>1, <2>1, <2>5, <3>1, MoreCounts
    <3> QED
      BY <3>1, <3>2, <1>2 DEF PurchasedNeverLost, B
  <2> QED
    BY <2>6, <2>7
<1> QED
  BY <1>4, <1>5

\* The credit goes back to the bucket, where it came from one.
LEMMA RefundKeeps ==
    ASSUME RInv, Shape', NEW j \in Jobs, FailArmed(j)
    PROVE  OneWay' /\ SpareAddons' /\ PurchasedNeverLost'
<1>1. TypeOK /\ job[j] = "doomed" /\ j \notin refunded /\ armed
  BY DEF RInv, Shape, FailArmed
<1>2. /\ UNCHANGED <<resetAt, periodEnd, granted, armed, flips>>
      /\ job' = [job EXCEPT ![j] = "failed"]
      /\ refunded' = refunded \cup {j}
      /\ \/ Reclaims(j) /\ addon' = addon
         \/ ~Reclaims(j) /\ addon' = addon + 1
  BY DEF FailArmed, flag
<1>3. OneWay' /\ SpareAddons'
  BY <1>1, <1>2 DEF RInv, SpareAddons, OneWay
<1>4. PurchasedNeverLost'
  <2> DEFINE A == OnAddon
             B == OnAddon'
  <2>1. B = A \ {j}
    BY <1>1, <1>2 DEF OnAddon, Charged, TypeOK
  <2>2. A \subseteq Jobs
    BY DEF OnAddon, Charged
  <2>3. IsFiniteSet(A) /\ Cardinality(A) \in Nat /\ Cardinality(B) \in Nat
    BY <2>1, <2>2, JobsFinite
  <2>4. /\ j \in A => Cardinality(B) = Cardinality(A) - 1
        /\ j \notin A => Cardinality(B) = Cardinality(A)
    BY <2>1, <2>3, FS_RemoveElement
  <2>5. Reclaims(j) => j \notin A
    BY <1>1 DEF Reclaims, OnAddon, TypeOK
  <2>6. addon + Cardinality(A) >= Pack * Cardinality(granted)
    BY DEF RInv, PurchasedNeverLost
  <2>7. addon \in Nat /\ Pack * Cardinality(granted) \in Nat
    BY <1>1, BoughtTyped DEF TypeOK
  <2> HIDE DEF A, B
  <2>8. addon' + Cardinality(B) >= Pack * Cardinality(granted)
    BY <2>3, <2>4, <2>5, <2>6, <2>7, <1>2
  <2> QED
    BY <2>8, <1>2 DEF PurchasedNeverLost, B
<1> QED
  BY <1>3, <1>4

\* While the gate is disarmed a refund is no business of the buckets, and all
\* that was bought is still in them.
LEMMA LegacyRefundKeeps ==
    ASSUME RInv, NEW j \in Jobs, FailLegacy(j)
    PROVE  OneWay' /\ SpareAddons' /\ PurchasedNeverLost'
<1>1. TypeOK /\ ~armed /\ UNCHANGED <<addon, granted, armed, flips>>
  BY DEF RInv, Shape, FailLegacy, buckets, flag
<1>2. OneWay' /\ SpareAddons'
  BY <1>1 DEF RInv, SpareAddons, OneWay
<1>3. PurchasedNeverLost'
  <2> DEFINE B == OnAddon'
  <2>1. B \subseteq Jobs
    BY DEF OnAddon, Charged
  <2>2. Cardinality(B) \in Nat
    BY <2>1, JobsFinite
  <2>3. addon >= Pack * Cardinality(granted)
    BY <1>1 DEF RInv, SpareAddons
  <2>4. addon \in Nat /\ Pack * Cardinality(granted) \in Nat
    BY <1>1, BoughtTyped DEF TypeOK
  <2> HIDE DEF B
  <2>5. addon + Cardinality(B) >= Pack * Cardinality(granted)
    BY <2>2, <2>3, <2>4
  <2> QED
    BY <2>5, <1>1 DEF PurchasedNeverLost, B
<1> QED
  BY <1>2, <1>3

LEMMA OrderKeeps ==
    ASSUME RInv, NEW p \in Purchases, OrderPaid(p)
    PROVE  OneWay' /\ SpareAddons' /\ PurchasedNeverLost'
<1>1. TypeOK /\ UNCHANGED <<job, periodEnd, refunded, armed, flips>>
  BY DEF RInv, Shape, OrderPaid, flag
<1>2. OneWay' /\ OnAddon' = OnAddon
  BY <1>1 DEF RInv, OneWay, OnAddon, Charged
<1>3. SpareAddons'
  BY <1>1, OrderCounts DEF RInv, SpareAddons
<1>4. PurchasedNeverLost'
  <2> DEFINE A == OnAddon
  <2>1. A \in SUBSET Jobs
    BY DEF OnAddon, Charged
  <2>2. Cardinality(A) \in Nat
    BY <2>1, JobsFinite
  <2>3. addon + Cardinality(A) >= Pack * Cardinality(granted) /\ OnAddon' = A
    BY <1>2 DEF RInv, PurchasedNeverLost
  <2> HIDE DEF A
  <2>4. addon' + Cardinality(A) >= Pack * Cardinality(granted')
    BY <1>1, <2>2, <2>3, OrderCounts
  <2> QED
    BY <2>3, <2>4 DEF PurchasedNeverLost
<1> QED
  BY <1>2, <1>3, <1>4

\* The gate is armed: what was spare is now there to be spent.
LEMMA FlipKeeps ==
    ASSUME NeverDisarmed, RInv, Flip
    PROVE  OneWay' /\ SpareAddons' /\ PurchasedNeverLost'
<1>1. MaxFlips \in Nat /\ flips \in Nat /\ ArmedAtStart \in BOOLEAN
  BY CreditLedgerAssumption DEF RInv, Shape, TypeOK
<1>2. flips' = flips + 1 /\ flips < MaxFlips
  BY DEF Flip
<1>3. flips = 0 /\ ~ArmedAtStart
  BY <1>1, <1>2 DEF NeverDisarmed
<1>4. ~armed /\ armed'
  BY <1>3 DEF RInv, OneWay, Flip
<1>5. OneWay' /\ SpareAddons'
  BY <1>1, <1>2, <1>4 DEF SpareAddons, OneWay
<1>6. PurchasedNeverLost'
  BY DEF RInv, Flip, PurchasedNeverLost, OnAddon, Charged, buckets
<1> QED
  BY <1>5, <1>6

LEMMA RolloutInit == Init => RInv
<1> SUFFICES ASSUME Init
             PROVE  RInv
  OBVIOUS
<1>1. Shape /\ OneWay
  BY InitShape DEF Init, OneWay
<1>2. OnAddon = {} /\ granted = {} /\ addon = 0
  BY DEF Init, OnAddon, Charged
<1>3. SpareAddons /\ PurchasedNeverLost
  BY <1>2, FS_EmptySet, CreditLedgerAssumption DEF PurchasedNeverLost, SpareAddons
<1> QED
  BY <1>1, <1>3 DEF RInv

LEMMA RolloutStep ==
    ASSUME NeverDisarmed, RInv, [Next]_vars
    PROVE  RInv'
<1>1. Shape /\ Shape'
  BY StepShape DEF RInv
<1>2. SUFFICES OneWay' /\ SpareAddons' /\ PurchasedNeverLost'
  BY <1>1 DEF RInv
<1>3. CASE \E j \in Jobs : EnqueueArmed(j) \/ EnqueueLegacy(j) \/ Fail(j)
  BY <1>1, <1>3, ChargeKeeps, RefundKeeps, LegacyRefundKeeps DEF Fail
<1>4. CASE \E p \in Purchases : OrderPaid(p)
  BY <1>4, OrderKeeps
<1>5. CASE Flip
  BY <1>5, FlipKeeps
<1>6. CASE \E j \in Jobs : \E s \in {"doomed", "complete"} : Outcome(j, s)
  BY <1>1, <1>6, OutcomeShape, PurchasesUntouched DEF Outcome, buckets, flag
<1>7. CASE \/ \E t \in Plans : PolarPlan(t) \/ SetPlan(t)
           \/ ExpireToFree \/ ViewBilling \/ NextMonth \/ UNCHANGED vars
  <2>1. UNCHANGED <<addon, job, periodEnd, refunded, granted, armed, flips>>
    BY <1>7 DEF PolarPlan, SetPlan, ExpireToFree, Regrant, ViewBilling, NextMonth, vars,
                buckets, flag
  <2> QED
    BY <2>1, PurchasesUntouched DEF Charged
<1> QED
  BY <1>3, <1>4, <1>5, <1>6, <1>7 DEF Next

\* RInv holds as long as the center exists.
THEOREM RolloutInductive ==
    ASSUME NeverDisarmed
    PROVE  Spec => []RInv
<1>1. Init => RInv
  BY RolloutInit
<1>2. RInv /\ [Next]_vars => RInv'
  BY RolloutStep
<1> QED
  BY <1>1, <1>2, PTL DEF Spec

-----------------------------------------------------------------------------
(* Armed from the start, the buckets and the ledger agree.                 *)

LEMMA EnqueueAgrees ==
    ASSUME IInv, NEW j \in Jobs, EnqueueArmed(j)
    PROVE  HeadIsAvailable' /\ LedgerAddsUp'
<1>1. /\ RolledUsed \in Nat /\ RolledTotal = (alloc - RolledUsed) + addon
      /\ alloc \in Nat /\ addon \in Nat
  BY ResetAgrees DEF Available, IInv, RInv, Shape, TypeOK
<1>2. /\ alloc' = alloc /\ total' = RolledTotal - 1
      /\ head' = (alloc - used') + addon'
      /\ \/ used' = RolledUsed + 1 /\ addon' = addon
         \/ used' = RolledUsed /\ addon' = addon - 1
  BY DEF EnqueueArmed, Available
<1> QED
  BY <1>1, <1>2 DEF HeadIsAvailable, LedgerAddsUp, Available

LEMMA FailAgrees ==
    ASSUME IInv, NEW j \in Jobs, FailArmed(j)
    PROVE  HeadIsAvailable' /\ LedgerAddsUp'
<1>1. /\ total = (alloc - used) + addon
      /\ alloc \in Nat /\ used \in Nat /\ addon \in Nat
  BY DEF IInv, RInv, Shape, TypeOK, HeadIsAvailable, LedgerAddsUp, Available
<1>2. /\ alloc' = alloc /\ total' = total + 1
      /\ head' = (alloc - used') + addon'
      /\ \/ used' = used - 1 /\ addon' = addon
         \/ used' = used /\ addon' = addon + 1
  BY DEF FailArmed, Available
<1> QED
  BY <1>1, <1>2 DEF HeadIsAvailable, LedgerAddsUp, Available

LEMMA PlanAgrees ==
    ASSUME IInv, NEW t \in Plans, PolarPlan(t) \/ SetPlan(t) \/ (t = Free /\ ExpireToFree)
    PROVE  HeadIsAvailable' /\ LedgerAddsUp'
<1>1. /\ RolledTotal = RolledHead /\ RolledHead \in Int /\ addon' = addon
      /\ Allowance[t] \in Nat /\ addon \in Nat /\ total = head /\ head \in Int
  BY ResetAgrees, ResetTyped, CreditLedgerAssumption
  DEF IInv, RInv, Shape, TypeOK, LedgerAddsUp, PolarPlan, SetPlan, ExpireToFree, Regrant
<1>2. CappedUsed(t) \in Nat
  BY <1>1, CappedTyped DEF IInv, RInv, Shape
<1>3. PICK us \in Nat, h \in Int :
        /\ alloc' = Allowance[t] /\ used' = us
        /\ head' = (Allowance[t] - us) + addon
        /\ total' = h + (((Allowance[t] - us) + addon) - h)
  BY <1>1, <1>2 DEF PolarPlan, SetPlan, ExpireToFree, Regrant, Available
<1> QED
  BY <1>1, <1>3 DEF HeadIsAvailable, LedgerAddsUp, Available

LEMMA OrderAgrees ==
    ASSUME IInv, NEW p \in Purchases, OrderPaid(p)
    PROVE  HeadIsAvailable' /\ LedgerAddsUp'
<1>1. /\ RolledHead = (alloc - RolledUsed) + addon /\ RolledTotal = RolledHead
      /\ alloc \in Nat /\ addon \in Nat /\ RolledUsed \in Nat /\ Pack \in Nat
  BY ResetAgrees, CreditLedgerAssumption DEF Available, IInv, RInv, Shape, TypeOK
<1>2. /\ alloc' = alloc /\ used' = RolledUsed
      /\ \/ addon' = addon + Pack /\ head' = RolledHead + Pack /\ total' = RolledTotal + Pack
         \/ addon' = addon /\ head' = RolledHead /\ total' = RolledTotal
  BY DEF OrderPaid
<1> QED
  BY <1>1, <1>2 DEF HeadIsAvailable, LedgerAddsUp, Available

LEMMA ViewAgrees ==
    ASSUME IInv, ViewBilling
    PROVE  HeadIsAvailable' /\ LedgerAddsUp'
<1>1. used' = RolledUsed
  BY DEF ViewBilling, RolledUsed
<1> QED
  BY <1>1, ResetAgrees DEF ViewBilling, HeadIsAvailable, LedgerAddsUp, Available

\* What happens while the gate is disarmed cannot, nor can a deployment.
LEMMA NothingLegacy ==
    ASSUME AlwaysArmed, IInv
    PROVE  /\ \A j \in Jobs : ~EnqueueLegacy(j) /\ ~FailLegacy(j)
           /\ ~Flip
BY DEF AlwaysArmed, IInv, RInv, Shape, TypeOK, EnqueueLegacy, FailLegacy, Flip

LEMMA ArmedOneWay ==
    ASSUME AlwaysArmed
    PROVE  NeverDisarmed /\ (RInv => armed)
BY DEF AlwaysArmed, NeverDisarmed, RInv, OneWay

LEMMA StepAgrees ==
    ASSUME AlwaysArmed, IInv, [Next]_vars
    PROVE  IInv'
<1>1. RInv' /\ armed'
  <2>1. RInv'
    BY ArmedOneWay, RolloutStep DEF IInv
  <2>2. UNCHANGED armed
    BY NothingLegacy
    DEF Next, vars, flag, EnqueueArmed, Fail, FailArmed, Outcome, PolarPlan, SetPlan, Regrant,
        ExpireToFree, OrderPaid, ViewBilling, NextMonth
  <2> QED
    BY <2>1, <2>2 DEF IInv
<1>2. SUFFICES HeadIsAvailable' /\ LedgerAddsUp'
  BY <1>1 DEF IInv
<1>3. CASE \E j \in Jobs : EnqueueArmed(j) \/ Fail(j)
  BY <1>3, NothingLegacy, EnqueueAgrees, FailAgrees DEF Fail
<1>4. CASE \E t \in Plans : PolarPlan(t) \/ SetPlan(t)
  BY <1>4, PlanAgrees
<1>5. CASE ExpireToFree
  BY <1>5, PlanAgrees, CreditLedgerAssumption
<1>6. CASE \E p \in Purchases : OrderPaid(p)
  BY <1>6, OrderAgrees
<1>7. CASE ViewBilling
  BY <1>7, ViewAgrees
<1>8. CASE \/ NextMonth \/ UNCHANGED vars
           \/ \E j \in Jobs : \E s \in {"doomed", "complete"} : Outcome(j, s)
  <2>1. UNCHANGED <<buckets, ledger>>
    BY <1>8 DEF NextMonth, vars, Outcome
  <2> QED
    BY <2>1 DEF IInv, HeadIsAvailable, LedgerAddsUp, buckets, ledger
<1> QED
  BY <1>3, <1>4, <1>5, <1>6, <1>7, <1>8, NothingLegacy DEF Next

-----------------------------------------------------------------------------
(* The theorems.                                                           *)

\* IInv holds as long as the center exists.
THEOREM Inductive ==
    ASSUME AlwaysArmed
    PROVE  Spec => []IInv
<1>1. Init => IInv
  BY RolloutInit, ArmedOneWay DEF IInv, Init, HeadIsAvailable, LedgerAddsUp, Available
<1>2. IInv /\ [Next]_vars => IInv'
  BY StepAgrees
<1> QED
  BY <1>1, <1>2, PTL DEF Spec

\* The row keeps its shape: no more is used than allocated (the CHECK of
\* ai_credits), and no bucket is negative, whatever is deployed.
THEOREM TypeCorrect == Spec => []TypeOK
<1>1. Shape => TypeOK
  BY DEF Shape
<1> QED
  BY <1>1, ShapeInductive, PTL

\* However often the gate is armed and disarmed, with whatever jobs in flight,
\* what is missing of the purchased credits was charged to the add-on bucket for
\* a job: at worst a job that failed keeps its credit (RefundJob).
THEOREM LossIsBounded == Spec => []LossBounded
<1>1. Shape => LossBounded
  BY DEF Shape
<1> QED
  BY <1>1, ShapeInductive, PTL

\* D17: a purchased credit is there, or was spent on a job that did not fail,
\* jobs in flight while the gate is armed included.  The assumption is needed:
\* a job charged to the add-on bucket whose refund finds the gate disarmed
\* (refundCredit, RefundJob) has its credit back in the ledger only.
THEOREM PurchasesKept ==
    ASSUME NeverDisarmed
    PROVE  Spec => []PurchasedNeverLost
<1>1. RInv => PurchasedNeverLost
  BY DEF RInv
<1> QED
  BY <1>1, RolloutInductive, PTL

\* As long as the gate is disarmed every credit that was bought is in the add-on
\* bucket: what the ledger says of jobs costs none.
THEOREM DisarmedIsFree ==
    ASSUME NeverDisarmed
    PROVE  Spec => []SpareAddons
<1>1. RInv => SpareAddons
  BY DEF RInv
<1> QED
  BY <1>1, RolloutInductive, PTL

\* D14: what the center can spend is the balance of its newest ledger row.
THEOREM ProjectionHolds ==
    ASSUME AlwaysArmed
    PROVE  Spec => []HeadIsAvailable
<1>1. IInv => HeadIsAvailable
  BY DEF IInv
<1> QED
  BY <1>1, Inductive, PTL

\* Every credit that came, went or was forfeited has a ledger row.
THEOREM LedgerComplete ==
    ASSUME AlwaysArmed
    PROVE  Spec => []LedgerAddsUp
<1>1. IInv => LedgerAddsUp
  BY DEF IInv
<1> QED
  BY <1>1, Inductive, PTL

-----------------------------------------------------------------------------
(* CreditLedger implements CreditBalance.                                  *)

\* What a reset restores is what some plan grants.
AllocGranted == alloc \in 0 .. MaxAllowance

LEMMA GrantedInductive ==
    ASSUME AlwaysArmed
    PROVE  Spec => []AllocGranted
<1>1. Init => AllocGranted
  BY AllowanceBounded DEF Init, AllocGranted
<1>2. AllocGranted /\ [Next]_vars => AllocGranted'
  <2> SUFFICES ASSUME AllocGranted, [Next]_vars
               PROVE  AllocGranted'
    OBVIOUS
  <2>1. \/ alloc' = alloc
        \/ \E t \in Plans : alloc' = Allowance[t]
    BY CreditLedgerAssumption
    DEF Next, vars, buckets, EnqueueArmed, EnqueueLegacy, Fail, FailArmed,
        FailLegacy, Outcome, PolarPlan, SetPlan, Regrant, ExpireToFree, OrderPaid,
        ViewBilling, NextMonth, Flip
  <2> QED
    BY <2>1, AllowanceBounded, CreditLedgerAssumption DEF AllocGranted
<1> QED
  BY <1>1, <1>2, PTL DEF Spec

\* The ledger after the reset is a balance the abstract operation may find.
LEMMA ResetIsFound ==
    ASSUME IInv, AllocGranted
    PROVE  RolledHead \in Balance!Found
<1>1. CASE Due
  <2>1. RolledHead = addon + alloc
    BY <1>1 DEF RolledHead, Available, IInv, RInv, Shape, TypeOK
  <2> QED
    BY <2>1 DEF Balance!Found, AllocGranted
<1>2. CASE ~Due
  BY <1>2 DEF RolledHead, Balance!Found
<1> QED
  BY <1>1, <1>2

LEMMA RefineCharge ==
    ASSUME IInv, AllocGranted, NEW j \in Jobs, EnqueueArmed(j)
    PROVE  Balance!Charge(j)
<1>1. /\ RolledUsed \in Nat /\ alloc \in Nat /\ addon \in Nat
      /\ RolledHead = (alloc - RolledUsed) + addon
  BY ResetAgrees DEF IInv, RInv, Shape, TypeOK, Available
<1>2. RolledHead > 0 /\ head' = (alloc - used') + addon'
  BY <1>1 DEF EnqueueArmed, Available
<1>3. /\ head' = RolledHead - 1
      /\ addon' = IF RolledHead > addon THEN addon ELSE addon - 1
  <2>1. \/ RolledUsed < alloc /\ used' = RolledUsed + 1 /\ addon' = addon
        \/ ~(RolledUsed < alloc) /\ used' = RolledUsed /\ addon' = addon - 1
    BY DEF EnqueueArmed, SpendsMonthly
  <2> QED
    BY <2>1, <1>1, <1>2
<1>4. /\ j \notin Charged
      /\ Charged' = Charged \cup {j}
      /\ UNCHANGED <<refunded, granted>>
  BY DEF EnqueueArmed, Charged, IInv, RInv, Shape, TypeOK
<1> QED
  BY <1>2, <1>3, <1>4, ResetIsFound DEF Balance!Charge

LEMMA RefineReturn ==
    ASSUME IInv, NEW j \in Jobs, FailArmed(j)
    PROVE  Balance!Return(j)
<1>1. /\ used \in Nat /\ alloc \in Nat /\ addon \in Nat
      /\ head = (alloc - used) + addon
  BY DEF IInv, RInv, Shape, TypeOK, HeadIsAvailable, Available
<1>2. /\ head' = (alloc - used') + addon'
      /\ \/ used' = used - 1 /\ addon' = addon
         \/ used' = used /\ addon' = addon + 1
  BY DEF FailArmed, Available
<1>3. head' = head + 1 /\ addon' \in {addon, addon + 1}
  BY <1>1, <1>2
<1>4. /\ j \in Charged \ refunded
      /\ Charged' = Charged
      /\ refunded' = refunded \cup {j}
      /\ granted' = granted
  BY DEF FailArmed, Charged, IInv, RInv, Shape, TypeOK
<1>5. head \in Balance!Found
  BY DEF Balance!Found
<1> QED
  BY <1>3, <1>4, <1>5 DEF Balance!Return

\* A plan change leaves an allowance's worth on top of the add-ons.
LEMMA RefineRegrant ==
    ASSUME NEW t \in Plans, IInv, IInv', alloc' = Allowance[t],
           UNCHANGED <<addon, job, refunded, granted>>
    PROVE  Balance!Regrant
<1>1. head' = addon + (alloc' - used')
  BY DEF IInv, RInv, Shape, TypeOK, HeadIsAvailable, Available
<1>2. alloc' - used' \in 0 .. MaxAllowance
  BY AllowanceBounded, CreditLedgerAssumption DEF IInv, RInv, Shape, TypeOK
<1>3. head' \in Balance!Found
  BY <1>1, <1>2 DEF Balance!Found
<1> QED
  BY <1>3 DEF Balance!Regrant, Charged

LEMMA RefineOrder ==
    ASSUME IInv, AllocGranted, NEW p \in Purchases, OrderPaid(p)
    PROVE  Balance!Buy(p) \/ Balance!Regrant
<1>1. Charged' = Charged /\ refunded' = refunded
  BY DEF OrderPaid, Charged
<1>2. CASE p \notin granted
  BY <1>1, <1>2, ResetIsFound DEF OrderPaid, Balance!Buy
<1>3. CASE p \in granted
  BY <1>1, <1>3, ResetIsFound DEF OrderPaid, Balance!Regrant
<1> QED
  BY <1>2, <1>3

\* Every step of the engine is a step of the balance, or none.
LEMMA RefineStep ==
    ASSUME AlwaysArmed, IInv, IInv', AllocGranted, [Next]_vars
    PROVE  [Balance!Next]_(Balance!vars)
<1>1. ASSUME NEW j \in Jobs, EnqueueArmed(j)
      PROVE  Balance!Next
  BY <1>1, RefineCharge DEF Balance!Next
<1>2. ASSUME NEW j \in Jobs, Fail(j)
      PROVE  Balance!Next
  BY <1>2, NothingLegacy, RefineReturn DEF Fail, Balance!Next
<1>3. ASSUME NEW j \in Jobs, NEW s \in {"doomed", "complete"}, Outcome(j, s)
      PROVE  UNCHANGED Balance!vars
  BY <1>3 DEF Outcome, Balance!vars, Charged, buckets, ledger, IInv, RInv, Shape, TypeOK
<1>4. ASSUME NEW t \in Plans, PolarPlan(t) \/ SetPlan(t)
      PROVE  Balance!Next
  BY <1>4, RefineRegrant DEF PolarPlan, SetPlan, Regrant, Balance!Next
<1>5. CASE ExpireToFree
  BY <1>5, RefineRegrant, CreditLedgerAssumption
  DEF ExpireToFree, Regrant, Balance!Next
<1>6. ASSUME NEW p \in Purchases, OrderPaid(p)
      PROVE  Balance!Next
  BY <1>6, RefineOrder DEF Balance!Next
<1>7. CASE ViewBilling
  BY <1>7, ResetIsFound DEF ViewBilling, Charged, Balance!Regrant, Balance!Next
<1>8. CASE NextMonth \/ UNCHANGED vars
  BY <1>8 DEF NextMonth, vars, Balance!vars, Charged, buckets, ledger
<1> QED
  BY <1>1, <1>2, <1>3, <1>4, <1>5, <1>6, <1>7, <1>8, NothingLegacy DEF Next

\* The engine keeps the promise of CreditBalance: one credit per job, expiring
\* credits first, each returned at most once, each order counted once.
THEOREM Implements ==
    ASSUME AlwaysArmed
    PROVE  Spec => ImplementsBalance
<1>1. Init => Balance!Init
  BY DEF Init, Balance!Init, Charged
<1>2. IInv /\ IInv' /\ AllocGranted /\ [Next]_vars => [Balance!Next]_(Balance!vars)
  BY RefineStep
<1> QED
  BY <1>1, <1>2, Inductive, GrantedInductive, PTL
  DEF Spec, ImplementsBalance, Balance!Spec
=============================================================================
