-------------------------- MODULE GraceClockProofs --------------------------
(***************************************************************************)
(* Theorems about the grace period, for any window, schedule, number of    *)
(* ticks alive at once and length of the run.                              *)
(*                                                                         *)
(* Three inductive invariants, each on top of the one before.  Safe holds  *)
(* of every instance: one tick at a time holds the subscription lock, and  *)
(* what it holds it for (a center past its deadline) is still so unless a  *)
(* reconcile went past the lock.  Held, without reconciles: the center is  *)
(* past due as long as it is held.  Running, without month ends and faults *)
(* either: why the chain of ticks cannot break.                            *)
(***************************************************************************)
EXTENDS GraceClock, FiniteSetTheorems, TLAPS

Locking(i) == step[i] \in {"expiring", "updated"}

OneHolder == \A i, j \in Ticks : Locking(i) /\ Locking(j) => i = j

HeldForExpiry ==
    \A i \in Ticks :
        Locking(i) => /\ start # None /\ now >= Deadline(start)
                      /\ status \in {"active", "past_due"}

Safe == TypeOK /\ OneHolder /\ HeldForExpiry /\ DunningOnSchedule

-----------------------------------------------------------------------------
(* Days.                                                                   *)

\* What \div is, for the days of the clock.
LEMMA DayBounds ==
    ASSUME NEW s \in Nat
    PROVE  /\ s \div Day \in Nat
           /\ (s \div Day) * Day <= s
           /\ s < (s \div Day) * Day + Day
<1>1. Day \in Nat /\ Day > 0
  BY GraceAssumption
<1> QED
  BY <1>1

\* A day count does not decrease with time.
LEMMA DayMonotone ==
    ASSUME NEW s \in Nat, NEW t \in Nat, s <= t
    PROVE  s \div Day <= t \div Day
<1> DEFINE a == s \div Day
           b == t \div Day
<1>1. /\ a \in Nat /\ b \in Nat /\ Day \in Nat /\ Day > 0
      /\ a * Day <= s /\ s < a * Day + Day
      /\ b * Day <= t /\ t < b * Day + Day
  BY DayBounds, GraceAssumption
<1> HIDE DEF a, b
<1>2. SUFFICES ASSUME a > b
               PROVE  FALSE
  BY <1>1 DEF a, b
<1>3. a * Day >= (b + 1) * Day
  BY <1>1, <1>2
<1>4. (b + 1) * Day = b * Day + Day
  BY <1>1
<1> QED
  BY <1>1, <1>3, <1>4

\* The deadline is not before the start, and later for a later start.
LEMMA DeadlineOrder ==
    ASSUME NEW s \in Nat, NEW t \in Nat, s <= t
    PROVE  /\ Deadline(s) \in Nat
           /\ s <= Deadline(s)
           /\ Deadline(s) <= Deadline(t)
<1> DEFINE a == s \div Day
           b == t \div Day
<1>1. /\ a \in Nat /\ b \in Nat /\ Day \in Nat /\ Day > 0 /\ Window \in Nat
      /\ s < a * Day + Day /\ a <= b
  BY DayBounds, DayMonotone, GraceAssumption
<1>2. Deadline(s) = (a + Window + 1) * Day - 1 /\ Deadline(t) = (b + Window + 1) * Day - 1
  BY DEF Deadline
<1> HIDE DEF a, b
<1>3. (a + Window + 1) * Day = a * Day + Window * Day + Day
  BY <1>1
<1>4. Window * Day \in Nat /\ a * Day \in Nat
  BY <1>1
<1>5. (a + Window + 1) * Day <= (b + Window + 1) * Day
  BY <1>1
<1>6. (b + Window + 1) * Day \in Nat
  BY <1>1
<1> QED
  BY <1>1, <1>2, <1>3, <1>4, <1>5, <1>6

-----------------------------------------------------------------------------
(* The schedule.                                                           *)

UpTo(D, n) == {d \in D : d <= n}

\* The days of a schedule up to n are finitely many.
LEMMA UpToFinite ==
    ASSUME NEW D \in SUBSET Nat, NEW n \in Int
    PROVE  IsFiniteSet(UpTo(D, n)) /\ Cardinality(UpTo(D, n)) \in Nat
<1>1. \A d \in UpTo(D, n) : d \in Nat /\ d <= n
  BY DEF UpTo
<1>2. UpTo(D, n) \subseteq 0 .. n
  BY <1>1
<1>3. IsFiniteSet(0 .. n)
  BY FS_Interval
<1> QED
  BY <1>2, <1>3, FS_Subset, FS_CardinalityType

\* Those up to m are those up to n and the ones between.
LEMMA UpToSplits ==
    ASSUME NEW D \in SUBSET Nat, NEW n \in {-1} \cup Nat, NEW m \in Nat, n <= m
    PROVE  /\ Cardinality(D \cap ((n + 1) .. m)) \in Nat
           /\ Cardinality(UpTo(D, m)) = Cardinality(UpTo(D, n))
                                         + Cardinality(D \cap ((n + 1) .. m))
           /\ D \cap ((n + 1) .. m) # {} => Cardinality(D \cap ((n + 1) .. m)) >= 1
<1> DEFINE A == UpTo(D, n)
           B == D \cap ((n + 1) .. m)
<1>1. IsFiniteSet(A) /\ Cardinality(A) \in Nat
  BY UpToFinite
<1>2. B \subseteq UpTo(D, m)
  BY DEF UpTo
<1>3. IsFiniteSet(B) /\ Cardinality(B) \in Nat
  BY <1>2, UpToFinite, FS_Subset, FS_CardinalityType
<1>4. UpTo(D, m) = A \cup B /\ A \cap B = {}
  <2>1. n \in Int /\ m \in Int /\ \A d \in D : d \in Int
    OBVIOUS
  <2>2. \A d \in D : d <= m <=> (d <= n \/ (n + 1 <= d /\ d <= m))
    BY <2>1
  <2>3. \A d \in D : ~(d <= n /\ n + 1 <= d)
    BY <2>1
  <2>4. \A d \in D : d \in (n + 1) .. m <=> n + 1 <= d /\ d <= m
    BY <2>1
  <2>5. A \subseteq D /\ B \subseteq D /\ UpTo(D, m) \subseteq D
    BY DEF UpTo
  <2>6. \A d \in D : d \in UpTo(D, m) <=> d <= m
    BY DEF UpTo
  <2>7. \A d \in D : d \in A <=> d <= n
    BY DEF UpTo
  <2>8. \A d \in D : d \in B <=> n + 1 <= d /\ d <= m
    BY <2>4
  <2> HIDE DEF A, B
  <2>9. \A d \in D : d \in UpTo(D, m) <=> d \in A \/ d \in B
    BY <2>2, <2>6, <2>7, <2>8
  <2>10. \A d \in D : ~(d \in A /\ d \in B)
    BY <2>3, <2>7, <2>8
  <2> QED
    BY <2>5, <2>9, <2>10
<1>5. Cardinality(A \cup B) = Cardinality(A) + Cardinality(B)
  BY <1>1, <1>3, <1>4, FS_Union, FS_EmptySet
<1>6. B # {} => Cardinality(B) # 0
  BY <1>3, FS_EmptySet
<1> QED
  BY <1>3, <1>4, <1>5, <1>6

\* A tick that acts, whatever it missed, stays on schedule.
LEMMA ActOnSchedule ==
    ASSUME Safe, NEW i \in Ticks, TickAct(i)
    PROVE  /\ DunningOnSchedule'
           /\ retries' \in Nat /\ emails' \in Nat /\ lastDay' \in Nat
<1> DEFINE e == Elapsed(start)
<1>1. start \in Nat /\ start <= now /\ now \in Nat
  BY DEF Safe, TypeOK, TickAct, None
<1>2. e \in Nat
  BY <1>1, DayBounds DEF Elapsed
<1>3. lastDay \in {-1} \cup Nat /\ lastDay < e /\ lastDay' = e
  BY <1>2 DEF Safe, TypeOK, TickAct
<1>4. /\ retries = Cardinality(UpTo(RetryDays, lastDay))
      /\ emails <= Cardinality(UpTo(EmailDays, lastDay))
  BY DEF Safe, DunningOnSchedule, TickAct, UpTo
<1>5. /\ retries' = retries + Cardinality(RetryDays \cap ((lastDay + 1) .. e))
      /\ emails' = IF EmailDays \cap ((lastDay + 1) .. e) = {} THEN emails ELSE emails + 1
  BY DEF TickAct, MissedDays
<1>6. retries \in Nat /\ emails \in Nat
  BY DEF Safe, TypeOK
<1>7. RetryDays \in SUBSET Nat /\ EmailDays \in SUBSET Nat
  BY GraceAssumption
<1> HIDE DEF e
<1>8. retries' = Cardinality(UpTo(RetryDays, e)) /\ retries' \in Nat
  BY <1>2, <1>3, <1>4, <1>5, <1>6, <1>7, UpToSplits
<1>9. emails' <= Cardinality(UpTo(EmailDays, e)) /\ emails' \in Nat
  <2>1. /\ Cardinality(EmailDays \cap ((lastDay + 1) .. e)) \in Nat
        /\ Cardinality(UpTo(EmailDays, e)) = Cardinality(UpTo(EmailDays, lastDay))
                                      + Cardinality(EmailDays \cap ((lastDay + 1) .. e))
        /\ EmailDays \cap ((lastDay + 1) .. e) # {}
             => Cardinality(EmailDays \cap ((lastDay + 1) .. e)) >= 1
    BY <1>2, <1>3, <1>7, UpToSplits
  <2>2. Cardinality(UpTo(EmailDays, lastDay)) \in Nat
    BY <1>3, <1>7, UpToFinite
  <2> QED
    BY <2>1, <2>2, <1>4, <1>5, <1>6
<1> QED
  BY <1>2, <1>3, <1>8, <1>9 DEF DunningOnSchedule, UpTo

\* A schedule that has just begun.
LEMMA FreshOnSchedule ==
    ASSUME NEW D \in SUBSET Nat
    PROVE  Cardinality(UpTo(D, -1)) = 0
<1>1. \A d \in D : d \in Nat /\ ~(d <= -1)
  OBVIOUS
<1>2. UpTo(D, -1) = {}
  BY <1>1 DEF UpTo
<1> QED
  BY <1>2, FS_EmptySet

-----------------------------------------------------------------------------
(* Each operation keeps Safe.                                              *)

LEMMA PastDueSafe ==
    ASSUME Safe, PastDue
    PROVE  Safe'
<1>1. /\ status' = "past_due" /\ start' = now /\ lastDay' = -1
      /\ retries' = 0 /\ emails' = 0
      /\ UNCHANGED <<now, step, next, recon, stale, faults>>
  BY DEF PastDue, SetGrace, worker
<1>2. PICK i \in Ticks : SetRow(i, "pending", now, 0)
  BY DEF PastDue
<1>3. TypeOK'
  <2>1. now \in Nat /\ MaxTries \in Nat
    BY GraceAssumption DEF Safe, TypeOK
  <2> QED
    BY <1>1, <1>2, <2>1 DEF Safe, TypeOK, SetRow, None
<1>4. OneHolder' /\ HeldForExpiry'
  BY <1>1 DEF Safe, OneHolder, HeldForExpiry, Locking, PastDue, WebhookFree, SubLocked
<1>5. DunningOnSchedule'
  BY <1>1, FreshOnSchedule, GraceAssumption DEF DunningOnSchedule, UpTo
<1> QED
  BY <1>3, <1>4, <1>5 DEF Safe

LEMMA RecoverSafe ==
    ASSUME Safe, Recover
    PROVE  Safe'
<1>1. TypeOK'
  BY GraceAssumption DEF Safe, TypeOK, Recover, SetGrace, CancelTicks, worker, None
<1>2. OneHolder' /\ HeldForExpiry' /\ DunningOnSchedule'
  BY DEF Safe, OneHolder, HeldForExpiry, DunningOnSchedule, Locking, Recover, worker,
         WebhookFree, SubLocked
<1> QED
  BY <1>1, <1>2 DEF Safe

\* What leaves the subscription alone, and the locks, keeps Safe.
LEMMA StillSafe ==
    ASSUME Safe, UNCHANGED <<now, sub>>, TypeOK',
           \A i \in Ticks : Locking(i)' => Locking(i)
    PROVE  Safe'
BY DEF Safe, OneHolder, HeldForExpiry, DunningOnSchedule, sub

\* A jobs row that is written is a jobs row.
LEMMA SetRowType ==
    ASSUME TypeOK, NEW i \in Ticks, NEW r \in {"none", "pending", "processing"},
           NEW d \in Nat, NEW n \in 0 .. MaxTries, SetRow(i, r, d, n)
    PROVE  /\ row' \in [Ticks -> {"none", "pending", "processing"}]
           /\ due' \in [Ticks -> Nat]
           /\ tries' \in [Ticks -> 0 .. MaxTries]
BY DEF TypeOK, SetRow

LEMMA RetrySafe ==
    ASSUME Safe, NEW i \in Ticks, Retry(i)
    PROVE  Safe'
<1>1. now \in Nat /\ MaxTries \in Nat /\ tries[i] \in 0 .. MaxTries
  BY GraceAssumption DEF Safe, TypeOK
<1>2. /\ step' = [step EXCEPT ![i] = "idle"]
      /\ UNCHANGED <<now, sub, next, recon, stale, faults>>
  BY DEF Retry
<1>3. /\ row' \in [Ticks -> {"none", "pending", "processing"}]
      /\ due' \in [Ticks -> Nat]
      /\ tries' \in [Ticks -> 0 .. MaxTries]
  <2>1. CASE TriesLeft(i)
    <3>1. SetRow(i, "pending", now, tries[i] + 1) /\ tries[i] + 1 \in 0 .. MaxTries
      BY <1>1, <2>1 DEF Retry, TriesLeft
    <3> QED
      BY <3>1, <1>1, SetRowType DEF Safe
  <2>2. CASE ~TriesLeft(i)
    <3>1. SetRow(i, "none", 0, 0)
      BY <2>2 DEF Retry
    <3> QED
      BY <3>1, <1>1, SetRowType DEF Safe
  <2> QED
    BY <2>1, <2>2
<1>4. TypeOK'
  BY <1>2, <1>3 DEF Safe, TypeOK, sub
<1>5. \A k \in Ticks : Locking(k)' => Locking(k)
  BY <1>2 DEF Locking, Safe, TypeOK
<1> QED
  BY <1>2, <1>4, <1>5, StillSafe

\* What a tick does outside a transaction of its own.
LEMMA WorkerSafe ==
    ASSUME Safe, NEW i \in Ticks,
           Claim(i) \/ TickNothing(i) \/ Reread(i) \/ Complete(i) \/ Die(i)
    PROVE  Safe'
<1>1. /\ now \in Nat /\ MaxTries \in Nat /\ tries[i] \in 0 .. MaxTries
      /\ next[i] \in {None} \cup Nat /\ None \notin Nat
  BY GraceAssumption DEF Safe, TypeOK, None
<1>2. UNCHANGED <<now, sub, recon, stale>>
  BY DEF Claim, TickNothing, Reread, Complete, Die, jobs
<1>3. /\ row' \in [Ticks -> {"none", "pending", "processing"}]
      /\ due' \in [Ticks -> Nat]
      /\ tries' \in [Ticks -> 0 .. MaxTries]
  <2>1. \/ SetRow(i, "processing", 0, tries[i])
        \/ SetRow(i, "none", 0, 0)
        \/ next[i] # None /\ SetRow(i, "pending", next[i], 0)
        \/ UNCHANGED jobs
    BY DEF Claim, TickNothing, Reread, Complete, Die
  <2>2. CASE UNCHANGED jobs
    BY <2>2 DEF jobs, Safe, TypeOK
  <2>3. 0 \in 0 .. MaxTries /\ 0 \in Nat
    BY <1>1
  <2> QED
    BY <1>1, <2>1, <2>2, <2>3, SetRowType DEF Safe
<1>4. next' \in [Ticks -> {None} \cup Nat]
  <2>1. StillDue => NextTick(start) \in Nat
    <3>1. CASE StillDue
      <4>1. start \in Nat /\ start <= now
        BY <3>1, <1>1 DEF StillDue, Safe, TypeOK, None
      <4>2. Deadline(start) \in Nat
        BY <4>1, DeadlineOrder
      <4>3. Elapsed(start) \in Nat
        BY <4>1, <1>1, DayBounds DEF Elapsed
      <4>4. FollowingDay(start) \in Nat
        BY <4>1, <4>3, GraceAssumption DEF FollowingDay
      <4> QED
        BY <4>2, <4>4 DEF NextTick
    <3> QED
      BY <3>1
  <2> QED
    BY <2>1 DEF Safe, TypeOK, Claim, TickNothing, Reread, Complete, Die, worker
<1>5. /\ step' \in [Ticks -> {"idle", "claimed", "expiring", "updated", "acted", "next"}]
      /\ \A k \in Ticks : Locking(k)' => Locking(k)
  BY DEF Safe, TypeOK, Locking, Claim, TickNothing, Reread, Complete, Die
<1>6. faults' \in 0 .. MaxFaults
  BY GraceAssumption DEF Safe, TypeOK, Claim, TickNothing, Reread, Complete, Die
<1>7. TypeOK'
  BY <1>2, <1>3, <1>4, <1>5, <1>6 DEF Safe, TypeOK, sub
<1> QED
  BY <1>2, <1>5, <1>7, StillSafe

LEMMA TickActSafe ==
    ASSUME Safe, NEW i \in Ticks, TickAct(i)
    PROVE  Safe'
<1>1. UNCHANGED <<now, status, start, row, due, tries, next, recon, stale, faults>>
  BY DEF TickAct, jobs
<1>2. TypeOK'
  BY <1>1, ActOnSchedule DEF Safe, TypeOK, TickAct
<1>3. OneHolder' /\ HeldForExpiry'
  BY <1>1 DEF Safe, TypeOK, OneHolder, HeldForExpiry, Locking, TickAct
<1> QED
  BY <1>2, <1>3, ActOnSchedule DEF Safe

LEMMA ExpireReadSafe ==
    ASSUME Safe, NEW i \in Ticks, ExpireRead(i)
    PROVE  Safe'
<1>1. UNCHANGED <<now, status, start, lastDay, retries, emails, row, due, tries, next,
                  recon, stale, faults>>
  BY DEF ExpireRead, sub, jobs
<1>2. TypeOK' /\ DunningOnSchedule'
  BY <1>1 DEF Safe, TypeOK, DunningOnSchedule, ExpireRead
<1>3. \A k \in Ticks : Locking(k)' => k = i
  BY DEF ExpireRead, SubLocked, Locking, Safe, TypeOK
<1>4. /\ now >= Deadline(start) /\ UNCHANGED Deadline(start)
      /\ start # None /\ status = "past_due"
  BY <1>1 DEF ExpireRead, Expired, Deadline, Safe, TypeOK
<1> QED
  BY <1>1, <1>2, <1>3, <1>4 DEF Safe, OneHolder, HeldForExpiry

LEMMA ExpireSafe ==
    ASSUME Safe, NEW i \in Ticks, Expire(i)
    PROVE  Safe'
<1>1. CASE ExpireUpdate(i)
  <2>1. UNCHANGED <<now, sub>> /\ TypeOK'
    BY <1>1 DEF ExpireUpdate, Safe, TypeOK, sub, jobs
  <2>2. \A k \in Ticks : Locking(k)' => Locking(k)
    BY <1>1 DEF ExpireUpdate, Locking, Safe, TypeOK
  <2> QED
    BY <2>1, <2>2, StillSafe
<1>2. CASE ExpireCommit(i)
  <2>1. TypeOK'
    BY <1>2, GraceAssumption DEF ExpireCommit, SetGrace, CancelTicks, Safe, TypeOK, None
  <2>2. OneHolder' /\ HeldForExpiry' /\ DunningOnSchedule'
    BY <1>2 DEF ExpireCommit, Safe, TypeOK, OneHolder, HeldForExpiry, DunningOnSchedule,
                Locking
  <2> QED
    BY <2>1, <2>2 DEF Safe
<1>3. CASE Retry(i)
  BY <1>3, RetrySafe
<1>4. CASE recon' = "idle" /\ UNCHANGED <<now, sub, jobs, worker, stale, faults>>
  <2>1. TypeOK'
    BY <1>4 DEF Safe, TypeOK, sub, jobs, worker
  <2>2. \A k \in Ticks : Locking(k)' => Locking(k)
    BY <1>4 DEF Locking, worker
  <2> QED
    BY <1>4, <2>1, <2>2, StillSafe
<1> QED
  BY <1>1, <1>2, <1>3, <1>4 DEF Expire, ExpireRefused, LockCycle

\* The plan changes, the reconcile, the reset and the clock: no tick is at work.
LEMMA OthersSafe ==
    ASSUME Safe, PlanEvent \/ Owner \/ MonthEnd \/ Pass
    PROVE  Safe'
<1> USE DEF PlanEvent, Owner, ReconcileLock, ReconcileApply, ViewBilling, MonthEnd, Pass
<1>1. UNCHANGED <<start, lastDay, retries, emails, row, due, tries, step, next, faults>>
  BY DEF sub, jobs, worker
<1>2. now' \in 0 .. MaxNow /\ now <= now'
  BY GraceAssumption DEF Safe, TypeOK
<1>3. /\ status' = "active" \/ status' = status
      /\ recon' \in {"idle", "locked"} /\ stale' \in BOOLEAN
  BY DEF Safe, TypeOK, sub
<1>4. TypeOK'
  BY <1>1, <1>2, <1>3 DEF Safe, TypeOK, None
<1>5. OneHolder' /\ DunningOnSchedule'
  BY <1>1, <1>3 DEF Safe, OneHolder, DunningOnSchedule, Locking
<1>6. HeldForExpiry'
  <2> SUFFICES ASSUME NEW i \in Ticks, Locking(i)'
               PROVE  /\ start' # None /\ now' >= Deadline(start)'
                      /\ status' \in {"active", "past_due"}
    BY DEF HeldForExpiry
  <2>1. Locking(i)
    BY <1>1 DEF Locking
  <2>2. now >= Deadline(start) /\ start \in Nat /\ status \in {"active", "past_due"}
    BY <2>1 DEF Safe, HeldForExpiry, TypeOK, None
  <2>3. Deadline(start) \in Nat /\ Deadline(start)' = Deadline(start)
    BY <1>1, <2>2, DeadlineOrder DEF Deadline
  <2>4. now' >= Deadline(start)'
    BY <2>2, <2>3, <1>2 DEF Safe, TypeOK
  <2> QED
    BY <2>2, <2>4, <1>1, <1>3 DEF None
<1> QED
  BY <1>4, <1>5, <1>6 DEF Safe

LEMMA InitSafe == Init => Safe
<1> SUFFICES ASSUME Init
             PROVE  Safe
  OBVIOUS
<1>1. TypeOK
  <2>1. 0 \in 0 .. MaxNow /\ 0 \in 0 .. MaxTries /\ 0 \in 0 .. MaxFaults
    BY GraceAssumption
  <2>2. /\ row \in [Ticks -> {"none", "pending", "processing"}]
        /\ step \in [Ticks -> {"idle", "claimed", "expiring", "updated", "acted", "next"}]
    BY DEF Init
  <2>3. /\ due \in [Ticks -> Nat] /\ tries \in [Ticks -> 0 .. MaxTries]
        /\ next \in [Ticks -> {None} \cup Nat]
    BY <2>1 DEF Init
  <2> QED
    BY <2>1, <2>2, <2>3 DEF Init, TypeOK
<1> QED
  BY <1>1 DEF Init, Safe, OneHolder, HeldForExpiry, DunningOnSchedule, Locking

LEMMA StepSafe == Safe /\ [Next]_vars => Safe'
<1> SUFFICES ASSUME Safe, [Next]_vars
             PROVE  Safe'
  OBVIOUS
<1>1. CASE Webhook
  BY <1>1, PastDueSafe, RecoverSafe, OthersSafe DEF Webhook
<1>2. CASE Owner \/ MonthEnd \/ Pass
  BY <1>2, OthersSafe
<1>3. CASE \E i \in Ticks : Work(i) \/ Die(i)
  BY <1>3, WorkerSafe, TickActSafe, ExpireReadSafe, ExpireSafe DEF Work
<1>4. CASE UNCHANGED vars
  <2>1. TypeOK' /\ \A k \in Ticks : Locking(k)' => Locking(k)
    BY <1>4 DEF vars, sub, jobs, worker, Safe, TypeOK, Locking
  <2> QED
    BY <1>4, <2>1, StillSafe DEF vars
<1> QED
  BY <1>1, <1>2, <1>3, <1>4 DEF Next

-----------------------------------------------------------------------------
(* The theorems.                                                           *)

\* Safe holds as long as the center exists.
THEOREM AlwaysSafe == Spec => []Safe
BY InitSafe, StepSafe, PTL DEF Spec

\* Every reachable state is well-formed: past due, the clock has a start.
THEOREM TypeCorrect == Spec => []TypeOK
<1>1. Safe => TypeOK
  BY DEF Safe
<1> QED
  BY <1>1, AlwaysSafe, PTL

\* Each re-collect day that was passed was acted on once, each warning day at
\* most once, whatever the ticks do.
THEOREM ScheduleKept == Spec => []DunningOnSchedule
<1>1. Safe => DunningOnSchedule
  BY DEF Safe
<1> QED
  BY <1>1, AlwaysSafe, PTL

\* R1: no center is downgraded before its deadline.
THEOREM DowngradeOnTime == Spec => NeverEarly
<1>1. Safe /\ [Next]_vars
        => [status = "past_due" /\ status' = "cancelled" => now >= Deadline(start)]_vars
  <2> SUFFICES ASSUME Safe, Next, status = "past_due", status' = "cancelled"
               PROVE  now >= Deadline(start)
    BY DEF vars
  <2>1. \E i \in Ticks : ExpireCommit(i)
    BY DEF Next, Webhook, PastDue, Recover, PlanEvent, Owner, ReconcileLock,
           ReconcileApply, ViewBilling, Work, Claim, TickNothing, TickAct, ExpireRead,
           Expire, ExpireUpdate, ExpireRefused, LockCycle, Retry, Reread, Complete,
           Die, MonthEnd, Pass, sub
  <2> QED
    BY <2>1 DEF ExpireCommit, Safe, HeldForExpiry, Locking
<1> QED
  BY <1>1, AlwaysSafe, PTL DEF Spec, NeverEarly

-----------------------------------------------------------------------------
(* Without reconciles every writer of the subscription takes its lock.     *)

Held ==
    /\ recon = "idle"
    /\ \A i \in Ticks : Locking(i) => status = "past_due"

LEMMA StepHeld ==
    ASSUME ~Reconciles, Safe, Held, [Next]_vars
    PROVE  Held'
<1>1. recon' = "idle"
  BY DEF Held, Next, Webhook, PastDue, Recover, PlanEvent, Owner, ReconcileLock,
         ReconcileApply, ViewBilling, Work, Claim, TickNothing, TickAct, ExpireRead,
         Expire, ExpireUpdate, ExpireCommit, ExpireRefused, LockCycle, Retry, Reread,
         Complete, Die, MonthEnd, Pass, vars
<1>2. SUFFICES ASSUME NEW k \in Ticks, Locking(k)'
               PROVE  status' = "past_due"
  BY <1>1 DEF Held
<1>3. CASE Webhook
  BY <1>2, <1>3 DEF Webhook, PastDue, Recover, PlanEvent, WebhookFree, SubLocked, Locking,
                    worker
<1>4. CASE Owner \/ MonthEnd \/ Pass \/ UNCHANGED vars
  BY <1>2, <1>4 DEF Held, Owner, ReconcileLock, ReconcileApply, ViewBilling, MonthEnd, Pass,
                    Locking, vars, worker, sub
<1>5. ASSUME NEW i \in Ticks, Work(i) \/ Die(i)
      PROVE  status' = "past_due"
  <2>1. CASE Claim(i) \/ TickNothing(i) \/ TickAct(i) \/ Reread(i) \/ Complete(i) \/ Die(i)
    <3>1. status' = status /\ (Locking(k)' => Locking(k))
      BY <2>1 DEF Safe, TypeOK, Locking, Claim, TickNothing, TickAct, Reread, Complete, Die,
                  sub
    <3> QED
      BY <3>1, <1>2 DEF Held
  <2>2. CASE ExpireRead(i)
    BY <2>2 DEF ExpireRead, sub
  <2>3. CASE ExpireUpdate(i)
    BY <2>3 DEF ExpireUpdate, Held, Locking, sub
  <2>4. CASE ExpireCommit(i)
    <3>1. ~Locking(i)' /\ Locking(i) /\ (k # i => Locking(k))
      BY <2>4, <1>2 DEF ExpireCommit, Locking, Safe, TypeOK
    <3> QED
      BY <3>1, <1>2 DEF Safe, OneHolder
  <2>5. CASE ExpireRefused(i) \/ LockCycle(i)
    <3>1. Retry(i)
      BY <2>5 DEF ExpireRefused, LockCycle, Held
    <3>2. status' = status /\ (Locking(k)' => Locking(k))
      BY <3>1 DEF Retry, Safe, TypeOK, Locking, sub
    <3> QED
      BY <3>2, <1>2 DEF Held
  <2> QED
    BY <1>5, <2>1, <2>2, <2>3, <2>4, <2>5 DEF Work, Expire
<1> QED
  BY <1>3, <1>4, <1>5 DEF Next

THEOREM AlwaysHeld ==
    ASSUME ~Reconciles
    PROVE  Spec => []Held
<1>1. Init => Held
  BY DEF Init, Held, Locking
<1>2. Safe /\ Held /\ [Next]_vars => Held'
  BY StepHeld
<1> QED
  BY <1>1, <1>2, AlwaysSafe, PTL DEF Spec

\* As long as no reconcile writes the subscription, whose lock it does not take,
\* only a center that is past due is downgraded.
THEOREM RecoveryIsSafe ==
    ASSUME ~Reconciles
    PROVE  Spec => OnlyPastDueExpires
<1>1. Safe /\ Held /\ [Next]_vars => [status' = "cancelled" => status # "active"]_vars
  <2> SUFFICES ASSUME Held, Next, status' = "cancelled", status = "active"
               PROVE  FALSE
    BY DEF vars
  <2>1. \E i \in Ticks : ExpireCommit(i)
    BY DEF Next, Webhook, PastDue, Recover, PlanEvent, Owner, ReconcileLock,
           ReconcileApply, ViewBilling, Work, Claim, TickNothing, TickAct, ExpireRead,
           Expire, ExpireUpdate, ExpireRefused, LockCycle, Retry, Reread, Complete,
           Die, MonthEnd, Pass, sub
  <2> QED
    BY <2>1 DEF ExpireCommit, Held, Locking
<1> QED
  BY <1>1, AlwaysSafe, AlwaysHeld, PTL DEF Spec, OnlyPastDueExpires

-----------------------------------------------------------------------------
(* GraceClock implements GracePeriod.                                      *)

\* Where there are reconciles nothing is said of who holds the lock.
HeldOrRaced == Reconciles \/ Held

LEMMA AlwaysHeldOrRaced == Spec => []HeldOrRaced
<1>1. Init => HeldOrRaced
  BY DEF Init, HeldOrRaced, Held, Locking
<1>2. Safe /\ HeldOrRaced /\ [Next]_vars => HeldOrRaced'
  BY StepHeld DEF HeldOrRaced
<1> QED
  BY <1>1, <1>2, AlwaysSafe, PTL DEF Spec

\* graceDeadline is the last instant of the last day: the two ways to say that
\* the grace period is over agree.
LEMMA OverAtDeadline ==
    ASSUME now \in Nat, start \in Nat
    PROVE  Grace!Over <=> now >= Deadline(start)
<1> DEFINE q == (now + 1) \div Day
           k == (start \div Day) + Window + 1
<1>1. /\ q \in Nat /\ k \in Nat /\ Day \in Nat /\ Day > 0
      /\ q * Day <= now + 1 /\ now + 1 < q * Day + Day
  <2>1. now + 1 \in Nat
    OBVIOUS
  <2> QED
    BY <2>1, DayBounds, GraceAssumption
<1>2. Deadline(start) = k * Day - 1
  BY DEF Deadline
<1>3. Grace!Over <=> q >= k
  <2>1. start \div Day \in Nat /\ Window \in Nat
    BY DayBounds, GraceAssumption
  <2>2. Grace!Over <=> q > (start \div Day) + Window
    BY DEF Grace!Over, Grace!DayOf
  <2> QED
    BY <2>1, <2>2, <1>1
<1> HIDE DEF q, k
<1>4. CASE q >= k
  <2>1. q * Day >= k * Day
    BY <1>1, <1>4
  <2>2. k * Day \in Nat /\ q * Day \in Nat
    BY <1>1
  <2> QED
    BY <1>1, <1>2, <1>3, <1>4, <2>1, <2>2
<1>5. CASE q < k
  <2>1. (q + 1) * Day <= k * Day
    BY <1>1, <1>5
  <2>2. (q + 1) * Day = q * Day + Day
    BY <1>1
  <2>3. k * Day \in Nat /\ q * Day \in Nat
    BY <1>1
  <2> QED
    BY <1>1, <1>2, <1>3, <1>5, <2>1, <2>2, <2>3
<1> QED
  BY <1>1, <1>4, <1>5

\* The two modules count with the same Cardinality.
LEMMA SameCount ==
    ASSUME NEW S
    PROVE  Grace!Cardinality(S) = Cardinality(S)
  BY Zenon DEF Grace!Cardinality, Cardinality

\* A tick that acts reckons with all the days up to now.
LEMMA RefineReckon ==
    ASSUME Safe, NEW i \in Ticks, TickAct(i)
    PROVE  Grace!Reckon
<1> DEFINE e == Elapsed(start)
<1>1. start \in Nat /\ now \in Nat /\ start <= now
  BY DEF Safe, TypeOK, TickAct, None
<1>2. /\ e \in Nat /\ e = Grace!Passed
      /\ lastDay \in {-1} \cup Nat
  BY <1>1, DayBounds DEF Elapsed, Grace!Passed, Safe, TypeOK
<1>3. /\ status = "past_due" /\ lastDay < e /\ lastDay' = e
      /\ UNCHANGED <<now, status, start>>
  BY DEF TickAct
<1>4. ~Grace!Over
  BY <1>1, OverAtDeadline DEF TickAct, Expired
<1>5. retries' = Cardinality({d \in RetryDays : d <= e})
  BY <1>3, ActOnSchedule DEF DunningOnSchedule
<1>6. retries' = Grace!Cardinality({d \in RetryDays : d <= Grace!Passed})
  BY <1>2, <1>5, SameCount
<1>7. emails' = IF \E d \in EmailDays : lastDay < d /\ d <= e THEN emails + 1 ELSE emails
  <2>1. emails' = IF EmailDays \cap ((lastDay + 1) .. e) = {} THEN emails ELSE emails + 1
    BY DEF TickAct, MissedDays
  <2>2. \A d \in EmailDays : d \in Nat
    BY GraceAssumption
  <2> HIDE DEF e
  <2>3. \A d \in EmailDays : d \in (lastDay + 1) .. e <=> lastDay < d /\ d <= e
    BY <2>2, <1>2
  <2>4. EmailDays \cap ((lastDay + 1) .. e) = {}
          <=> ~(\E d \in EmailDays : lastDay < d /\ d <= e)
    BY <2>3
  <2> QED
    BY <2>1, <2>4
<1> QED
  BY <1>2, <1>3, <1>4, <1>6, <1>7 DEF Grace!Reckon

\* The downgrade, whatever happened since its tick read the subscription.
LEMMA RefineDowngrade ==
    ASSUME Safe, HeldOrRaced, NEW i \in Ticks, ExpireCommit(i)
    PROVE  Grace!Downgrade
<1>1. /\ Locking(i) /\ status' = "cancelled" /\ now' = now
      /\ SetGrace(None)
  BY DEF ExpireCommit, Locking
<1>2. start # None /\ now >= Deadline(start) /\ status \in {"active", "past_due"}
  BY <1>1 DEF Safe, HeldForExpiry
<1>3. start \in Nat /\ now \in Nat
  BY <1>2 DEF Safe, TypeOK, None
<1>4. Grace!Over
  BY <1>2, <1>3, OverAtDeadline
<1>5. status = "past_due" \/ (Reconciles /\ status = "active")
  BY <1>1, <1>2 DEF HeldOrRaced, Held
<1>6. start # Grace!None /\ Grace!Begin(Grace!None)
  BY <1>1, <1>2 DEF SetGrace, Grace!Begin, None, Grace!None
<1> QED
  BY <1>1, <1>4, <1>5, <1>6 DEF Grace!Downgrade

\* Every step of the clock is a step of the grace period, or none.
LEMMA RefineGrace ==
    ASSUME Safe, HeldOrRaced, [Next]_vars
    PROVE  [Grace!Next]_(Grace!vars)
<1>1. CASE PastDue
  BY <1>1 DEF PastDue, SetGrace, Grace!Fail, Grace!Begin, Grace!Next
<1>2. CASE Recover
  BY <1>2 DEF Recover, SetGrace, None, Grace!None, Grace!Pay, Grace!Begin, Grace!Next
<1>3. CASE PlanEvent \/ ReconcileApply
  BY <1>3 DEF PlanEvent, ReconcileApply, Grace!Renew, Grace!grace, Grace!Next
<1>4. CASE Pass
  BY <1>4 DEF Pass, sub, Grace!Tick, Grace!grace, Grace!Next
<1>5. ASSUME NEW i \in Ticks, TickAct(i) \/ ExpireCommit(i)
      PROVE  Grace!Next
  BY <1>5, RefineReckon, RefineDowngrade DEF Grace!Next
<1>6. ASSUME NEW i \in Ticks,
             \/ Claim(i) \/ TickNothing(i) \/ ExpireRead(i) \/ ExpireUpdate(i)
             \/ ExpireRefused(i) \/ LockCycle(i) \/ Reread(i) \/ Complete(i) \/ Die(i)
      PROVE  UNCHANGED <<now, sub>>
  BY <1>6 DEF Claim, TickNothing, ExpireRead, ExpireUpdate, ExpireRefused, LockCycle, Retry,
              Reread, Complete, Die
<1>7. CASE ReconcileLock \/ ViewBilling \/ MonthEnd \/ UNCHANGED vars
  BY <1>7 DEF ReconcileLock, ViewBilling, MonthEnd, vars, sub, Grace!vars, Grace!grace
<1>8. CASE \E i \in Ticks : Work(i) \/ Die(i)
  BY <1>5, <1>6, <1>8 DEF Work, Expire, sub, Grace!vars, Grace!grace
<1> QED
  BY <1>1, <1>2, <1>3, <1>4, <1>7, <1>8 DEF Next, Webhook, Owner

\* The tick jobs keep the promise of GracePeriod, with any number of ticks alive,
\* retried, late or lost: every re-collect day counts once, the plan ends only
\* after the last day, and, but for a reconcile, only for a center that owes.
THEOREM Implements == Spec => ImplementsGrace
<1>1. Init => Grace!Init
  BY DEF Init, None, Grace!Init, Grace!None
<1>2. Safe /\ HeldOrRaced /\ [Next]_vars => [Grace!Next]_(Grace!vars)
  BY RefineGrace
<1> QED
  BY <1>1, <1>2, AlwaysSafe, AlwaysHeldOrRaced, PTL DEF Spec, ImplementsGrace, Grace!Spec

-----------------------------------------------------------------------------
(* Without reconciles, month ends and faults the chain of ticks goes on.   *)

Undisturbed == ~Reconciles /\ ~MonthEnds /\ MaxFaults = 0

PendingFree == \A i \in Ticks : row[i] = "pending" => step[i] = "idle"

\* A next tick that was computed is not too late for any clock started since.
NextInTime ==
    \A i \in Ticks :
        next[i] # None =>
            /\ step[i] = "next"
            /\ next[i] <= Deadline(now)
            /\ status = "past_due" => next[i] <= Deadline(start)

Running == ~stale /\ PendingFree /\ NextInTime /\ ClockRuns

\* Tick i keeps the clock going.
Drives(i) ==
    \/ row[i] = "pending" /\ due[i] <= Deadline(start)
    \/ /\ row[i] = "processing" /\ step[i] # "idle"
       /\ step[i] = "next" => next[i] # None

\* The ticks of steps that leave the tick jobs' part of the state alone.
LEMMA SameTicks ==
    ASSUME Safe, Running, UNCHANGED <<jobs, worker>>, stale' = FALSE,
           now' \in Nat, now <= now',
           status' = "past_due" => status = "past_due" /\ UNCHANGED start
    PROVE  Running'
<1>1. UNCHANGED <<row, due, tries, step, next>>
  BY DEF jobs, worker
<1>2. PendingFree'
  BY <1>1 DEF Running, PendingFree
<1>3. NextInTime'
  <2> SUFFICES ASSUME NEW i \in Ticks, next[i] # None
               PROVE  /\ step[i] = "next"
                      /\ next[i] <= Deadline(now')
                      /\ status' = "past_due" => next[i] <= Deadline(start')
    BY <1>1 DEF NextInTime, Deadline
  <2>1. now \in Nat /\ next[i] \in Nat
    BY DEF Safe, TypeOK
  <2>2. Deadline(now) \in Nat /\ Deadline(now') \in Nat /\ Deadline(now) <= Deadline(now')
    BY <2>1, DeadlineOrder
  <2> QED
    BY <2>1, <2>2 DEF Running, NextInTime
<1>4. ClockRuns'
  BY <1>1 DEF Running, ClockRuns, Deadline
<1> QED
  BY <1>2, <1>3, <1>4 DEF Running

LEMMA PastDueRunning ==
    ASSUME Safe, Running, PastDue
    PROVE  Running'
<1>1. /\ status' = "past_due" /\ start' = now
      /\ UNCHANGED <<now, step, next, stale>>
  BY DEF PastDue, SetGrace, worker
<1>2. PICK i \in Ticks : step[i] = "idle" /\ SetRow(i, "pending", now, 0)
  BY DEF PastDue
<1>3. /\ row' = [row EXCEPT ![i] = "pending"] /\ due' = [due EXCEPT ![i] = now]
      /\ row \in [Ticks -> {"none", "pending", "processing"}] /\ due \in [Ticks -> Nat]
  BY <1>2 DEF SetRow, Safe, TypeOK
<1>4. PendingFree'
  BY <1>1, <1>2, <1>3 DEF Running, PendingFree
<1>5. NextInTime'
  BY <1>1 DEF Running, NextInTime, Deadline
<1>6. ClockRuns'
  <2>1. now \in Nat
    BY DEF Safe, TypeOK
  <2>2. now <= Deadline(now)
    BY <2>1, DeadlineOrder
  <2>3. row'[i] = "pending" /\ due'[i] = now /\ Deadline(start)' = Deadline(now)
    BY <1>1, <1>3 DEF Deadline
  <2> QED
    BY <2>2, <2>3 DEF ClockRuns
<1> QED
  BY <1>1, <1>4, <1>5, <1>6 DEF Running

\* No tick is left, and none is needed.
LEMMA EndRunning ==
    ASSUME Safe, Running, CancelTicks, status' # "past_due", UNCHANGED <<now, next, stale>>,
           \A k \in Ticks : next[k] # None => step'[k] = step[k]
    PROVE  Running'
BY DEF Running, PendingFree, NextInTime, ClockRuns, CancelTicks, Deadline

\* Steps of a tick that stays claimed.
LEMMA BusyRunning ==
    ASSUME Safe, Running, NEW i \in Ticks,
           UNCHANGED <<now, status, start, row, due, next, stale>>,
           step[i] \notin {"idle", "next"},
           NEW s \in {"expiring", "updated", "acted"}, step' = [step EXCEPT ![i] = s]
    PROVE  Running'
<1>1. step \in [Ticks -> {"idle", "claimed", "expiring", "updated", "acted", "next"}]
  BY DEF Safe, TypeOK
<1>2. PendingFree' /\ NextInTime'
  BY <1>1 DEF Running, PendingFree, NextInTime, Deadline
<1>3. ClockRuns'
  BY <1>1 DEF Running, ClockRuns, Deadline
<1> QED
  BY <1>2, <1>3 DEF Running

LEMMA ClaimRunning ==
    ASSUME Safe, Running, NEW i \in Ticks, Claim(i)
    PROVE  Running'
<1>1. /\ UNCHANGED <<now, status, start, next, stale>>
      /\ step[i] = "idle" /\ step' = [step EXCEPT ![i] = "claimed"]
      /\ row' = [row EXCEPT ![i] = "processing"] /\ due' = [due EXCEPT ![i] = 0]
  BY DEF Claim, SetRow, sub
<1>2. /\ step \in [Ticks -> {"idle", "claimed", "expiring", "updated", "acted", "next"}]
      /\ row \in [Ticks -> {"none", "pending", "processing"}] /\ due \in [Ticks -> Nat]
  BY DEF Safe, TypeOK
<1>3. PendingFree' /\ NextInTime'
  BY <1>1, <1>2 DEF Running, PendingFree, NextInTime, Deadline
<1>4. ClockRuns'
  BY <1>1, <1>2 DEF Running, ClockRuns, Deadline
<1> QED
  BY <1>1, <1>3, <1>4 DEF Running

\* The next tick of a center that is past due is not after its deadline.
LEMMA NextTickInTime ==
    ASSUME Safe, status = "past_due"
    PROVE  /\ NextTick(start) \in Nat
           /\ NextTick(start) <= Deadline(start)
           /\ Deadline(start) <= Deadline(now)
           /\ Deadline(now) \in Nat /\ Deadline(start) \in Nat
<1>1. start \in Nat /\ now \in Nat /\ start <= now
  BY DEF Safe, TypeOK, None
<1>2. /\ Deadline(start) \in Nat /\ Deadline(now) \in Nat
      /\ Deadline(start) <= Deadline(now)
  BY <1>1, DeadlineOrder
<1>3. Elapsed(start) \in Nat
  BY <1>1, DayBounds DEF Elapsed
<1>4. FollowingDay(start) \in Nat
  BY <1>1, <1>3, GraceAssumption DEF FollowingDay
<1> QED
  BY <1>2, <1>4 DEF NextTick

LEMMA RereadRunning ==
    ASSUME Safe, Running, NEW i \in Ticks, Reread(i)
    PROVE  Running'
<1> DEFINE n == IF StillDue THEN NextTick(start) ELSE None
<1>1. /\ UNCHANGED <<now, status, start, row, due, stale>>
      /\ step[i] = "acted" /\ step' = [step EXCEPT ![i] = "next"]
      /\ next' = [next EXCEPT ![i] = n]
  BY DEF Reread, sub, jobs
<1>2. /\ step \in [Ticks -> {"idle", "claimed", "expiring", "updated", "acted", "next"}]
      /\ next \in [Ticks -> {None} \cup Nat]
  BY DEF Safe, TypeOK
<1>3. n # None => status = "past_due" /\ n <= Deadline(now) /\ n <= Deadline(start)
  BY NextTickInTime DEF StillDue
<1>4. status = "past_due" => n # None
  BY NextTickInTime DEF StillDue, None
<1> HIDE DEF n
<1>5. PendingFree'
  BY <1>1, <1>2 DEF Running, PendingFree
<1>6. NextInTime'
  BY <1>1, <1>2, <1>3 DEF Running, NextInTime, Deadline
<1>7. ClockRuns'
  BY <1>1, <1>2, <1>4 DEF Running, ClockRuns, Deadline
<1> QED
  BY <1>1, <1>5, <1>6, <1>7 DEF Running

LEMMA CompleteRunning ==
    ASSUME Safe, Running, NEW i \in Ticks, Complete(i)
    PROVE  Running'
<1>1. /\ UNCHANGED <<now, status, start, stale>>
      /\ step[i] = "next" /\ step' = [step EXCEPT ![i] = "idle"]
      /\ next' = [next EXCEPT ![i] = None]
  BY DEF Complete, sub
<1>2. /\ step \in [Ticks -> {"idle", "claimed", "expiring", "updated", "acted", "next"}]
      /\ next \in [Ticks -> {None} \cup Nat]
      /\ row \in [Ticks -> {"none", "pending", "processing"}] /\ due \in [Ticks -> Nat]
  BY DEF Safe, TypeOK
<1>3. /\ row' = [row EXCEPT ![i] = IF next[i] = None THEN "none" ELSE "pending"]
      /\ due' = [due EXCEPT ![i] = IF next[i] = None THEN 0 ELSE next[i]]
  BY DEF Complete, SetRow
<1>4. PendingFree' /\ NextInTime'
  BY <1>1, <1>2, <1>3 DEF Running, PendingFree, NextInTime, Deadline
<1>5. ClockRuns'
  <2> SUFFICES ASSUME status = "past_due"
               PROVE  \E k \in Ticks : Drives(k)'
    BY <1>1 DEF ClockRuns, Drives
  <2>1. PICK k \in Ticks : Drives(k)
    BY DEF Running, ClockRuns, Drives
  <2>2. CASE k = i
    <3>1. next[i] # None /\ next[i] <= Deadline(start)
      BY <2>1, <2>2, <1>1 DEF Drives, Running, PendingFree, NextInTime
    <3>2. row'[i] = "pending" /\ due'[i] = next[i] /\ Deadline(start)' = Deadline(start)
      BY <3>1, <1>1, <1>2, <1>3 DEF Deadline
    <3> QED
      BY <3>1, <3>2 DEF Drives
  <2>3. CASE k # i
    <3>1. /\ row'[k] = row[k] /\ due'[k] = due[k] /\ step'[k] = step[k]
          /\ next'[k] = next[k] /\ Deadline(start)' = Deadline(start)
      BY <2>3, <1>1, <1>2, <1>3 DEF Deadline
    <3> QED
      BY <2>1, <3>1 DEF Drives
  <2> QED
    BY <2>2, <2>3
<1> QED
  BY <1>1, <1>4, <1>5 DEF Running

LEMMA StepRunning ==
    ASSUME Undisturbed, Safe, Held, Running, [Next]_vars
    PROVE  Running'
<1>1. now \in Nat /\ ~stale
  BY DEF Safe, TypeOK, Running
<1>2. CASE PastDue
  BY <1>2, PastDueRunning
<1>3. CASE Recover
  BY <1>3, EndRunning DEF Recover, worker
<1>4. CASE PlanEvent \/ ReconcileLock \/ ReconcileApply \/ ViewBilling \/ MonthEnd
           \/ UNCHANGED vars
  <2>1. /\ UNCHANGED <<jobs, worker>> /\ now' = now
        /\ status' = "past_due" => status = "past_due" /\ UNCHANGED start
    BY <1>4 DEF PlanEvent, ReconcileLock, ReconcileApply, ViewBilling, MonthEnd, vars, sub
  <2>2. stale' = FALSE
    BY <1>1, <1>4 DEF PlanEvent, ReconcileLock, ReconcileApply, ViewBilling, MonthEnd, vars,
                      Undisturbed, Safe, TypeOK
  <2>3. now' \in Nat /\ now <= now'
    BY <1>1, <2>1
  <2> QED
    BY <2>1, <2>2, <2>3, SameTicks
<1>5. CASE Pass
  <2>1. UNCHANGED <<jobs, worker>> /\ now' \in Nat /\ now <= now'
    BY <1>1, <1>5 DEF Pass
  <2>2. status' = "past_due" => status = "past_due" /\ UNCHANGED start
    BY <1>5 DEF Pass, sub
  <2>3. stale' = FALSE
    BY <1>1, <1>5 DEF Pass, Safe, TypeOK
  <2> QED
    BY <2>1, <2>2, <2>3, SameTicks
<1>6. ASSUME NEW i \in Ticks, Work(i) \/ Die(i)
      PROVE  Running'
  <2>1. CASE Claim(i) \/ Reread(i) \/ Complete(i)
    BY <2>1, ClaimRunning, RereadRunning, CompleteRunning
  <2>2. CASE TickNothing(i)
    BY <2>2, BusyRunning DEF TickNothing, sub, jobs
  <2>3. CASE TickAct(i)
    BY <2>3, BusyRunning DEF TickAct, jobs
  <2>4. CASE ExpireRead(i)
    BY <2>4, BusyRunning DEF ExpireRead, sub, jobs
  <2>5. CASE ExpireUpdate(i)
    BY <2>5, BusyRunning DEF ExpireUpdate, sub, jobs
  <2>6. CASE ExpireCommit(i)
    <3>1. \A k \in Ticks : next[k] # None => step'[k] = step[k]
      BY <2>6 DEF ExpireCommit, Running, NextInTime, Safe, TypeOK
    <3> QED
      BY <2>6, <3>1, EndRunning DEF ExpireCommit
  <2>7. ~ExpireRefused(i) /\ ~LockCycle(i) /\ ~Die(i)
    BY <1>1, GraceAssumption DEF ExpireRefused, LockCycle, Die, Held, Undisturbed, Safe, TypeOK
  <2> QED
    BY <1>6, <2>1, <2>2, <2>3, <2>4, <2>5, <2>6, <2>7 DEF Work, Expire
<1> QED
  BY <1>2, <1>3, <1>4, <1>5, <1>6 DEF Next, Webhook, Owner

\* The chain of ticks: if no worker dies, no month ends unnoticed and nothing is
\* reconciled, a center that is past due always has a tick to come, not after
\* its deadline, or at work.  Each of the three conditions is needed: three runs
\* of the checker break the chain, or the lock, without it.
THEOREM ChainUnbroken ==
    ASSUME Undisturbed
    PROVE  Spec => []ClockRuns
<1>1. Init => Running
  BY DEF Init, Running, PendingFree, NextInTime, ClockRuns
<1>2. Safe /\ Held /\ Running /\ [Next]_vars => Running'
  BY StepRunning
<1>3. Running => ClockRuns
  BY DEF Running
<1>4. Spec => []Held
  BY AlwaysHeld DEF Undisturbed
<1> QED
  BY <1>1, <1>2, <1>3, <1>4, AlwaysSafe, PTL DEF Spec
=============================================================================
