---------------------------- MODULE GracePeriod ----------------------------
(***************************************************************************)
(* What classlite-api promises a center whose payment failed, whatever     *)
(* jobs, retries and lost workers it is done with: the plan is kept until  *)
(* a calendar day has wholly gone by, the warnings and re-collects of the  *)
(* days that passed come once each, and a payment ends it all.  GraceClock *)
(* implements it.                                                          *)
(***************************************************************************)
EXTENDS Integers, FiniteSets

CONSTANTS
    Day,        \* clock units in a day
    Window,     \* days between the one of the failure and the last one
    EmailDays,  \* days of a grace period with a warning
    RetryDays,  \* days of a grace period with a re-collect
    Unlocked    \* some writer of the subscription does not wait for a downgrade

None == -1

VARIABLES
    now,      \* the clock
    status,   \* of the subscription
    start,    \* when the payment failed, None without a grace period
    day,      \* last day of the grace period that was reckoned with
    retries,  \* re-collects in this grace period
    emails    \* warnings in this grace period

grace == <<start, day, retries, emails>>
vars  == <<now, status, grace>>

DayOf(t) == t \div Day

\* The present instant is the last one of the last day, or after it.
Over == DayOf(now + 1) > DayOf(start) + Window

\* Days of the grace period that have gone by.
Passed == (now - start) \div Day

Begin(s) == start' = s /\ day' = -1 /\ retries' = 0 /\ emails' = 0

Init ==
    /\ now = 0
    /\ status = "active"
    /\ start = None /\ day = -1 /\ retries = 0 /\ emails = 0

Fail ==
    /\ status # "past_due"
    /\ status' = "past_due"
    /\ Begin(now)
    /\ UNCHANGED now

\* A payment: nothing is left of the grace period.
Pay ==
    /\ status = "past_due"
    /\ status' = "active"
    /\ Begin(None)
    /\ UNCHANGED now

\* A plan is bought, or renewed, without a word on what was owed.
Renew ==
    /\ status' = "active"
    /\ UNCHANGED <<now, grace>>

\* The days up to now are reckoned with: afterwards every re-collect that was
\* due has been made, and one warning is for all the days since the last time.
Reckon ==
    /\ status = "past_due" /\ ~Over
    /\ day < Passed
    /\ day' = Passed
    /\ retries' = Cardinality({d \in RetryDays : d <= Passed})
    /\ emails' = IF \E d \in EmailDays : day < d /\ d <= Passed THEN emails + 1 ELSE emails
    /\ UNCHANGED <<now, status, start>>

\* The end of the plan, never before the end of the last day.
Downgrade ==
    /\ start # None /\ Over
    /\ status = "past_due" \/ (Unlocked /\ status = "active")
    /\ status' = "cancelled"
    /\ Begin(None)
    /\ UNCHANGED now

Tick ==
    /\ now' = now + 1
    /\ UNCHANGED <<status, grace>>

Next == Fail \/ Pay \/ Renew \/ Reckon \/ Downgrade \/ Tick

Spec == Init /\ [][Next]_vars
=============================================================================
