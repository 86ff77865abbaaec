---------------------------- MODULE CreditBalance ----------------------------
(***************************************************************************)
(* What the AI-credit engine of classlite-api promises a center, whatever  *)
(* the buckets and the ledger rows it is written with: one balance, part   *)
(* of which (the purchased part) never expires.  CreditLedger implements   *)
(* it.                                                                     *)
(***************************************************************************)
EXTENDS Integers

CONSTANTS
    Jobs,       \* the jobs that may be charged for
    Purchases,  \* the add-on orders that may be paid
    Pack,       \* credits of an add-on pack
    Allowances  \* what a plan may grant for a month

VARIABLES
    balance,    \* credits the center can see
    carried,    \* the part of it that survives the end of the month
    charged,    \* jobs a credit was taken for
    returned,   \* jobs whose credit came back
    bought      \* orders whose credits were added

vars == <<balance, carried, charged, returned, bought>>

Init ==
    /\ balance = 0
    /\ carried = 0
    /\ charged = {}
    /\ returned = {}
    /\ bought = {}

\* The balance an operation finds: the present one, or that of a month which
\* begins with the operation and leaves nothing of the old one but what is
\* carried over.
Found == {balance} \cup {carried + n : n \in Allowances}

\* One credit per job, the expiring ones first, never below zero.
Charge(j) ==
    /\ j \notin charged
    /\ \E b \in Found :
         /\ b > 0
         /\ balance' = b - 1
         /\ carried' = IF b > carried THEN carried ELSE carried - 1
    /\ charged' = charged \cup {j}
    /\ UNCHANGED <<returned, bought>>

\* The credit of a job comes back once, for this month or for good.
Return(j) ==
    /\ j \in charged \ returned
    /\ \E b \in Found : balance' = b + 1
    /\ carried' \in {carried, carried + 1}
    /\ returned' = returned \cup {j}
    /\ UNCHANGED <<charged, bought>>

\* An order counts once.
Buy(p) ==
    /\ p \notin bought
    /\ \E b \in Found : balance' = b + Pack
    /\ carried' = carried + Pack
    /\ bought' = bought \cup {p}
    /\ UNCHANGED <<charged, returned>>

\* A month begins, or the plan changes.
Regrant ==
    /\ balance' \in Found
    /\ UNCHANGED <<carried, charged, returned, bought>>

Next ==
    \/ \E j \in Jobs : Charge(j) \/ Return(j)
    \/ \E p \in Purchases : Buy(p)
    \/ Regrant

Spec == Init /\ [][Next]_vars
=============================================================================
