--------------------------- MODULE MCCreditLedger ---------------------------
(* CreditLedger on three jobs, two orders and plans of 0, 1 and 2 credits. *)
EXTENDS CreditLedger, TLC

CONSTANTS pro, studio, j1, j2, j3, o1, o2

MCPlans     == {Free, pro, studio}
MCAllowance == Free :> 0 @@ pro :> 1 @@ studio :> 2
MCJobs      == {j1, j2, j3}
MCTwoJobs   == {j1, j2}
MCPurchases == {o1, o2}
=============================================================================
