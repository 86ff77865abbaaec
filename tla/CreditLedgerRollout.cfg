CONSTANTS
    Jobs <- MCTwoJobs
    Purchases <- MCPurchases
    Plans <- MCPlans
    Free = Free
    Allowance <- MCAllowance
    Pack = 1
    ArmedAtStart = FALSE
    MaxFlips = 1
    MaxMonths = 2
    pro = pro
    studio = studio
    j1 = j1
    j2 = j2
    j3 = j3
    o1 = o1
    o2 = o2
SPECIFICATION Spec
CHECK_DEADLOCK FALSE
INVARIANT PurchasedNeverLost
