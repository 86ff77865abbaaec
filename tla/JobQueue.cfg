SPECIFICATION Spec
CONSTANTS
    j1 = j1
    j2 = j2
    j3 = j3
    s1 = s1
    c1 = c1
    c2 = c2
    NoJob = NoJob
    NoSub = NoSub
    Jobs <- MCJobs
    Workers = {w1, w2}
    Sweepers = {p1}
    Centers = {c1}
    CenterOf <- MCOneCenter
    Submissions = {s1}
    SubOf <- MCSubOf
    Paid = {j1, j2}
    MaxRetries = 1
    Backoff <- MCBackoff
    StuckTimeout = 0
    MaxFaults = 1
SYMMETRY Symmetry
INVARIANTS
    TypeOK
    RefundIffFailed
    DeadlockNeedsASweep
    ExhaustedClimbedTheLadder
PROPERTIES
    ImplementsPaidJob
