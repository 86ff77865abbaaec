SPECIFICATION FairSpec
CONSTANTS
    j1 = j1
    j2 = j2
    j3 = j3
    s1 = s1
    c1 = c1
    c2 = c2
    NoJob = NoJob
    NoSub = NoSub
    Jobs <- MCTwoJobs
    Workers = {w1, w2}
    Sweepers = {p1}
    Centers = {c1}
    CenterOf <- MCTwoCenter
    Submissions = {s1}
    SubOf <- MCNoSubs
    Paid = {j1, j2}
    MaxRetries = 1
    Backoff <- MCBackoff
    StuckTimeout = 1
    MaxFaults = 1
PROPERTIES
    EveryJobSettles
