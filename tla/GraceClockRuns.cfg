CONSTANTS
    Ticks <- MCTicks
    Day = 2
    Window = 7
    EmailDays = {0, 3, 5, 6}
    RetryDays = {3, 5}
    MaxTries = 1
    UnpaidUpdates = TRUE
    Reconciles = FALSE
    MonthEnds = FALSE
    MaxFaults = 0
    MaxNow = 16
    t1 = t1
    t2 = t2
SPECIFICATION FairSpec
CHECK_DEADLOCK FALSE
INVARIANT ClockRuns
PROPERTY EveryGraceEnds
