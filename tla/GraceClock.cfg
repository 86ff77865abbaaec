CONSTANTS
    Ticks <- MCTicks
    Day = 2
    Window = 3
    EmailDays = {0, 2}
    RetryDays = {1, 2}
    MaxTries = 1
    UnpaidUpdates = TRUE
    Reconciles = TRUE
    MonthEnds = TRUE
    MaxFaults = 1
    MaxNow = 9
    t1 = t1
    t2 = t2
SPECIFICATION Spec
CHECK_DEADLOCK FALSE
INVARIANT TypeOK
PROPERTY ImplementsGrace
