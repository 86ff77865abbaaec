CONSTANTS
    Tabs = {t1, t2}
    NoToken = NoToken
    Cold = Cold
    LoggedOut = LoggedOut
    WebLocks = TRUE
    MaxFamilies = 1
    MaxGenerations = 2
    MaxReloads = 1
    MaxFaults = 1
SPECIFICATION FairSpec
\* Signed out for good, and without logins left, nothing happens any more.
CHECK_DEADLOCK FALSE
INVARIANTS TypeOK ReuseMeansALostAnswer
PROPERTIES RefreshSettles ImplementsOneClient
