CONSTANTS
    Attempts <- MCAttempts
    Fields = {f1, f2}
    Nothing = Nothing
    MaxEdits <- MCMaxEdits
    MaxTroubles = 1
SPECIFICATION FairSpec
\* A submitted attempt, or one nobody opens again, is at rest.
CHECK_DEADLOCK FALSE
INVARIANTS TypeOK NoLossySubmit CommittedSurvives
PROPERTIES AckedIsShown DirtyIsSent
