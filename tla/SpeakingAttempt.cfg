CONSTANTS
    Nothing = Nothing
    Clocks <- MCClocks
    MaxTakes = 2
    MaxTroubles = 1
SPECIFICATION FairSpec
\* A submitted attempt, or one nobody opens again, is at rest.
CHECK_DEADLOCK FALSE
INVARIANTS TypeOK MicIsShown SubmittedAsConfirmed KeySurvives
PROPERTY SubmitEnds
