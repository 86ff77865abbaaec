CONSTANTS
    None = None
    MaxEdits = 2
    MaxForeign = 1
    MetaEdits = {1, 3}
    MaxPresses = 1
    MaxLeaves = 1
    MaxTroubles = 1
SPECIFICATION FairSpec
\* A teacher who has left, or has nothing more to edit, is at rest.
CHECK_DEADLOCK FALSE
INVARIANTS TypeOK LostOnlyInAWindow ConflictIsWithAnother
PROPERTIES EditsSettle
