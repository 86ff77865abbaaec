CONSTANTS
    None = None
    MaxEdits = 2
    MaxForeign = 1
    MetaEdits = {}
    MaxPresses = 2
    MaxLeaves = 1
    MaxTroubles = 0
SPECIFICATION FairSpec
\* A teacher who has left, or has nothing more to edit, is at rest.
CHECK_DEADLOCK FALSE
INVARIANTS NoSilentClobber
