SPECIFICATION FairSpec
CONSTANTS
    Attempts = {a1, a2}
    MaxReplays = 1
    MaxFaults = 2
    None = None
INVARIANTS
    TypeOK
    OneChild
    RawKeptForReplay
    CompletedByChild
PROPERTY
    RootStreamEnds
CHECK_DEADLOCK FALSE
