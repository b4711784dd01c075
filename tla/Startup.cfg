SPECIFICATION FairSpec
CONSTANTS
    Ports = 8
    Configured = {3, 7}
    MaxTries = 7
    MaxSaves = 2
    MaxCrashes = 2
    MaxSkew = 1
    MaxAhead = 1
    MaxLate = 2
CHECK_DEADLOCK FALSE
INVARIANTS
    BacksOff
    PortIsSaved
PROPERTIES
    RequestsAreSpaced
    StartsUp
