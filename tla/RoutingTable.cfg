SPECIFICATION WalkSpec
CONSTANTS
    Main = Main
    A = A
    B = B
    C = C
    D = D
    E1 = E1
    E2 = E2
    E3 = E3
    Id <- MCId
    Endpoint <- MCEndpoint
    MainId = Main
    K = 3
    PingPeriod = 1
    BadPeriod = 2
    ExpiredTime = 3
    TaskGap = 1
    Wrap = 16
    MaxSkew = 2
    MaxChanges = 2
SYMMETRY Symmetry
INVARIANTS
    TypeOK
    DistinctIds
    RecencyOrder
    GoodnessIsAccurate
    SilentPeersAreProbed
PROPERTIES
    LossOnlyJustified
    ImplementsDirectory
    FindsWhatStays
    EndpointWasTargets
