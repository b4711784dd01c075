SPECIFICATION Spec
CONSTANTS
    S = S
    A = A
    B = B
    ES = ES
    EA = EA
    EB = EB
    C1 = C1
    C2 = C2
    None = None
    Id <- MCId
    Endpoint <- MCEndpoint
    home <- MCHome
    Distance <- MCDistance
    Call = {C1}
    caller <- OneByB
    target <- OneForA
    Running = {S, A}
    Bootstrap = {S, A}
    K = 2
    PingPeriod = 1
    BadPeriod = 2
    ExpiredTime = 3
    Wrap = 16
    Alpha = 1
    MaxNodesInResponse = 8
    Lossy = TRUE
    Overwriting = TRUE
    Copied = {}
    MaxMishaps = 1
    Asks <- InTurn
    MaxBootstraps = 1
    Periodic = {}
    MaxPending = 0
    MaxStops = 1
    MaxTime = 0
    TaskGap = 1
CHECK_DEADLOCK FALSE
INVARIANTS
    EndpointsAreGenuine
    BootstrapIsReported
