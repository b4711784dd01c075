SPECIFICATION Spec
CONSTANTS
    S = S
    A = A
    B = B
    ES = ES
    EA = EA
    EB = EB
    C1 = C1
    C2 = C2
    None = None
    Id <- TwoIds
    Endpoint <- MCEndpoint
    home <- MCHome
    Distance <- MCDistance
    Call = {}
    caller <- NoCalls
    target <- NoCalls
    Running = {S, A}
    Bootstrap = {S}
    K = 2
    PingPeriod = 1
    BadPeriod = 2
    ExpiredTime = 3
    Wrap = 16
    Alpha = 3
    MaxNodesInResponse = 8
    Lossy = FALSE
    Overwriting = FALSE
    Copied = {"ping", "pong", "get_nodes", "send_nodes"}
    MaxMishaps = 1
    Asks <- Everyone
    MaxBootstraps = 1
    Periodic = {A}
    MaxPending = 0
    MaxStops = 2
    MaxTime = 6
    TaskGap = 2
CHECK_DEADLOCK FALSE
INVARIANTS
    GoneAreForgotten
PROPERTIES
    LivePeersStay
