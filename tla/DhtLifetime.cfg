SPECIFICATION FairSpec
CONSTANTS
    T1 = T1
    T2 = T2
    Timer <- MCTimer
    MaxTasks = 2
CHECK_DEADLOCK FALSE
INVARIANTS
    ServesWhileUp
PROPERTIES
    FaultsNeedCompany
    TimersEnd
    DestructorEnds
