SPECIFICATION Spec
CONSTANTS
    Length <- MCLength
CHECK_DEADLOCK FALSE
INVARIANTS
    TypeOK
    TextArrives
