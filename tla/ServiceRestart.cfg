SPECIFICATION Spec
CONSTANTS
    D1 = D1
    T1 = T1
    Datagram <- MCDatagram
    Sender <- MCSender
    MaxOnline = 2
    MaxSends = 2
CHECK_DEADLOCK FALSE
PROPERTIES
    ResetBeforeRun
