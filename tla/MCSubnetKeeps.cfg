CONSTANTS
    a = a
    b = b
    None = None
    Node <- MCNode
    Dials <- OneWay
    MaxRun = 1
    MayRestart = {}
    ClientPrio = {1}
    TaskPrio = {1}
    NetMayFail = TRUE
    MaxFaults = 1
SPECIFICATION FairSpec
PROPERTIES
    KeepsConnected
\* A subnet whose modules are connected has nothing left to do.
CHECK_DEADLOCK FALSE
