CONSTANTS
    a = a
    b = b
    None = None
    Node <- MCNode
    Dials <- Mutually
    MaxRun = 2
    MayRestart <- OneRestarts
    ClientPrio = {1, 2}
    TaskPrio = {1}
    NetMayFail = TRUE
    MaxFaults = 1
SPECIFICATION Spec
INVARIANTS
    JoinedMeansAccepted
    JoinAgreement
    QuietMeansConnected
\* A subnet whose modules are connected has nothing left to do.
CHECK_DEADLOCK FALSE
