SPECIFICATION Spec
CONSTANTS
    a = a
    b = b
    c = c
    o1 = o1
    o2 = o2
    Module = {a, b}
    Obj = {o1, o2}
    Hosts <- OneAndTwoHosts
    MsgThreads = 2
    Modes = {TRUE, FALSE}
    MaxOps = 3
    None = None
INVARIANTS
    NotStale
    Found
CHECK_DEADLOCK FALSE
