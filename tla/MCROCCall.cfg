SPECIFICATION FairSpec
CONSTANTS
    a = a
    b = b
    d = d
    o = o
    o2 = o2
    c1 = c1
    c2 = c2
    c3 = c3
    Module = {a, b, d}
    Obj = {o, o2}
    Call = {c1, c2, c3}
    From <- MCFrom
    Target <- MCTarget
    NeedReturn <- MCNeedReturn
    Before <- MCBefore
    Host <- MCHost
    Second <- MCSecond
    MaxRebinds = 1
    None = None
INVARIANTS
    TypeOK
    OwnAnswer
    InOrder
    
    
PROPERTIES
    RemoteReturns
\* A call to the caller's own module and a module that is down never end.
CHECK_DEADLOCK FALSE
