SPECIFICATION Spec
CONSTANTS
    a = a
    b = b
    m1 = m1
    m2 = m2
    m3 = m3
    End <- MCEnd
    Msg <- MCMsg
    Origin <- MCOrigin
    Before <- MCBefore
    ChanSize = 1
INVARIANTS
    OneLate
PROPERTIES
    LinkSpec
    Delivered
    SendReturns
CHECK_DEADLOCK FALSE
