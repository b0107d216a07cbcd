CONSTANTS
    a = a
    b = b
    m1 = m1
    m2 = m2
    m3 = m3
    m4 = m4
    End <- MCEnd
    Msg <- OneWayMsg
    Origin <- OneWayOrigin
    Size <- OneWaySize
    Before <- Concurrent
    SendChanSize = 1
    RecvChanSize = 1
    WireSize = 1
    MaxMsgPackSum = 2
    MessageMaxSize = 2
    SendBufferSize = 4
    BanAutoResize = TRUE
    NetMayFail = TRUE
    CallbackMayPanic = TRUE
SPECIFICATION Spec
INVARIANTS
    ShutdownOnce
    DrainComplete
PROPERTIES
    LinkSpec
\* A closed connection does nothing more.
CHECK_DEADLOCK FALSE
