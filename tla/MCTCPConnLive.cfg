CONSTANTS
    a = a
    b = b
    m1 = m1
    m2 = m2
    m3 = m3
    m4 = m4
    End <- MCEnd
    Msg <- OneWayMsg
    Origin <- OneWayOrigin
    Size <- OneWaySize
    Before <- Sequential
    SendChanSize = 1
    RecvChanSize = 1
    WireSize = 1
    MaxMsgPackSum = 2
    MessageMaxSize = 2
    SendBufferSize = 4
    BanAutoResize = TRUE
    NetMayFail = FALSE
    CallbackMayPanic = FALSE
SPECIFICATION FairSpec
PROPERTIES
    GracefulDelivery
    ShutdownCloses
\* A closed connection does nothing more.
CHECK_DEADLOCK FALSE
