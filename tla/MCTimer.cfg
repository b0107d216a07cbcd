SPECIFICATION Spec
CONSTANTS
    load = load
    twice = twice
    own = own
    Nil = Nil
    Timers = {load, twice, own}
    Limit <- MCLimit
    Engross = {own}
    Killed = {twice}
    ChanSize = 2
    MaxTicks = 1
INVARIANTS
    OneAtATime
    TicksAreCalls
    OneLate
PROPERTIES
    Served
    Stops
\* All timers may have ended, or be locked by one without a limit.
CHECK_DEADLOCK FALSE
