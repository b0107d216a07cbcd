SPECIFICATION Spec
CONSTANTS
    u1 = u1
    u2 = u2
    u3 = u3
    c1 = c1
    c2 = c2
    c3 = c3
    gate = gate
    m1 = m1
    m2 = m2
    User = {u1, u2}
    Conn = {c1, c2, c3}
    Module = {gate, m1, m2}
    Gateway = gate
    UserOf <- MCUserOf
    Route <- MCRoute
    Answered = {c3}
    Picked = {c3}
    MaxSends <- MCMaxSends
INVARIANTS
    TypeOK
    OpenIsPooled
    Keyed
    OwnConnID
CHECK_DEADLOCK FALSE
PROPERTIES
    Removed
    KickedLeaves
