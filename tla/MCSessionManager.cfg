SPECIFICATION Spec
CONSTANTS
    None = None
    User = {u}
    Conn = {c1, c2}
    Module = {m1, m2, m3}
    UUID = u
INVARIANTS
    NoPanic
    KeepsUpdates
SYMMETRY Symmetry
\* Every goroutine handles one command.
CHECK_DEADLOCK FALSE
