SPECIFICATION Spec
CONSTANTS
    Runs = {r1, r2}
    Goroutines = {main, sweep}
    Pages = {p1}
    MaxConnects = 1
    BcastCap = 1
    MaxHiccups = 1
    Polling = TRUE
    None = None
INVARIANT OneWriter
PROPERTIES PagesCatchUp ClosedSocketsLeave
