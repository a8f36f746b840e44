SPECIFICATION Spec
CONSTANTS
    Runs = {r1}
    Goroutines = {main}
    Pages = {p1, p2}
    MaxConnects = 1
    BcastCap = 1
    MaxHiccups = 0
    Polling = FALSE
    None = None
PROPERTY SameFeed
CHECK_DEADLOCK FALSE
