SPECIFICATION Spec
CONSTANTS
    Runs = {r1, r2}
    Goroutines = {main, sweep}
    Pages = {}
    MaxConnects = 1
    BcastCap = 1
    MaxHiccups = 0
    Polling = TRUE
    None = None
INVARIANT SnapshotCurrent
CHECK_DEADLOCK FALSE
