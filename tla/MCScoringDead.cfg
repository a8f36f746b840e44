SPECIFICATION Spec
CONSTANTS
    Shards = {s1, s2}
    Latencies = {0, 1, 3, 4}
    Root = 2
    MaxBucket = 2
    MaxSec = 2
    MaxEvents = 4
    MaxViolations = 2
    ErrPercent = 40
    LatFull = 1
    LatZero = 4
    Checks = 2
    TpsFull = 3
    ThrMarks <- MCThrMarks
SYMMETRY ShardSymmetry
INVARIANT DeadEngineScoresNothing
CHECK_DEADLOCK FALSE
