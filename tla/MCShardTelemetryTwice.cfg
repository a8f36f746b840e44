SPECIFICATION Spec
CONSTANTS
    Bots = {b1, b2}
    MaxRequests = 2
    MaxVerdicts = 1
    MaxFlush = 1
    MaxSamples = 2
    MaxLost = 1
    MaxDup = 1
SYMMETRY BotSymmetry
INVARIANT MergeIsIdempotent
CHECK_DEADLOCK FALSE
