SPECIFICATION TrafficSpec
CONSTANTS
    Bots = {b1, b2}
    Ids <- MCIds
    Prices = {0, 1, 2}
    Qtys = {1, 2}
    NoEntry = NoEntry
    NoCall = NoCall
    NoTop = NoTop
    MaxSeq = 3
    MaxRequests = 3
    RestingCap = 1
    MaxTimeouts = 1
    Chaos = TRUE
SYMMETRY BotSymmetry
INVARIANTS NoFalseAlarm NeverRejected TopIsPromised
CHECK_DEADLOCK FALSE
