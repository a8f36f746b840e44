SPECIFICATION BooksSpec
CONSTANTS
    Ids = {a, b, c}
    Prices = {0, 1, 2, 3}
    Qtys = {0, 1, 2}
    NoEntry = NoEntry
    NoCall = NoCall
    MaxSeq = 5
SYMMETRY IdSymmetry
INVARIANTS TypeOK LevelsSorted NoEmptyLevel Uncrossed IndexExact
PROPERTY ImplementsPriceTime
CHECK_DEADLOCK FALSE
