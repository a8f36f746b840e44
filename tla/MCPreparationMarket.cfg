SPECIFICATION Spec
CONSTANTS
    Habits <- MCHabits
    MaxErrors = 0
    Numbers <- MCNumbers
    BotsDefault = 5
    RPSDefault = 8
    MaxBots = 11
    MaxRPS = 10
    BotsPerShard = 3
    NoJob = NoJob
INVARIANT MarketRemainderCovered
CHECK_DEADLOCK FALSE
