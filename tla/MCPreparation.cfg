SPECIFICATION Spec
CONSTANTS
    Habits <- MCHabits
    MaxErrors = 2
    Numbers <- MCNumbers
    BotsDefault = 5
    RPSDefault = 8
    MaxBots = 11
    MaxRPS = 10
    BotsPerShard = 3
    NoJob = NoJob
INVARIANTS CorrectEngineLosesOnlyAnswers MistakesCostMarks ProbeLeavesNothing FanOutExact
CHECK_DEADLOCK FALSE
