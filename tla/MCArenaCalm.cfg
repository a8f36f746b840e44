SPECIFICATION Spec
CONSTANTS
    Runs = {r1, r2}
    NoRun = NoRun
    TotalShards = 2
    MaxFlush = 1
    Faults = {}
    MaxFaults = 0
    Prompt = TRUE
    Orchestrators = {o1, o2}
    Replicas = {f1, f2, f3, f4}
    TheSubmission = sub
    Submissions <- OneSubmission
    SubmissionOf <- AllOfOne
    Scores = {1, 2}
    ReadCount = 2
SYMMETRY Symmetry
INVARIANTS OneRowPerRun BestRunKept ScoreMatchesMetrics
PROPERTY TerminalIsFinal
CHECK_DEADLOCK FALSE
