SPECIFICATION Spec
CONSTANTS
    Runs = {r1, r2}
    NoRun = NoRun
    TotalShards = 1
    MaxFlush = 1
    Faults = {}
    MaxFaults = 0
    Prompt = TRUE
    Orchestrators = {o1, o2}
    Replicas = {f1}
    TheSubmission = sub
    Submissions <- OneSubmission
    SubmissionOf <- AllOfOne
    Scores = {1}
    ReadCount = 2
PROPERTY TerminalIsFinal
CHECK_DEADLOCK FALSE
