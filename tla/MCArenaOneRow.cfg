SPECIFICATION Spec
CONSTANTS
    Runs = {r1, r2}
    NoRun = NoRun
    TotalShards = 2
    MaxFlush = 0
    Faults = {}
    MaxFaults = 0
    Prompt = TRUE
    Orchestrators = {o1, o2}
    Replicas = {f1}
    TheSubmission = sub
    Submissions <- OneSubmission
    SubmissionOf <- AllOfOne
    Scores = {1}
    ReadCount = 2
INVARIANT OneRowPerRun
CHECK_DEADLOCK FALSE
