SPECIFICATION FairSpec
CONSTANTS
    Runs = {r1}
    NoRun = NoRun
    TotalShards = 1
    MaxFlush = 1
    Faults = {"fleet"}
    MaxFaults = 1
    Prompt = TRUE
    Orchestrators = {o1}
    Replicas = {f1}
    TheSubmission = sub
    Submissions <- OneSubmission
    SubmissionOf <- AllOfOne
    Scores = {1}
    ReadCount = 2
PROPERTY LoadGetsVerdict
CHECK_DEADLOCK FALSE
