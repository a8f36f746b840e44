SPECIFICATION Spec
CONSTANTS
    Runs = {r1, r2}
    NoRun = NoRun
    TotalShards = 1
    MaxFlush = 1
    Faults = {"fleet"}
    MaxFaults = 1
    Prompt = TRUE
    Orchestrators = {o1, o2}
    Replicas = {f1, f2}
    TheSubmission = sub
    Submissions <- OneSubmission
    SubmissionOf <- AllOfOne
    Scores = {1, 2}
    ReadCount = 2
SYMMETRY Symmetry
INVARIANT BestRunKept
CHECK_DEADLOCK FALSE
