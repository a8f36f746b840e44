SPECIFICATION FairSpec
CONSTANTS
    Runs = {r1}
    NoRun = NoRun
    TotalShards = 2
    MaxFlush = 1
    Faults = {"orchestrator", "fleet", "ingester", "xadd"}
    MaxFaults = 2
    Prompt = TRUE
    Orchestrators = {o1}
    Replicas = {f1}
    TheSubmission = sub
    Submissions <- OneSubmission
    SubmissionOf <- AllOfOne
    Scores = {1}
    ReadCount = 2
PROPERTIES AcceptedRunsEnd SandboxesReclaimed TelemetryGetsVerdict
CHECK_DEADLOCK FALSE
