SPECIFICATION Spec
CONSTANTS
    Runs = {r1}
    NoRun = NoRun
    TotalShards = 2
    MaxFlush = 1
    Faults = {"orchestrator", "fleet", "ingester", "xadd"}
    MaxFaults = 1
    Prompt = FALSE
    Orchestrators = {o1}
    Replicas = {f1, f2}
    TheSubmission = sub
    Submissions <- OneSubmission
    SubmissionOf <- AllOfOne
    Scores = {1}
    ReadCount = 2
SYMMETRY Symmetry
INVARIANTS TypeOK OneOwnerPerVerdict DoneHasScore VerdictUsesConformance CountedVerdictIsWhole
PROPERTY NeverGoesBack
CHECK_DEADLOCK FALSE
