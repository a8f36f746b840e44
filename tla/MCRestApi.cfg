SPECIFICATION Spec
CONSTANTS
    u1 = u1
    u2 = u2
    r1 = r1
    r2 = r2
    r3 = r3
    Submissions = {u1, u2}
    Runs = {r1, r2, r3}
    SubmissionOf <- MCSubmissionOf
    Cap = 1
INVARIANTS BuildSeesWholeBundle ListedRunsExist IndexKeepsNewest ViewsConsistent
CHECK_DEADLOCK FALSE
