\* Two approvals at once.
SPECIFICATION Spec
CONSTANTS
    r1 = r1
    r2 = r2
    p1 = p1
    p2 = p2
    o1 = o1
    Reviewers <- MCTwoReviewers
    PatchFiles <- MCOnePatchFile
    OtherFiles <- MCNoOther
    MaxCalls = 2
    MaxEdits = 0
    MaxCrashes = 0
INVARIANT AuditMatchesSourceAlways
SYMMETRY MCSymmetry
CHECK_DEADLOCK FALSE
