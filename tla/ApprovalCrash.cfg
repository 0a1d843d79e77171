\* One approval, killed.
SPECIFICATION Spec
CONSTANTS
    r1 = r1
    r2 = r2
    p1 = p1
    p2 = p2
    o1 = o1
    Reviewers <- MCOneReviewer
    PatchFiles <- MCOnePatchFile
    OtherFiles <- MCNoOther
    MaxCalls = 1
    MaxEdits = 0
    MaxCrashes = 1
INVARIANT AppliedCanBeRolledBack
SYMMETRY MCSymmetry
CHECK_DEADLOCK FALSE
