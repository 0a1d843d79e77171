\* Two processes and four commands, an edit by a human and a crash.
SPECIFICATION Spec
CONSTANTS
    r1 = r1
    r2 = r2
    p1 = p1
    p2 = p2
    o1 = o1
    Reviewers <- MCTwoReviewers
    PatchFiles <- MCPatchFiles
    OtherFiles <- MCOtherFiles
    MaxCalls = 4
    MaxEdits = 1
    MaxCrashes = 1
INVARIANT TypeOK
INVARIANT AuditMatchesSource
INVARIANT SessionMatchesAudit
PROPERTY DecisionsAreFinal
PROPERTY ImplementsRecord
SYMMETRY MCSymmetry
CHECK_DEADLOCK FALSE
