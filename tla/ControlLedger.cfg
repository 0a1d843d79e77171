\* Two callers, two keys, three commands and a crash.
SPECIFICATION Spec
CONSTANTS
    a = a
    b = b
    k1 = k1
    k2 = k2
    c1 = c1
    c2 = c2
    Callers <- MCTwoCallers
    Keys <- MCTwoKeys
    NoKey = NoKey
    Candidates <- MCCandidates
    NoCandidate = NoCandidate
    CandidateOf <- MCDistinct
    MaxCalls = 3
    MaxCrashes = 1
INVARIANT TypeOK
INVARIANT ActiveCandidateIsWhole
PROPERTY ImplementsLedger
SYMMETRY MCSymmetry
CHECK_DEADLOCK FALSE
