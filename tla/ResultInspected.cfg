\* An inspection while a result is published.
SPECIFICATION Spec
CONSTANTS
    p1 = p1
    p2 = p2
    p3 = p3
    inspect = inspect
    Publishers <- MCTwoPublishers
    Readers <- MCReaders
    NoResult = NoResult
    MaxReads = 1
PROPERTY NoBrokenEvidence
SYMMETRY MCSymmetry
CHECK_DEADLOCK FALSE
