\* Three publishers and an inspection.
SPECIFICATION Spec
CONSTANTS
    p1 = p1
    p2 = p2
    p3 = p3
    inspect = inspect
    Publishers <- MCPublishers
    Readers <- MCReaders
    NoResult = NoResult
    MaxReads = 2
INVARIANTS
    TypeOK
    UnmarkedIsIntact
PROPERTY ImplementsPublication
SYMMETRY MCSymmetry
CHECK_DEADLOCK FALSE
