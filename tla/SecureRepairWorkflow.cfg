\* Two files that may be repaired and a test, three edits by persons at any time.
SPECIFICATION Spec
CONSTANTS
    a1 = a1
    a2 = a2
    t1 = t1
    Allowed <- MCAllowed
    Others <- MCOthers
    MaxEdits = 3
INVARIANTS TypeOK RestsDecidable LeftoversAreReported
    PackageIsWhatWasValidated PlacedIsWhole
PROPERTY ImplementsReview
CHECK_DEADLOCK FALSE
