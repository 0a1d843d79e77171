\* Two files, one validation, outputs shorter than a marker and longer; four model calls.
SPECIFICATION Spec
CONSTANTS
    p1 = p1
    p2 = p2
    s1 = s1
    Paths <- MCPaths
    Scopes <- MCScopes
    RecentRounds = 1
    CompactThreshold = 3
    MaxChars = 13
    MarkerChars = 2
    Configs <- MCConfigs
    Prices <- MCPrices
    Attempts = 2
    Lengths <- MCLengths
INVARIANTS TypeOK EvidenceIsVisible StaleIsNeverShown OverrunIsNecessary
    SpendIsBounded RepeatedMeansInARow RefusedForIdentifiers
PROPERTY RunEnds
CHECK_DEADLOCK FALSE
