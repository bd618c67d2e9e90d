SPECIFICATION Spec
CONSTANTS
    Sets <- MCSets
    K = 2
    Seeds = {0, 1}
    Rank <- MCRank
    P = 23
    Q = 11
    Digest <- MCDigest
    Retries <- MCRetries
    ExpDraws <- MCExpDraws
    FixedExps <- MCFixedExps
    IndexDraws = {0, 1}
    MaxThreads = 3
INVARIANTS
    ContextExclusive
    OverflowSurfaces
PROPERTIES
    AnswersExactly
    QueriesEnd
CHECK_DEADLOCK FALSE
