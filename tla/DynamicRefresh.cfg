SPECIFICATION Spec
CONSTANTS
    Owners = {"owner-a", "owner-b"}
    Elem = {1, 2, 3}
    Sets <- MCSets
    K = 2
    D = 2
    M = 2
    Seeds = {0, 1}
    Rank <- MCRank
    MaxEpoch = 1
    MaxCalls = 5
INVARIANTS
    OneSeedMeets
    AnswerOfSets
CHECK_DEADLOCK FALSE
