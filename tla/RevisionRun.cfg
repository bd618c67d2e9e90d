SPECIFICATION Spec
CONSTANTS
    CellCount = 3
    LastPhase = 2
    PhaseOf <- MCPhaseOf
    Spawned <- MCSpawned
    None = None
    Torn = Torn
    MaxInvocations = 3
    MaxFaults = 1
CHECK_DEADLOCK FALSE
INVARIANTS
    VerifiesLikeFresh
    SealedStaysVerified
PROPERTY
    NothingDestroyed
