SPECIFICATION SjSpec
CONSTANTS
    Callers = {c1, c2}
    Inputs <- MCInputs
    Universes <- MCUniverses
    ForcedMasks <- MCForcedMasks
    MaskDraws <- MCMaskDraws
    Nonces <- MCNonces
    Primes <- MCPrimes
    KeyBits = 6
    PoolSizes = {4}
    MaxCalls = 5
INVARIANTS
    RandomizerOnce
PROPERTIES
    SjAnswersExactly
    SjQueriesEnd
CHECK_DEADLOCK FALSE
