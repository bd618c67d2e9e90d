SPECIFICATION Spec
CONSTANTS
    None = None
    Shapes <- MCShapes
    MinRing <- MCMinRing
    Targets <- MCTargets
    Supported = {4, 8}
    MaxQueries = 64
    MaxBits = 100
    LegacyBits = 6
    Table <- MCTable
    Modes <- MCModes
    Overrides <- MCOverrides
    Candidates <- MCCandidates
    Profiles <- MCProfiles
    Contracts <- MCContracts
    Pokes <- MCPokes
INVARIANTS
    FloodingCovered
    SmudgingDominates
    AdoptionExact
PROPERTY
    LookupComplete
