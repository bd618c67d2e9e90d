SPECIFICATION BenchmarksSpec
CONSTANTS
    CellCount = 2
    Provenances = {"first", "binary", "threads", "matrix"}
    Command <- MCCommand
    Matrix <- MCMatrix
    None = None
    Corrupt = Corrupt
    Torn = Torn
    MaxInvocations = 4
    MaxFaults = 2
    Foreign <- MCForeign
    Prepared <- MCPrepared
    Absent = Absent
    SafePaths <- MCSafePaths
    IntBits = 4
CHECK_DEADLOCK FALSE
INVARIANTS
    AttributedUnlessLost
    ResumesOnceArchived
    OneGeneration
    PairsMeasurable
PROPERTIES
    MixedTold
    RecordedWorkKept
