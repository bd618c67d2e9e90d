SPECIFICATION Spec
CONSTANTS
    CellCount = 2
    Provenances = {"first", "binary", "threads", "matrix"}
    Command <- MCCommand
    Matrix <- MCMatrix
    None = None
    Corrupt = Corrupt
    Torn = Torn
    MaxInvocations = 4
    MaxFaults = 1
CHECK_DEADLOCK FALSE
PROPERTY MixedToldOfReceipts
