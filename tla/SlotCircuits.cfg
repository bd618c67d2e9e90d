SPECIFICATION CircuitSpec
CONSTANTS
    Instances <- MCInstances
    Layouts = {"Cycle", "Rows"}
    MinRingDim = 4
CHECK_DEADLOCK FALSE
INVARIANTS
    MatchesExact
    DecisionExact
    OtherSlotsConstant
    DepthProvisioned
