SPECIFICATION Spec
CONSTANTS
    Kinds = {"Piccard", "Threshold", "Engine"}
    Configs <- MCConfigs
    Seeds = {s1, s2}
    NoSeed = NoSeed
    MaxKeys = 2
CHECK_DEADLOCK FALSE
INVARIANTS
    UsableVerified
    RotationsCover
PROPERTY
    KeysStay
