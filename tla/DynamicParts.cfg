SPECIFICATION PartsSpec
CONSTANTS
    Elem <- MCElem
    K = 2
    D = 2
    RankFunctions <- MCRankFunctions
    t1 = t1
    t2 = t2
    Callers = {t1, t2}
    Owners = {ownerA, ownerB}
    First = ownerA
    Names = {ownerA, ownerB, other}
    Params = {p1, p2}
    Cryptos = {c1, c2}
    CodecCrypto = c1
    Payloads = {x1}
    Corrupt = corrupt
    NoCaller = NoCaller
    MaxEpoch = 2
SYMMETRY MCSymmetry
INVARIANTS
    TypeOK
    NoForeignRank
    MissingBehindPrefix
    SignatureExact
    InsertOnlyCanonical
    SignatureDefined
    EpochCountsApplied
    PairEvaluable
    NoTornRead
    RejectionTruthful
PROPERTY
    ImplementsRegisters
