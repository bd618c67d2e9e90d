SPECIFICATION Spec
CONSTANTS
    Elem <- MCElem
    K = 2
    D = 2
    RankFunctions <- MCRankFunctions
INVARIANT
    SignatureExactWhileUsable
