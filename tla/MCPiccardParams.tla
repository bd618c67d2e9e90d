--------------------------- MODULE MCPiccardParams ---------------------------
(* A small calibration table around ring dimension 64: a tree circuit whose *)
(* depth collides with a Horner row, keys whose cheapest row is infeasible, *)
(* targets that fit, do not fit, are unsupported, or overflow MaxBits.      *)
EXTENDS PiccardParams

Shape(k, m, s) == [k |-> k, m |-> m, security |-> s]
MCShapes == {Shape(8, 8, "STD128"), Shape(12, 4, "STD128"), Shape(12, 4, "STD192"),
             Shape(8, 1, "STD128")}
MCMinRing == [s \in {"STD128", "STD192"} |-> 64]

Target(s, q, g) == [stat |-> s, queries |-> q, margin |-> g]
Primary == Target(4, 6, 1)
MCTargets == {Primary, Target(8, 5, 1), Target(5, 6, 1), Target(4, 6, 90)}

Row(c, s, d, n, depth, limb, eval, cap) ==
    [circuit |-> c, security |-> s, requested |-> 64, natural |-> d,
     ringNatural |-> n, calibrated |-> n, depth |-> depth, limb |-> limb,
     eval |-> eval, capacity |-> cap]
MCTable == <<Row("OneHot", "STD128", 1, 64, 1, 30, 5, 24),
             Row("OneHot", "STD128", 1, 128, 2, 20, 6, 30),
             Row("OneHot", "STD192", 1, 64, 2, 20, 9, 40),
             Row("Sqrt", "STD128", 3, 64, 3, 30, 8, 30),
             Row("Threshold", "STD128", 5, 64, 5, 30, 10, 25),
             Row("Threshold", "STD128", 6, 64, 6, 30, 12, 20),
             Row("Threshold", "STD128", 6, 128, 7, 30, 11, 40)>>
MCCandidates == {[Row("OneHot", "STD128", 1, 64, 1, 30, 7, 28) EXCEPT !.calibrated = 128],
                 Row("OneHot", "STD192", 1, 64, 1, 30, 3, 28)}
Tree6 == [depth |-> 6, ringNatural |-> 128, limb |-> 25, eval |-> 14, capacity |-> 33]
Shallow == [Tree6 EXCEPT !.depth = 4]
MCOverrides == {Tree6, Shallow}

Mode(b, g, o) == [threshold |-> b, giant |-> g, override |-> o]
MCModes == {Mode(FALSE, "Horner", None), Mode(TRUE, "Horner", None), Mode(TRUE, "Tree", None),
            Mode(TRUE, "Horner", Tree6), Mode(TRUE, "Tree", Tree6)}

MCProfiles == [q \in {"primary40"} |-> [target |-> Primary, growth |-> 2]]
Key == [profile |-> "primary40", circuit |-> "OneHot", base |-> 0,
        security |-> "STD128", requested |-> 64, natural |-> 1]
Contract(n, cal, logq, eval, cap) ==
    [key |-> Key, ringNatural |-> n, calibrated |-> cal, depth |-> 1, limb |-> 30,
     logq |-> logq, bytes |-> 10, complete |-> TRUE, capacity |-> cap, eval |-> eval,
     target |-> Primary, coefficient |-> CoefficientStatBits(Primary, cal),
     flood |-> FloodBits(Primary, cal, eval)]
ContractRows == {Contract(64, 64, 40, 5, 30), Contract(64, 64, 40, 6, 30),
                 Contract(64, 128, 35, 5, 30), Contract(64, 64, 30, 5, 20)}
MCContracts == {<<a, b>> : a, b \in ContractRows} \cup
               {<<a, b, c>> : a, b, c \in ContractRows}

MCPokes == {[ring |-> 128, eval |-> 0]}
==============================================================================
