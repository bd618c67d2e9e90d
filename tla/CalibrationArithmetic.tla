------------------------ MODULE CalibrationArithmetic ------------------------
(***************************************************************************)
(* The integer arithmetic that sizes a parameter set: powers of two, the   *)
(* Paterson-Stockmeyer shape of a degree-k polynomial, and the bits of     *)
(* flooding noise that a transcript target requires.  Recursion is written *)
(* with recursive functions.                                               *)
(***************************************************************************)
EXTENDS Integers

\* Mutant: rounds down.
FloorLog2(v) ==
    LET Halvings[x \in Nat] == IF x <= 1 THEN 0 ELSE 1 + Halvings[x \div 2]
    IN  Halvings[v]

Pow2[n \in Nat] == IF n = 0 THEN 1 ELSE 2 * Pow2[n - 1]

\* The shifts to the right that make x 0.
Shifts[x \in Nat] == IF x = 0 THEN 0 ELSE 1 + Shifts[x \div 2]

\* The least e with 2^e >= v.
CeilLog2(v) == Shifts[v - 1]

IsPowerOfTwo(n) == n > 0 /\ Pow2[CeilLog2(n)] = n

NextPowerOf2(n) == IF n <= 1 THEN 1 ELSE Pow2[CeilLog2(n)]

------------------------------------------------------------------------------
(* The shape of EvalPolyBFV's evaluation of a polynomial of this degree.   *)

PsStep(degree) == CHOOSE s \in 1..(degree + 1) :
    s * s >= degree + 1 /\ \A r \in 1..(s - 1) : r * r < degree + 1

PsChunks(degree) == (degree + PsStep(degree)) \div PsStep(degree)

\* Depth of x^v in the power tree: even powers are squares, odd ones x * x^(v-1).
PowerDepth[v \in Nat] == IF v <= 1 THEN 0
                         ELSE 1 + PowerDepth[IF v % 2 = 1 THEN v - 1 ELSE v \div 2]
PsBabyDepth(degree) == PowerDepth[PsStep(degree)]

PsGiantDepth(degree, giant) ==
    IF giant = "Tree" THEN CeilLog2(PsChunks(degree)) ELSE PsChunks(degree) - 1

PatersonStockmeyerNaturalDepth(degree, giant) ==
    1 + PsBabyDepth(degree) + PsGiantDepth(degree, giant)

PatersonStockmeyerGiantMults(degree, giant) ==
    LET ell == PsChunks(degree)
    IN  IF ell <= 1 THEN 0
        ELSE IF giant = "Tree" THEN (ell - 1) + (CeilLog2(ell) - 1)
        ELSE ell - 1

------------------------------------------------------------------------------
(* Transcript target [stat, queries, margin] at ring dimension N.          *)

CoefficientStatBits(target, N) ==
    target.stat + CeilLog2(target.queries) + CeilLog2(N)

FloodBits(target, N, eval) == eval + CoefficientStatBits(target, N) + target.margin
==============================================================================
