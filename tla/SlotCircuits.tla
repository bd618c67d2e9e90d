---------------------------- MODULE SlotCircuits ----------------------------
(***************************************************************************)
(* The computation a pair of signatures goes through: encoding, the        *)
(* slot-wise product, the rotate-and-sum of Piccard, SqrtPiccard's two     *)
(* digit passes, and ThresholdPiccard's mask and polynomial, ct-ct product *)
(* by product.  A ciphertext is its N plaintext slots modulo p and its     *)
(* multiplicative depth; noise is in PiccardParams.  OpenFHE's rotation is *)
(* one of two layouts: one cycle of N slots, or two rows of N/2 that       *)
(* exchange places from N/2 on.  Each pass of a loop is a step.            *)
(***************************************************************************)
EXTENDS CalibrationArithmetic, Sequences, FiniteSetsExt

CONSTANTS
    Instances,  \* [circuit, k, m, giant, tau, xs, ys]; xs and ys are sets of signatures
    Layouts,    \* subset of {"Cycle", "Rows"}
    MinRingDim  \* MinRingDimForSecurity

ASSUME InstanceAssumption == \A e \in Instances :
    /\ e.circuit \in {"OneHot", "Sqrt", "Threshold"}
    /\ e.k \in Nat \ {0} /\ e.m \in Nat \ {0, 1} /\ e.tau \in 0..(e.k + 1)
    /\ e.circuit = "Sqrt" => \E b \in 1..e.m : e.m = b * b /\ IsPowerOfTwo(b) /\ b > 1
    /\ e.xs \cup e.ys \subseteq [0..(e.k - 1) -> Nat]
ASSUME MinRingAssumption == MinRingDim \in Nat \ {0} /\ IsPowerOfTwo(MinRingDim)

VARIABLES
    inst,           \* the instance
    layout,
    ring_dim, plaintext_mod, threshold_poly,
    sig_x, sig_y,   \* the signatures
    stage,
    ct,             \* ct_x, product, digit_sums, anded or result
    ct_y,
    shift,          \* loop variable of the rotations
    answer          \* what Decrypt returned

parameters == <<inst, layout, ring_dim, plaintext_mod, threshold_poly>>
inputs == <<sig_x, sig_y, ct_y>>
circuitVars == <<parameters, inputs, stage, ct, shift, answer>>

------------------------------------------------------------------------------
(* Parameters *)

Base == Pow2[CeilLog2(inst.m) \div 2]
Features == IF inst.circuit = "Sqrt" THEN inst.k * 2 * Base ELSE inst.k * inst.m
RingDim == IF NextPowerOf2(Features) < MinRingDim THEN MinRingDim ELSE NextPowerOf2(Features)

IsPrime(n) == n > 1 /\ \A d \in 2..(n - 1) : d * d <= n => n % d # 0

\* p = 1 + modulus * t for the first t whose p is a prime above bound; the search
\* ends in an exception after this one.
LastTried == 999999
Suitable(t, bound, modulus) == 1 + modulus * t > bound /\ IsPrime(1 + modulus * t)
NoModulus(bound, modulus) == \A t \in 1..LastTried : ~Suitable(t, bound, modulus)
FindPlaintextModulus(bound, modulus) ==
    1 + modulus * (CHOOSE t \in 1..LastTried :
                      /\ Suitable(t, bound, modulus)
                      /\ \A u \in 1..(t - 1) : ~Suitable(u, bound, modulus))

MultDepth == CASE inst.circuit = "OneHot" -> 1
               [] inst.circuit = "Sqrt" -> 3
               [] inst.circuit = "Threshold" -> PatersonStockmeyerNaturalDepth(inst.k, inst.giant)

------------------------------------------------------------------------------
(* Ciphertexts *)

Slots == 0..(ring_dim - 1)
Larger(a, b) == IF a > b THEN a ELSE b

Multiply(a, b) == [slots |-> [i \in Slots |-> (a.slots[i] * b.slots[i]) % plaintext_mod],
                   depth |-> Larger(a.depth, b.depth) + 1]
Add(a, b) == [slots |-> [i \in Slots |-> (a.slots[i] + b.slots[i]) % plaintext_mod],
              depth |-> Larger(a.depth, b.depth)]
MultiplyPlain(a, plain) ==
    [a EXCEPT !.slots = [i \in Slots |-> (a.slots[i] * plain[i]) % plaintext_mod]]
MultiplyScalar(a, v) == MultiplyPlain(a, [i \in Slots |-> v])
AddScalar(a, v) == [a EXCEPT !.slots = [i \in Slots |-> (a.slots[i] + v) % plaintext_mod]]

\* External: EvalRotate on packed slots; slot i is filled from this one.
RotatedFrom(i, by) ==
    LET half == ring_dim \div 2
        row == i \div half
    IN  IF layout = "Cycle" THEN (i + by) % ring_dim
        ELSE (IF by >= half THEN 1 - row ELSE row) * half + ((i + by) % half)
Rotate(a, by) == [a EXCEPT !.slots = [i \in Slots |-> a.slots[RotatedFrom(i, by)]]]

------------------------------------------------------------------------------
(* Encoders: one slot per bucket, or one per low and one per high digit *)

OneHotSlots(sig) == {i * inst.m + (sig[i] % inst.m) : i \in 0..(inst.k - 1)}
SqrtSlots(sig) ==
    UNION {{i * 2 * Base + ((sig[i] % inst.m) % Base),
            i * 2 * Base + Base + ((sig[i] % inst.m) \div Base)} : i \in 0..(inst.k - 1)}

Encrypt(sig) ==
    LET ones == IF inst.circuit = "Sqrt" THEN SqrtSlots(sig) ELSE OneHotSlots(sig)
    IN  [slots |-> [i \in Slots |-> IF i \in ones THEN 1 ELSE 0], depth |-> 0]

------------------------------------------------------------------------------
(* The threshold polynomial *)

\* Mutant: the remainder keeps the sign of a, as C++'s % does.
TruncatedMod(a, q) == IF a < 0 THEN -((-a) % q) ELSE a % q
PosMod(a, q) == a % q

\* Extended Euclid; the coefficient of a is all that is kept.
ModInverse(a, q) ==
    LET Euclid[w \in Nat \X Nat \X Int \X Int] ==
            IF w[2] = 0 THEN w[3]
            ELSE Euclid[<<w[2], w[1] % w[2], w[4], w[3] - (w[1] \div w[2]) * w[4]>>]
    IN  PosMod(Euclid[<<PosMod(a, q), q, 1, 0>>], q)

\* basis * (x - j) / (i - j), the coefficients from x^0 on.
TimesFactor(basis, i, j) ==
    LET q == plaintext_mod
        inv == ModInverse(PosMod(i - j, q), q)
        neg == PosMod(-j, q)
        times_x == <<0>> \o basis
        times_1 == Append(basis, 0)
    IN  [d \in DOMAIN times_1 |->
            PosMod(PosMod(times_x[d] * inv, q) + PosMod(PosMod(times_1[d] * neg, q) * inv, q), q)]

\* The Lagrange basis polynomial of point i.
Basis(i) ==
    LET Upto[j \in -1..inst.k] == IF j = -1 THEN <<1>>
                                  ELSE IF j = i THEN Upto[j - 1]
                                  ELSE TimesFactor(Upto[j - 1], i, j)
    IN  Upto[inst.k]

\* Mutant: points from tau + 1 on.
AcceptingAbove == (inst.tau + 1)..inst.k
\* The points that count; however OpenMP splits them, the sum is the same.
Accepting == inst.tau..inst.k

BuildThresholdPoly ==
    LET bases == [i \in Accepting |-> Basis(i)]
    IN  [d \in 0..inst.k |-> PosMod(MapThenSumSet(LAMBDA i : bases[i][d + 1], Accepting), plaintext_mod)]

------------------------------------------------------------------------------
(* EvalPolyBFV for a polynomial of degree k >= 1 *)

BabyStep == PsStep(inst.k)
ChunkCount == PsChunks(inst.k)

\* x^1 .. x^s
Powers(a) ==
    LET Pow[j \in 1..BabyStep] ==
            IF j = 1 THEN a
            ELSE IF j % 2 = 0 THEN LET h == Pow[j \div 2] IN Multiply(h, h)
            ELSE Multiply(Pow[j - 1], a)
    IN  Pow

\* Zero coefficients take no term; a chunk without terms is zero times x.
Chunk(i, powers) ==
    LET Coeff(j) == IF i * BabyStep + j <= inst.k THEN threshold_poly[i * BabyStep + j] ELSE 0
        Sum[j \in 0..(BabyStep - 1)] ==
            IF j = 0 THEN MultiplyScalar(powers[1], 0)
            ELSE IF Coeff(j) = 0 THEN Sum[j - 1]
            ELSE Add(Sum[j - 1], MultiplyScalar(powers[j], Coeff(j)))
    IN  AddScalar(Sum[BabyStep - 1], Coeff(0))

Horner(chunk, xs) ==
    LET From[i \in 0..(ChunkCount - 1)] ==
            IF i = ChunkCount - 1 THEN chunk[i] ELSE Add(Multiply(From[i + 1], xs), chunk[i])
    IN  From[0]

\* The largest power of two below size, as its exponent.
Level(size) == CeilLog2(size) - 1

\* giant[j] = x^(s 2^j)
Tree(chunk, xs) ==
    LET Giant[j \in Nat] == IF j = 0 THEN xs ELSE LET g == Giant[j - 1] IN Multiply(g, g)
        Ranges == {r \in (0..ChunkCount) \X (0..ChunkCount) : r[1] < r[2]}
        Combine[r \in Ranges] ==
            LET level == Level(r[2] - r[1])
                mid == r[1] + Pow2[level]
            IN  IF r[2] - r[1] = 1 THEN chunk[r[1]]
                ELSE Add(Combine[<<r[1], mid>>],
                         Multiply(Combine[<<mid, r[2]>>], Giant[level]))
    IN  Combine[<<0, ChunkCount>>]

EvalPolyBFV(a) ==
    LET powers == Powers(a)
        chunk == [i \in 0..(ChunkCount - 1) |-> Chunk(i, powers)]
    IN  IF inst.giant = "Tree" THEN Tree(chunk, powers[BabyStep])
        ELSE Horner(chunk, powers[BabyStep])

------------------------------------------------------------------------------
(* Actions *)

NoInput == [slots |-> [i \in Slots |-> 0], depth |-> 0]

\* After KeyGen.
CircuitInit ==
    /\ inst \in Instances
    /\ layout \in Layouts
    /\ ring_dim = RingDim
    /\ ~NoModulus(inst.k, 2 * ring_dim)
    /\ plaintext_mod = FindPlaintextModulus(inst.k, 2 * ring_dim)
    /\ threshold_poly = IF inst.circuit = "Threshold" THEN BuildThresholdPoly ELSE <<>>
    /\ sig_x = "none" /\ sig_y = "none"
    /\ stage = "ready"
    /\ ct = NoInput /\ ct_y = NoInput
    /\ shift = 1
    /\ answer = "none"

EncryptInputs ==
    /\ stage = "ready"
    /\ sig_x' \in inst.xs /\ sig_y' \in inst.ys
    /\ ct' = Encrypt(sig_x') /\ ct_y' = Encrypt(sig_y')
    /\ stage' = "encrypted"
    /\ UNCHANGED <<parameters, shift, answer>>

Fixed == UNCHANGED <<parameters, inputs>>

MultiplyInputs ==
    /\ stage = "encrypted"
    /\ ct' = Multiply(ct, ct_y)
    /\ stage' = IF inst.circuit = "Sqrt" THEN "digits" ELSE "slots"
    /\ UNCHANGED <<shift, answer>> /\ Fixed

RotateAndAdd ==
    /\ ct' = Add(ct, Rotate(ct, shift))
    /\ shift' = 2 * shift
    /\ UNCHANGED <<stage, answer>> /\ Fixed

\* SqrtPiccard: each digit's block is summed into its first slot ...
SumDigits ==
    /\ stage = "digits" /\ shift < Base
    /\ RotateAndAdd

\* Mutant: the signatures are summed from the digits' distance on.
AndDigitsSummingFromBase ==
    /\ stage = "digits" /\ shift >= Base
    /\ ct' = Multiply(ct, Rotate(ct, Base))
    /\ shift' = Base
    /\ stage' = "slots"
    /\ UNCHANGED answer /\ Fixed

\* ... and the low digit's is multiplied with the high digit's.
AndDigits ==
    /\ stage = "digits" /\ shift >= Base
    /\ ct' = Multiply(ct, Rotate(ct, Base))
    /\ shift' = 2 * Base
    /\ stage' = "slots"
    /\ UNCHANGED answer /\ Fixed

SumSlots ==
    /\ stage = "slots" /\ shift < ring_dim
    /\ RotateAndAdd

Summed == stage = "slots" /\ shift >= ring_dim

\* Mutant: every slot is kept.
MaskNothing ==
    /\ Summed /\ inst.circuit = "Threshold"
    /\ stage' = "masked"
    /\ UNCHANGED <<ct, shift, answer>> /\ Fixed

Mask ==
    /\ Summed /\ inst.circuit = "Threshold"
    /\ ct' = MultiplyPlain(ct, [i \in Slots |-> IF i = 0 THEN 1 ELSE 0])
    /\ stage' = "masked"
    /\ UNCHANGED <<shift, answer>> /\ Fixed

EvaluatePolynomial ==
    /\ stage = "masked"
    /\ ct' = EvalPolyBFV(ct)
    /\ stage' = "evaluated"
    /\ UNCHANGED <<shift, answer>> /\ Fixed

\* External: packed values are decrypted into -(p-1)/2 .. (p-1)/2.
Decrypted == IF ct.slots[0] > plaintext_mod \div 2 THEN ct.slots[0] - plaintext_mod
             ELSE ct.slots[0]

DecryptCount ==
    /\ Summed /\ inst.circuit # "Threshold"
    /\ answer' = Decrypted
    /\ stage' = "done"
    /\ UNCHANGED <<ct, shift>> /\ Fixed

DecryptDecision ==
    /\ stage = "evaluated"
    /\ answer' = (Decrypted >= 1)
    /\ stage' = "done"
    /\ UNCHANGED <<ct, shift>> /\ Fixed

CircuitNext ==
    \/ EncryptInputs
    \/ MultiplyInputs
    \/ SumDigits
    \/ AndDigits
    \/ SumSlots
    \/ Mask
    \/ EvaluatePolynomial
    \/ DecryptCount
    \/ DecryptDecision

CircuitSpec == CircuitInit /\ [][CircuitNext]_circuitVars

------------------------------------------------------------------------------
(* Properties *)

Matches == Cardinality({i \in 0..(inst.k - 1) : sig_x[i] % inst.m = sig_y[i] % inst.m})

\* Slot 0 ends as the number of coordinates whose buckets agree, for the one-hot
\* and the two-digit encoding, in both layouts, and p is large enough to keep it.
MatchesExact ==
    /\ Summed => ct.slots[0] = Matches
    /\ stage = "done" /\ inst.circuit # "Threshold" => answer = Matches

\* The decision is matches >= tau, from tau = 0 to tau = k + 1, whichever way the
\* chunks are combined.
DecisionExact ==
    stage = "done" /\ inst.circuit = "Threshold" => answer = (Matches >= inst.tau)

\* Every slot but the first ends as u_tau(0): no count, partial count or neighbour
\* of one is left in the result of a threshold evaluation.
OtherSlotsConstant ==
    stage = "evaluated" => \A i \in Slots \ {0} : ct.slots[i] = (IF inst.tau = 0 THEN 1 ELSE 0)

\* params.h, "natural multiplicative depth of the whole threshold circuit", and the
\* bound stated at EvalPolyBFV's tree: no evaluation is deeper than the formula the
\* parameters are sized by.  It is, at the first degrees where the last chunk ends
\* with a power of x that is deeper than x^s.
DepthWithinFormula == ct.depth <= MultDepth

\* x^s is not always the deepest of the powers x^1 .. x^s: x^7 takes one product
\* more than x^8.
Excess == IF inst.circuit # "Threshold" THEN 0
          ELSE Max({PowerDepth[j] : j \in 1..BabyStep}) - PowerDepth[BabyStep]

\* The depth the parameters provide is the depth used, or more for the sqrt
\* circuit and for a polynomial of degree 1; where a power below x^s is deeper than
\* x^s it falls short by no more than that.
DepthProvisioned ==
    /\ ct.depth <= MultDepth + Excess
    /\ (stage = "evaluated" /\ inst.k > 1) \/ (Summed /\ inst.circuit = "OneHot")
         => ct.depth >= MultDepth

==============================================================================
