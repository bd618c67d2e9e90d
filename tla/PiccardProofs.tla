---------------------------- MODULE PiccardProofs ----------------------------
(***************************************************************************)
(* The parameters and the circuits they are for.                           *)
(*                                                                         *)
(* Parameters: FloodNoiseBits never answers for a configuration other than *)
(* the one its row was measured for, for every table, every set of shapes, *)
(* targets and overrides, and every sequence of calls and field writes.  A *)
(* selection made by Validate is covered at the moment it is made          *)
(* (RowCovers), the snapshot is a copy of the object at that moment,       *)
(* adoption changes nothing coverage depends on (AdoptionCovers), and      *)
(* FloodNoiseBits compares the object with the snapshot.                   *)
(*                                                                         *)
(* Circuits: slot 0 ends as the number of matching coordinates, for every  *)
(* instance, ring and layout.  After the rotations by 1, 2, .. a slot is   *)
(* the number of ones in the window of slots it has been summed from       *)
(* (Counts), which each rotation doubles (WindowDoubles).                  *)
(*                                                                         *)
(* Decisions: the polynomial is an indicator of tau .. k modulo p, and its *)
(* evaluation is exact, for every k, tau and way to combine the chunks.    *)
(* Euclid's coefficient is an inverse modulo a prime (InverseExact), so a  *)
(* basis polynomial is 1 at its point and 0 at the others                  *)
(* (BasisInterpolates), and their sum decides (PolynomialDecides).  Every  *)
(* product and sum of the evaluation holds, slot by slot, the value that   *)
(* the run of coefficients it stands for has there (Holds): powers, chunks *)
(* and both combinations (PowersHold, ChunkHolds, HornerHolds, TreeHolds). *)
(***************************************************************************)
EXTENDS PiccardParams, SlotCircuits, ArithmeticLemmas, FiniteSetTheorems,
        SequenceTheorems, TLAPS

------------------------------------------------------------------------------
(* Powers of two and CeilLog2 *)

\* Pow2 is the function its recursion describes.
LEMMA Pow2Unfolds ==
    /\ Pow2 \in [Nat -> Nat]
    /\ Pow2[0] = 1
    /\ \A n \in Nat \ {0} : Pow2[n] = 2 * Pow2[n - 1]
<1> DEFINE prev == [n \in Nat |-> n - 1]
           next == [n \in Nat |-> [t \in Int |-> 2 * t]]
           Body(f) == [n \in Nat |-> IF n = 0 THEN 1 ELSE 2 * f[n - 1]]
<1>1. Recursion(Nat, 1, prev, next)
  BY DEF Recursion
<1>2. PICK f \in [Nat -> Nat] : f = [n \in Nat |-> IF n = 0 THEN 1 ELSE next[n][f[prev[n]]]]
  <2> HIDE DEF prev, next
  <2> QED BY <1>1, RecursiveFunctionExists
<1>3. f = Body(f)
  <2>1. ASSUME NEW n \in Nat, n # 0 PROVE next[n][f[prev[n]]] = 2 * f[n - 1]
    BY <2>1
  <2> QED BY <1>2, <2>1
<1>4. Pow2 = Body(Pow2)
  <2>1. Pow2 = CHOOSE g : g = Body(g)
    BY DEF Pow2
  <2> HIDE DEF Body
  <2> QED BY <1>3, <2>1
<1>5. \A n \in Nat : Pow2[n] = IF n = 0 THEN 1 ELSE 2 * Pow2[n - 1]
  BY <1>4
<1>6. DOMAIN Pow2 = Nat /\ Pow2 = [n \in Nat |-> Pow2[n]]
  BY <1>4
<1> DEFINE S == {n \in Nat : Pow2[n] \notin Nat}
<1>7. S = {}
  <2>1. SUFFICES ASSUME S # {} PROVE FALSE
    OBVIOUS
  <2>2. PICK i \in S : \A j \in S : i <= j
    <3>1. S \subseteq Nat
      OBVIOUS
    <3> QED BY <2>1, <3>1, LeastNatural
  <2>3. i \in Nat /\ i # 0
    BY <1>5
  <2>4. i - 1 \in Nat /\ ~(i <= i - 1)
    BY <2>3
  <2>5. Pow2[i - 1] \in Nat
    BY <2>2, <2>4
  <2> QED BY <1>5, <2>3, <2>5
<1> QED BY <1>5, <1>6, <1>7

\* Shifts is the function its recursion describes.
LEMMA ShiftsUnfolds ==
    /\ Shifts \in [Nat -> Nat]
    /\ Shifts[0] = 0
    /\ \A n \in Nat \ {0} : Shifts[n] = 1 + Shifts[n \div 2]
<1> DEFINE prev == [n \in Nat |-> n \div 2]
           next == [n \in Nat |-> [t \in Int |-> 1 + t]]
           Body(f) == [n \in Nat |-> IF n = 0 THEN 0 ELSE 1 + f[n \div 2]]
<1>0. \A n \in Nat \ {0} : n \div 2 \in 0..(n - 1)
  OBVIOUS
<1>1. Recursion(Nat, 0, prev, next)
  BY <1>0 DEF Recursion
<1>2. PICK f \in [Nat -> Nat] : f = [n \in Nat |-> IF n = 0 THEN 0 ELSE next[n][f[prev[n]]]]
  <2> HIDE DEF prev, next
  <2> QED BY <1>1, RecursiveFunctionExists
<1>3. f = Body(f)
  <2>1. ASSUME NEW n \in Nat, n # 0 PROVE next[n][f[prev[n]]] = 1 + f[n \div 2]
    BY <1>0, <2>1
  <2> QED BY <1>2, <2>1
<1>4. Shifts = Body(Shifts)
  <2>1. Shifts = CHOOSE g : g = Body(g)
    BY DEF Shifts
  <2> HIDE DEF Body
  <2> QED BY <1>3, <2>1
<1>5. \A n \in Nat : Shifts[n] = IF n = 0 THEN 0 ELSE 1 + Shifts[n \div 2]
  BY <1>4
<1>6. DOMAIN Shifts = Nat /\ Shifts = [n \in Nat |-> Shifts[n]]
  BY <1>4
<1> DEFINE S == {n \in Nat : Shifts[n] \notin Nat}
<1>7. S = {}
  <2>1. SUFFICES ASSUME S # {} PROVE FALSE
    OBVIOUS
  <2>2. PICK i \in S : \A j \in S : i <= j
    <3>1. S \subseteq Nat
      OBVIOUS
    <3> QED BY <2>1, <3>1, LeastNatural
  <2>3. i \in Nat /\ i # 0
    BY <1>5
  <2>4. i \div 2 \in Nat /\ ~(i <= i \div 2)
    BY <2>3
  <2>5. Shifts[i \div 2] \in Nat
    BY <2>2, <2>4
  <2> QED BY <1>5, <2>3, <2>5
<1> QED BY <1>5, <1>6, <1>7

\* 2^(a + b) = 2^a 2^b
LEMMA Pow2Sum == \A a, b \in Nat : Pow2[a + b] = Pow2[a] * Pow2[b]
<1> SUFFICES ASSUME NEW a \in Nat PROVE \A b \in Nat : Pow2[a + b] = Pow2[a] * Pow2[b]
  OBVIOUS
<1> DEFINE S == {b \in Nat : Pow2[a + b] # Pow2[a] * Pow2[b]}
<1>1. SUFFICES ASSUME S # {} PROVE FALSE
  OBVIOUS
<1>2. PICK i \in S : \A j \in S : i <= j
  <2>1. S \subseteq Nat
    OBVIOUS
  <2> QED BY <1>1, <2>1, LeastNatural
<1>3. i \in Nat /\ Pow2[a + i] # Pow2[a] * Pow2[i]
  OBVIOUS
<1>4. CASE i = 0
  BY <1>3, <1>4, Pow2Unfolds
<1>5. CASE i # 0
  <2>1. i - 1 \in Nat /\ ~(i <= i - 1) /\ a + i \in Nat \ {0} /\ (a + i) - 1 = a + (i - 1)
    BY <1>3, <1>5
  <2>2. Pow2[a + (i - 1)] = Pow2[a] * Pow2[i - 1]
    BY <1>2, <2>1
  <2>3. Pow2[a + i] = 2 * Pow2[a + (i - 1)] /\ Pow2[i] = 2 * Pow2[i - 1]
    BY <1>3, <1>5, <2>1, Pow2Unfolds
  <2>4. Pow2[a] \in Int /\ Pow2[i - 1] \in Int
    BY <2>1, Pow2Unfolds
  <2>5. \A x, y \in Int : 2 * (x * y) = x * (2 * y)
    OBVIOUS
  <2> QED BY <1>3, <2>2, <2>3, <2>4, <2>5
<1> QED BY <1>4, <1>5

\* A number has at most as many bits as it takes shifts to make it 0.
LEMMA ShiftsBound == \A x \in Nat : x < Pow2[Shifts[x]]
<1> DEFINE S == {x \in Nat : ~(x < Pow2[Shifts[x]])}
<1>1. SUFFICES ASSUME S # {} PROVE FALSE
  OBVIOUS
<1>2. PICK i \in S : \A j \in S : i <= j
  <2>1. S \subseteq Nat
    OBVIOUS
  <2> QED BY <1>1, <2>1, LeastNatural
<1>3. i \in Nat /\ ~(i < Pow2[Shifts[i]])
  OBVIOUS
<1>4. CASE i = 0
  BY <1>3, <1>4, Pow2Unfolds, ShiftsUnfolds
<1>5. CASE i # 0
  <2> DEFINE h == i \div 2
  <2>1. h \in Nat /\ ~(i <= h) /\ i <= 2 * h + 1
    BY <1>3, <1>5
  <2>2. h < Pow2[Shifts[h]]
    BY <1>2, <2>1
  <2>3. Shifts[i] = 1 + Shifts[h] /\ Shifts[h] \in Nat
    BY <1>3, <1>5, <2>1, ShiftsUnfolds
  <2> HIDE DEF h
  <2>4. Shifts[i] \in Nat \ {0} /\ Shifts[i] - 1 = Shifts[h]
    BY <2>3
  <2>5. Pow2[Shifts[i]] = 2 * Pow2[Shifts[h]] /\ Pow2[Shifts[h]] \in Nat
    BY <2>3, <2>4, Pow2Unfolds
  <2> QED BY <1>3, <2>1, <2>2, <2>5
<1> QED BY <1>4, <1>5

\* CeilLog2 rounds up: v <= 2^CeilLog2(v).
LEMMA CeilLog2Bound ==
    ASSUME NEW v \in Nat \ {0}
    PROVE  CeilLog2(v) \in Nat /\ v <= Pow2[CeilLog2(v)] /\ Pow2[CeilLog2(v)] \in Nat
<1>1. v - 1 \in Nat
  OBVIOUS
<1>2. Shifts[v - 1] \in Nat /\ v - 1 < Pow2[Shifts[v - 1]]
  BY <1>1, ShiftsUnfolds, ShiftsBound
<1>3. Pow2[Shifts[v - 1]] \in Nat
  BY <1>2, Pow2Unfolds
<1> QED BY <1>1, <1>2, <1>3 DEF CeilLog2

\* The product of two numbers fits in the bits that cover each.
LEMMA ProductBound ==
    ASSUME NEW v \in Nat \ {0}, NEW w \in Nat \ {0}
    PROVE  v * w <= Pow2[CeilLog2(v) + CeilLog2(w)]
<1>1. /\ CeilLog2(v) \in Nat /\ v <= Pow2[CeilLog2(v)] /\ Pow2[CeilLog2(v)] \in Nat
      /\ CeilLog2(w) \in Nat /\ w <= Pow2[CeilLog2(w)] /\ Pow2[CeilLog2(w)] \in Nat
  BY CeilLog2Bound
<1>2. \A a, b, c, d \in Nat : a <= c /\ b <= d => a * b <= c * d
  <2>1. ASSUME NEW a \in Nat, NEW b \in Nat, NEW c \in Nat, NEW d \in Nat, a <= c, b <= d
        PROVE  a * b <= c * d
    <3>1. a * b <= a * d
      BY <2>1
    <3>2. a * d <= c * d
      BY <2>1
    <3>3. a * b \in Nat /\ a * d \in Nat /\ c * d \in Nat
      OBVIOUS
    <3> QED BY <3>1, <3>2, <3>3
  <2> QED BY <2>1
<1>3. v * w <= Pow2[CeilLog2(v)] * Pow2[CeilLog2(w)]
  BY <1>1, <1>2
<1>4. Pow2[CeilLog2(v) + CeilLog2(w)] = Pow2[CeilLog2(v)] * Pow2[CeilLog2(w)]
  BY <1>1, Pow2Sum
<1> QED BY <1>3, <1>4

LEMMA Pow2Positive == \A n \in Nat : Pow2[n] # 0
<1> DEFINE S == {n \in Nat : Pow2[n] = 0}
<1>1. SUFFICES ASSUME S # {} PROVE FALSE
  OBVIOUS
<1>2. PICK i \in S : \A j \in S : i <= j
  <2>1. S \subseteq Nat
    OBVIOUS
  <2> QED BY <1>1, <2>1, LeastNatural
<1>3. i \in Nat /\ Pow2[i] = 0
  OBVIOUS
<1>4. i # 0
  BY <1>3, Pow2Unfolds
<1>5. i - 1 \in Nat /\ ~(i <= i - 1)
  BY <1>3, <1>4
<1>6. Pow2[i - 1] # 0 /\ Pow2[i - 1] \in Nat
  BY <1>2, <1>5, Pow2Unfolds
<1> QED BY <1>3, <1>4, <1>6, Pow2Unfolds

------------------------------------------------------------------------------
(* Parameters *)

Fields == {"shape", "threshold", "giant", "override", "armed", "target", "ring",
           "natural", "sqrtBase", "depth", "limb", "eval", "ringNatural", "requested",
           "calibrated", "coefficient", "flood", "capacity", "circuit", "contract",
           "adopted"}

\* d is a record with exactly the fields of the object.
Shaped(d) == /\ d = [f \in Fields |-> d[f]]
             /\ d.threshold \in BOOLEAN
             /\ d.giant \in {"Horner", "Tree"}

IInv ==
    /\ Shaped(p)
    /\ sized <=> valid
    /\ sized /\ via = "Validate" => CoveredBy(snapshot)

------------------------------------------------------------------------------
\* ClearFloodingSelection keeps the shape of the object, and its inputs.
LEMMA Cleared ==
    ASSUME NEW d, Shaped(d)
    PROVE  LET b == ClearFloodingSelection(d)
           IN  /\ Shaped(b)
               /\ b.shape = d.shape /\ b.threshold = d.threshold /\ b.giant = d.giant
               /\ b.override = d.override /\ b.armed = d.armed /\ b.target = d.target
               /\ b.calibrated = 0 /\ b.eval = 0
BY ZenonT(40) DEF Shaped, Fields, ClearFloodingSelection

\* DeriveWithoutFlooding sets ring and depth from the inputs and keeps the inputs.
LEMMA PlainDerived ==
    ASSUME NEW d, Shaped(d)
    PROVE  LET e == DeriveWithoutFlooding(d)
           IN  /\ Shaped(e)
               /\ e.shape = d.shape /\ e.threshold = d.threshold /\ e.giant = d.giant
               /\ e.override = d.override /\ e.armed = d.armed /\ e.target = d.target
               /\ e.natural = PlainDepth(d)
               /\ e.ring = RingFor(d.shape.k * d.shape.m, d.shape.security)
<1> DEFINE b == ClearFloodingSelection(d)
           depth == PlainDepth(d)
           ring == RingFor(d.shape.k * d.shape.m, d.shape.security)
           e == [b EXCEPT !.ring = ring, !.depth = depth, !.natural = depth]
<1>1. /\ Shaped(b)
      /\ b.shape = d.shape /\ b.threshold = d.threshold /\ b.giant = d.giant
      /\ b.override = d.override /\ b.armed = d.armed /\ b.target = d.target
  BY Cleared
<1>2. e = DeriveWithoutFlooding(d)
  BY DEF DeriveWithoutFlooding
<1> HIDE DEF b, depth, ring
<1>3. /\ Shaped(e)
      /\ e.shape = b.shape /\ e.threshold = b.threshold /\ e.giant = b.giant
      /\ e.override = b.override /\ e.armed = b.armed /\ e.target = b.target
      /\ e.natural = depth /\ e.ring = ring
  BY <1>1 DEF Shaped, Fields
<1> QED BY <1>1, <1>2, <1>3 DEF ring, depth

\* DeriveSqrtWithoutFlooding likewise, for the sqrt encoding.
LEMMA SqrtDerived ==
    ASSUME NEW d, Shaped(d)
    PROVE  LET e == DeriveSqrtWithoutFlooding(d)
           IN  /\ Shaped(e)
               /\ e.shape = d.shape /\ e.threshold = d.threshold /\ e.giant = d.giant
               /\ e.override = d.override /\ e.armed = d.armed /\ e.target = d.target
               /\ e.natural = 3 /\ e.sqrtBase = SqrtBase(d.shape.m)
               /\ e.ring = RingFor(d.shape.k * 2 * SqrtBase(d.shape.m), d.shape.security)
<1> DEFINE b == ClearFloodingSelection(d)
           base == SqrtBase(d.shape.m)
           ring == RingFor(d.shape.k * 2 * SqrtBase(d.shape.m), d.shape.security)
           e == [b EXCEPT !.sqrtBase = base, !.ring = ring, !.depth = 3, !.natural = 3]
<1>1. /\ Shaped(b)
      /\ b.shape = d.shape /\ b.threshold = d.threshold /\ b.giant = d.giant
      /\ b.override = d.override /\ b.armed = d.armed /\ b.target = d.target
  BY Cleared
<1>2. e = DeriveSqrtWithoutFlooding(d)
  BY DEF DeriveSqrtWithoutFlooding
<1> HIDE DEF b, base, ring
<1>3. /\ Shaped(e)
      /\ e.shape = b.shape /\ e.threshold = b.threshold /\ e.giant = b.giant
      /\ e.override = b.override /\ e.armed = b.armed /\ e.target = b.target
      /\ e.natural = 3 /\ e.ring = ring /\ e.sqrtBase = base
  BY <1>1 DEF Shaped, Fields
<1> QED BY <1>1, <1>2, <1>3 DEF ring, base

\* What a selector stores of a threshold row.
LEMMA ThresholdRowStored ==
    ASSUME NEW d, NEW r, Shaped(d)
    PROVE  LET w == WithThresholdRow(d, r)
           IN  /\ Shaped(w)
               /\ w.shape = d.shape /\ w.threshold = d.threshold /\ w.giant = d.giant
               /\ w.override = d.override /\ w.armed = d.armed /\ w.target = d.target
               /\ w.natural = d.natural /\ w.circuit = "Threshold"
               /\ w.eval = r.eval /\ w.depth = r.depth /\ w.limb = r.limb
               /\ w.capacity = r.capacity /\ w.ringNatural = r.ringNatural
               /\ w.coefficient = LegacyBits /\ w.flood = LegacyFlood(d, r)
BY ZenonT(40) DEF Shaped, Fields, WithThresholdRow

\* What a selector stores of a one-hot or sqrt row.
LEMMA CandidateStored ==
    ASSUME NEW d, NEW r, Shaped(d)
    PROVE  LET w == WithCandidate(d, r)
           IN  /\ Shaped(w)
               /\ w.shape = d.shape /\ w.threshold = d.threshold /\ w.giant = d.giant
               /\ w.override = d.override /\ w.armed = d.armed /\ w.target = d.target
               /\ w.natural = d.natural /\ w.circuit = r.circuit
               /\ w.eval = r.eval /\ w.depth = r.depth /\ w.limb = r.limb
               /\ w.capacity = r.capacity /\ w.ringNatural = r.ringNatural
               /\ w.coefficient = CoefficientStatBits(d.target, r.calibrated)
               /\ w.flood = FloodBits(d.target, r.calibrated, r.eval)
BY ZenonT(40) DEF Shaped, Fields, WithCandidate

\* A pre-threshold contract keeps the shape of the object.
LEMMA ContractStored ==
    ASSUME NEW d, NEW q, NEW r, Shaped(d) PROVE Shaped(WithContract(d, q, r))
BY ZenonT(40) DEF Shaped, Fields, WithContract

------------------------------------------------------------------------------
\* A derived object carries the key its inputs call for.
Derived(c, e) ==
    /\ Shaped(e)
    /\ e.ring = RingFor(IF c = "Sqrt" THEN e.shape.k * 2 * SqrtBase(e.shape.m)
                        ELSE e.shape.k * e.shape.m, e.shape.security)
    /\ e.natural = IF c = "Sqrt" THEN 3 ELSE PlainDepth(e)

\* A threshold selection is covered by the row it took.
LEMMA ThresholdRowCovers ==
    ASSUME NEW e, NEW i, Derived("Threshold", e), e.threshold = TRUE,
           ~PairingRefused("Threshold", e), i \in Chosen("Threshold", e)
    PROVE  CoveredBy(WithThresholdRow(e, Source("Threshold", e)[i]))
<1> DEFINE r == Source("Threshold", e)[i]
           w == WithThresholdRow(e, r)
<1>1. /\ Shaped(w)
      /\ w.shape = e.shape /\ w.threshold = e.threshold /\ w.giant = e.giant
      /\ w.override = e.override /\ w.armed = e.armed /\ w.target = e.target
      /\ w.natural = e.natural /\ w.circuit = "Threshold"
      /\ w.eval = r.eval /\ w.depth = r.depth /\ w.limb = r.limb
      /\ w.capacity = r.capacity /\ w.ringNatural = r.ringNatural
      /\ w.coefficient = LegacyBits /\ w.flood = LegacyFlood(e, r)
  BY ThresholdRowStored DEF Derived
<1>2. KeyRing(w) = e.ring /\ KeyDepth(w) = e.natural
  BY <1>1 DEF Derived, KeyRing, KeyDepth, PlainDepth
<1>3. KeyMatches(r, "Threshold", e) /\ LegacyFlood(e, r) + 2 <= r.capacity
  BY DEF Chosen, Stops, Verdict, ThresholdVerdict
<1>4. r \in MeasuredFor(w)
  <2>1. CASE e.override = None
    <3>1. e.giant = "Horner"
      BY <2>1 DEF PairingRefused, Derived, Shaped
    <3>2. i \in DOMAIN Table /\ r = Table[i]
      BY <2>1 DEF Chosen, Stops, Source
    <3> QED BY <1>1, <2>1, <3>1, <3>2 DEF MeasuredFor
  <2>2. CASE e.override # None
    <3>1. e.giant = "Tree" \/ e.armed
      BY <2>2 DEF PairingRefused, Derived, Shaped
    <3>2. r = OverrideRow(e)
      <4>1. i \in DOMAIN <<OverrideRow(e)>>
        BY <2>2 DEF Chosen, Stops, Source
      <4> QED BY <2>2, <4>1 DEF Source
    <3>3. OverrideRow([w EXCEPT !.ring = KeyRing(w)]) = OverrideRow(e)
      <4> DEFINE v == [w EXCEPT !.ring = KeyRing(w)]
      <4>1. /\ v.shape = w.shape /\ v.override = w.override /\ v.natural = w.natural
            /\ v.ring = KeyRing(w)
        BY <1>1 DEF Shaped, Fields
      <4> QED BY <4>1, <1>1, <1>2 DEF OverrideRow
    <3> QED BY <1>1, <2>2, <3>1, <3>2, <3>3 DEF MeasuredFor
  <2> QED BY <2>1, <2>2
<1>5. w.flood = r.eval + w.coefficient + w.target.margin
  BY <1>1 DEF LegacyFlood
<1> HIDE DEF w, r
<1>6. CoveredBy(w)
  BY <1>1, <1>2, <1>3, <1>4, <1>5 DEF CoveredBy, KeyMatches
<1> QED BY <1>6 DEF w, r

\* A one-hot or sqrt selection is covered by the row it took.
LEMMA CandidateCovers ==
    ASSUME NEW c \in {"OneHot", "Sqrt"}, NEW e, NEW i, Derived(c, e),
           c = "OneHot" => e.threshold = FALSE, i \in Chosen(c, e)
    PROVE  CoveredBy(WithCandidate(e, Source(c, e)[i]))
<1> DEFINE r == Source(c, e)[i]
           w == WithCandidate(e, r)
<1>1. /\ Shaped(w)
      /\ w.shape = e.shape /\ w.threshold = e.threshold /\ w.giant = e.giant
      /\ w.override = e.override /\ w.armed = e.armed /\ w.target = e.target
      /\ w.natural = e.natural /\ w.circuit = r.circuit
      /\ w.eval = r.eval /\ w.depth = r.depth /\ w.limb = r.limb
      /\ w.capacity = r.capacity /\ w.ringNatural = r.ringNatural
      /\ w.coefficient = CoefficientStatBits(e.target, r.calibrated)
      /\ w.flood = FloodBits(e.target, r.calibrated, r.eval)
  BY CandidateStored DEF Derived
<1>2. /\ KeyMatches(r, c, e)
      /\ CandidateWellFormed(e, r)
      /\ FloodBits(e.target, r.calibrated, r.eval) + 2 <= r.capacity
  BY DEF Chosen, Stops, Verdict, CandidateVerdict
<1>3. r.circuit = c
  BY <1>2 DEF KeyMatches
<1>4. e.threshold = FALSE
  <2>1. DerivedCircuit(e) = c
    BY <1>2, <1>3 DEF CandidateWellFormed, KeyMatches
  <2> QED BY <2>1 DEF DerivedCircuit, Derived, Shaped
<1>5. KeyRing(w) = e.ring /\ KeyDepth(w) = e.natural
  BY <1>1, <1>3 DEF Derived, KeyRing, KeyDepth, PlainDepth
<1>6. r \in MeasuredFor(w)
  <2>1. i \in DOMAIN Table /\ r = Table[i]
    BY DEF Chosen, Stops, Source
  <2> QED BY <1>1, <1>3, <2>1 DEF MeasuredFor
<1>7. w.flood = r.eval + w.coefficient + w.target.margin
  BY <1>1 DEF FloodBits
<1> HIDE DEF w, r
<1>8. CoveredBy(w)
  BY <1>1, <1>2, <1>3, <1>4, <1>5, <1>6, <1>7 DEF CoveredBy, KeyMatches
<1> QED BY <1>8 DEF w, r

\* Whatever row Validate or ValidateSqrt takes covers the object it is stored in.
LEMMA RowCovers ==
    ASSUME NEW c \in {"OneHot", "Sqrt", "Threshold"}, NEW e, NEW i, Derived(c, e),
           c # "Sqrt" => c = CircuitFor(e.threshold),
           ~PairingRefused(c, e), i \in Chosen(c, e)
    PROVE  /\ CoveredBy(WithRow(c, e, Source(c, e)[i]))
           /\ Shaped(WithRow(c, e, Source(c, e)[i]))
<1>1. e.threshold \in BOOLEAN /\ Shaped(e)
  BY DEF Derived, Shaped
<1>2. CASE c = "Threshold"
  <2>1. e.threshold = TRUE
    BY <1>1, <1>2 DEF CircuitFor
  <2> QED BY <1>1, <1>2, <2>1, ThresholdRowCovers, ThresholdRowStored DEF WithRow
<1>3. CASE c # "Threshold"
  <2>1. c = "OneHot" => e.threshold = FALSE
    BY <1>1, <1>3 DEF CircuitFor
  <2> QED BY <1>1, <1>3, <2>1, CandidateCovers, CandidateStored DEF WithRow
<1> QED BY <1>2, <1>3

\* Adopting the ring dimension changes nothing coverage depends on.
LEMMA AdoptionCovers ==
    ASSUME NEW d, NEW n, Shaped(d), CoveredBy(d)
    PROVE  CoveredBy([d EXCEPT !.ring = n, !.adopted = TRUE])
<1> DEFINE w == [d EXCEPT !.ring = n, !.adopted = TRUE]
<1>1. /\ Shaped(w)
      /\ w.shape = d.shape /\ w.threshold = d.threshold /\ w.giant = d.giant
      /\ w.override = d.override /\ w.armed = d.armed /\ w.target = d.target
      /\ w.natural = d.natural /\ w.circuit = d.circuit
      /\ w.eval = d.eval /\ w.depth = d.depth /\ w.limb = d.limb
      /\ w.capacity = d.capacity /\ w.ringNatural = d.ringNatural
      /\ w.coefficient = d.coefficient /\ w.flood = d.flood
  BY DEF Shaped, Fields
<1> HIDE DEF w
<1>2. KeyRing(w) = KeyRing(d) /\ KeyDepth(w) = KeyDepth(d)
  BY <1>1 DEF KeyRing, KeyDepth, PlainDepth
<1>3. OverrideRow([w EXCEPT !.ring = KeyRing(w)]) = OverrideRow([d EXCEPT !.ring = KeyRing(d)])
  <2> DEFINE v == [w EXCEPT !.ring = KeyRing(w)]
             u == [d EXCEPT !.ring = KeyRing(d)]
  <2>1. /\ v.shape = w.shape /\ v.override = w.override /\ v.natural = w.natural
        /\ v.ring = KeyRing(w)
    BY <1>1 DEF Shaped, Fields
  <2>2. /\ u.shape = d.shape /\ u.override = d.override /\ u.natural = d.natural
        /\ u.ring = KeyRing(d)
    BY DEF Shaped, Fields
  <2> QED BY <2>1, <2>2, <1>1, <1>2 DEF OverrideRow
<1>4. MeasuredFor(w) = MeasuredFor(d)
  BY <1>1, <1>3 DEF MeasuredFor
<1>5. CoveredBy(w)
  BY <1>1, <1>2, <1>4 DEF CoveredBy
<1> QED BY <1>5 DEF w

------------------------------------------------------------------------------
\* A call that ends without a selection keeps the invariant.
LEMMA UnsizedKeeps == ASSUME NEW d, Shaped(d), Unsized(d) PROVE IInv'
BY DEF Unsized, IInv

\* Both outcomes of SelectFloodingParams on a derived object keep the invariant.
LEMMA SelectionKeeps ==
    ASSUME NEW c \in {"OneHot", "Sqrt", "Threshold"}, NEW e, Derived(c, e),
           c # "Sqrt" => c = CircuitFor(e.threshold),
           SelectFloodingParams(c, e) \/ SelectionRefused(c, e)
    PROVE  IInv'
<1>1. CASE SelectFloodingParams(c, e)
  <2>1. PICK i \in Chosen(c, e) : SizedBy("Validate", WithRow(c, e, Source(c, e)[i]))
    BY <1>1 DEF SelectFloodingParams
  <2>2. ~PairingRefused(c, e)
    BY <1>1 DEF SelectFloodingParams
  <2>3. /\ CoveredBy(WithRow(c, e, Source(c, e)[i]))
        /\ Shaped(WithRow(c, e, Source(c, e)[i]))
    BY <2>2, RowCovers
  <2> QED BY <2>1, <2>3 DEF SizedBy, IInv
<1>2. CASE SelectionRefused(c, e)
  BY <1>2, UnsizedKeeps DEF SelectionRefused, Derived
<1> QED BY <1>1, <1>2

\* Validate, on the object itself or on the one ArmThresholdProbe prepared.
LEMMA ValidateKeeps == ASSUME NEW d, Shaped(d), ValidateOf(d) PROVE IInv'
<1> DEFINE e == DeriveWithoutFlooding(d)
           c == CircuitFor(d.threshold)
<1>1. CASE ~PlainShape(d.shape) /\ Unsized(ClearFloodingSelection(d))
  BY <1>1, Cleared, UnsizedKeeps
<1>2. CASE SelectFloodingParams(c, e) \/ SelectionRefused(c, e)
  <2>1. /\ Shaped(e)
        /\ e.shape = d.shape /\ e.threshold = d.threshold /\ e.giant = d.giant
        /\ e.natural = PlainDepth(d)
        /\ e.ring = RingFor(d.shape.k * d.shape.m, d.shape.security)
    BY PlainDerived
  <2>2. c \in {"OneHot", "Threshold"}
    BY DEF CircuitFor
  <2> HIDE DEF e
  <2>3. Derived(c, e) /\ c = CircuitFor(e.threshold)
    BY <2>1, <2>2 DEF Derived, PlainDepth
  <2> HIDE DEF c
  <2> QED BY <1>2, <2>2, <2>3, SelectionKeeps
<1> QED BY <1>1, <1>2 DEF ValidateOf

\* ValidateSqrt.
LEMMA ValidateSqrtKeeps == ASSUME Shaped(p), ValidateSqrt PROVE IInv'
<1> DEFINE e == DeriveSqrtWithoutFlooding(p)
<1>1. CASE ~SqrtShape(p.shape) /\ Unsized(ClearFloodingSelection(p))
  BY <1>1, Cleared, UnsizedKeeps
<1>2. CASE SelectFloodingParams("Sqrt", e) \/ SelectionRefused("Sqrt", e)
  <2>1. /\ Shaped(e)
        /\ e.shape = p.shape /\ e.natural = 3
        /\ e.ring = RingFor(p.shape.k * 2 * SqrtBase(p.shape.m), p.shape.security)
    BY SqrtDerived
  <2> HIDE DEF e
  <2>2. Derived("Sqrt", e)
    BY <2>1 DEF Derived
  <2> QED BY <1>2, <2>2, SelectionKeeps
<1> QED BY <1>1, <1>2 DEF ValidateSqrt

------------------------------------------------------------------------------
\* The inductive invariant holds: the object keeps its fields, and the snapshot
\* of a validated object is covered.
THEOREM SpecIInv == Spec => []IInv
<1>1. Init => IInv
  BY DEF Init, IInv, Shaped, Fields
<1>2. IInv /\ [Next]_vars => IInv'
  <2> SUFFICES ASSUME IInv, [Next]_vars PROVE IInv'
    OBVIOUS
  <2>0. Shaped(p)
    BY DEF IInv
  <2>1. CASE Write
    <3>1. UNCHANGED <<sized, valid, snapshot, via>>
      BY <2>1 DEF Write
    <3>2. Shaped(p)'
      <4>1. CASE SetShape
        BY <2>0, <4>1 DEF SetShape, Shaped, Fields
      <4>2. CASE SetTarget
        BY <2>0, <4>2 DEF SetTarget, Shaped, Fields
      <4>3. CASE SetMode
        BY <2>0, <4>3, NoneAssumption DEF SetMode, Shaped, Fields
      <4>4. CASE Poke
        BY <2>0, <4>4 DEF Poke, Shaped, Fields
      <4> QED BY <2>1, <4>1, <4>2, <4>3, <4>4 DEF Write
    <3> QED BY <3>1, <3>2 DEF IInv
  <2>2. CASE Validate
    BY <2>0, <2>2, ValidateKeeps DEF Validate
  <2>3. CASE ValidateSqrt
    BY <2>0, <2>3, ValidateSqrtKeeps
  <2>4. CASE Derive
    BY <2>0, <2>4, PlainDerived, Cleared, UnsizedKeeps DEF Derive
  <2>5. CASE DeriveSqrt
    BY <2>0, <2>5, SqrtDerived, Cleared, UnsizedKeeps DEF DeriveSqrt
  <2>6. CASE ArmThresholdProbe
    <3>1. PICK o \in Overrides : ValidateOf([p EXCEPT !.override = o, !.armed = TRUE])
      BY <2>6 DEF ArmThresholdProbe
    <3>2. Shaped([p EXCEPT !.override = o, !.armed = TRUE])
      BY <2>0 DEF Shaped, Fields
    <3> QED BY <3>1, <3>2, ValidateKeeps
  <2>7. CASE SelectSanitizerCandidate
    <3>1. PICK r \in Candidates : SizedBy("Candidate", WithCandidate(p, r))
      BY <2>7 DEF SelectSanitizerCandidate
    <3>2. Shaped(WithCandidate(p, r))
      BY <2>0, CandidateStored
    <3> QED BY <3>1, <3>2 DEF SizedBy, IInv
  <2>8. CASE SelectPreThresholdCalibration
    <3>1. PICK q, r : SizedBy("Contract", WithContract(p, q, r))
      BY <2>8 DEF SelectPreThresholdCalibration
    <3>2. Shaped(WithContract(p, q, r))
      BY <2>0, ContractStored
    <3> QED BY <3>1, <3>2 DEF SizedBy, IInv
  <2>9. CASE AdoptVerifiedRuntimeRingDim
    <3>1. PICK n : /\ p' = [p EXCEPT !.ring = n, !.adopted = TRUE]
                   /\ snapshot' = [p EXCEPT !.ring = n, !.adopted = TRUE]
      BY <2>9 DEF AdoptVerifiedRuntimeRingDim
    <3>2. snapshot = p /\ UNCHANGED <<sized, valid, via>>
      BY <2>9 DEF AdoptVerifiedRuntimeRingDim, VerifyValidationSnapshot
    <3>3. Shaped(p)'
      BY <2>0, <3>1 DEF Shaped, Fields
    <3>4. CoveredBy(p) => CoveredBy(snapshot')
      BY <2>0, <3>1, AdoptionCovers
    <3>5. sized' /\ via' = "Validate" => CoveredBy(snapshot')
      BY <3>2, <3>4 DEF IInv
    <3>6. CoveredBy(snapshot)' <=> CoveredBy(snapshot')
      BY DEF CoveredBy, MeasuredFor, KeyRing, KeyDepth, PlainDepth, RingFor, OverrideRow
    <3> QED BY <3>2, <3>3, <3>5, <3>6 DEF IInv
  <2>10. CASE UNCHANGED vars
    BY <2>10 DEF vars, IInv, Shaped
  <2> QED
    BY <2>1, <2>2, <2>3, <2>4, <2>5, <2>6, <2>7, <2>8, <2>9, <2>10 DEF Next
<1> QED BY <1>1, <1>2, PTL DEF Spec

\* FloodNoiseBits answers after Validate only with the bound of a row that was
\* measured for the input fields as they are.
THEOREM FloodingAlwaysCovered == Spec => []FloodingCovered
<1>1. IInv => FloodingCovered
  BY DEF IInv, FloodingCovered, FloodNoiseBitsReturns, VerifyValidationSnapshot
<1> QED BY <1>1, SpecIInv, PTL

------------------------------------------------------------------------------
(* The adopted ring dimension *)

\* What a selection by this selector promises of the dimensions of d.
Dimensioned(d, how) ==
    /\ d.calibrated >= d.requested
    /\ d.adopted => d.ring = d.calibrated
    /\ how = "Contract" => d.calibrated = d.contract.calibrated
    /\ how = "Validate" => d.calibrated >= KeyRing(d)

DimInv == sized => Dimensioned(snapshot, via)

\* The dimensions a selector stores: of a threshold row its natural ring, of any
\* other the calibrated one.
LEMMA ThresholdDimensions ==
    ASSUME NEW d, NEW r, NEW w, Shaped(d), w = WithThresholdRow(d, r)
    PROVE  /\ w.shape = d.shape /\ w.circuit = "Threshold" /\ w.adopted = FALSE
           /\ w.requested = r.requested /\ w.calibrated = r.ringNatural
BY ZenonT(40) DEF Shaped, Fields, WithThresholdRow

LEMMA CandidateDimensions ==
    ASSUME NEW d, NEW r, NEW w, Shaped(d), w = WithCandidate(d, r)
    PROVE  /\ w.shape = d.shape /\ w.circuit = r.circuit /\ w.adopted = FALSE
           /\ w.requested = r.requested /\ w.calibrated = r.calibrated
BY ZenonT(40) DEF Shaped, Fields, WithCandidate

LEMMA ContractDimensioned ==
    ASSUME NEW d, NEW q, NEW r, Shaped(d), r.calibrated >= q.requested
    PROVE  Dimensioned(WithContract(d, q, r), "Contract")
<1>1. /\ WithContract(d, q, r).adopted = FALSE
      /\ WithContract(d, q, r).contract = r
      /\ WithContract(d, q, r).requested = q.requested
      /\ WithContract(d, q, r).calibrated = r.calibrated
  BY DEF Shaped, Fields, WithContract
<1> QED BY <1>1 DEF Dimensioned

\* A row that Validate or ValidateSqrt takes was measured at the ring the inputs
\* call for, or a larger one.
LEMMA RowDimensioned ==
    ASSUME NEW c \in {"OneHot", "Sqrt", "Threshold"}, NEW e, NEW i, Derived(c, e),
           ~PairingRefused(c, e), i \in Chosen(c, e)
    PROVE  Dimensioned(WithRow(c, e, Source(c, e)[i]), "Validate")
<1> DEFINE r == Source(c, e)[i]
<1>1. KeyMatches(r, c, e)
  BY DEF Chosen, Stops
<1>2. CASE c = "Threshold"
  <2> DEFINE w == WithThresholdRow(e, r)
  <2>1. /\ w.shape = e.shape /\ w.circuit = "Threshold"
        /\ w.requested = r.requested /\ w.calibrated = r.ringNatural /\ w.adopted = FALSE
    BY ThresholdDimensions, ZenonT(40) DEF Derived
  <2>2. KeyRing(w) = e.ring /\ r.requested = e.ring
    BY <1>1, <1>2, <2>1 DEF Derived, KeyRing, KeyMatches
  <2>3. r.ringNatural >= r.requested
    <3>1. CASE e.override = None
      <4>1. i \in DOMAIN Table /\ r = Table[i]
        BY <1>2, <3>1 DEF Chosen, Stops, Source
      <4> QED BY <1>1, <1>2, <4>1, RingAssumption DEF KeyMatches
    <3>2. CASE e.override # None
      <4>1. i \in DOMAIN <<OverrideRow(e)>>
        BY <1>2, <3>2 DEF Chosen, Stops, Source
      <4>2. r = OverrideRow(e)
        BY <1>2, <3>2, <4>1 DEF Source
      <4> QED BY <1>2, <3>2, <4>2 DEF PairingRefused, OverrideValid, OverrideRow
    <3> QED BY <3>1, <3>2
  <2> HIDE DEF w, r
  <2>4. Dimensioned(w, "Validate")
    BY <2>1, <2>2, <2>3 DEF Dimensioned
  <2> QED BY <1>2, <2>4 DEF WithRow, w, r
<1>3. CASE c # "Threshold"
  <2> DEFINE w == WithCandidate(e, r)
  <2>1. /\ w.shape = e.shape /\ w.circuit = r.circuit
        /\ w.requested = r.requested /\ w.calibrated = r.calibrated /\ w.adopted = FALSE
    BY CandidateDimensions, ZenonT(40) DEF Derived
  <2>2. KeyRing(w) = e.ring /\ r.requested = e.ring
    BY <1>1, <1>3, <2>1 DEF Derived, KeyRing, KeyMatches
  <2>3. r \in Rows /\ CandidateWellFormed(e, r)
    BY <1>3 DEF Chosen, Stops, Source, Rows, Verdict, CandidateVerdict
  <2>4. r.calibrated >= r.requested
    BY <2>3, RingAssumption DEF CandidateWellFormed
  <2> HIDE DEF w, r
  <2>5. Dimensioned(w, "Validate")
    BY <2>1, <2>2, <2>4 DEF Dimensioned
  <2> QED BY <1>3, <2>5 DEF WithRow, w, r
<1> QED BY <1>2, <1>3

\* Validate and ValidateSqrt size the object with such a row or not at all.
LEMMA ValidateDimensions ==
    ASSUME NEW c \in {"OneHot", "Sqrt", "Threshold"}, NEW e, Derived(c, e),
           SelectFloodingParams(c, e) \/ SelectionRefused(c, e)
    PROVE  DimInv'
<1>1. CASE SelectFloodingParams(c, e)
  <2>1. PICK i \in Chosen(c, e) : SizedBy("Validate", WithRow(c, e, Source(c, e)[i]))
    BY <1>1 DEF SelectFloodingParams
  <2>2. Dimensioned(WithRow(c, e, Source(c, e)[i]), "Validate")
    BY <1>1, RowDimensioned DEF SelectFloodingParams
  <2>3. Dimensioned(snapshot', via')
    BY <2>1, <2>2 DEF SizedBy
  <2> QED BY <2>3 DEF DimInv, Dimensioned, KeyRing, RingFor
<1>2. CASE SelectionRefused(c, e)
  BY <1>2 DEF SelectionRefused, Unsized, DimInv
<1> QED BY <1>1, <1>2

LEMMA ValidateOfDimensions == ASSUME NEW d, Shaped(d), ValidateOf(d) PROVE DimInv'
<1> DEFINE e == DeriveWithoutFlooding(d)
           c == CircuitFor(d.threshold)
<1>1. CASE Unsized(ClearFloodingSelection(d))
  BY <1>1 DEF Unsized, DimInv
<1>2. CASE SelectFloodingParams(c, e) \/ SelectionRefused(c, e)
  <2>1. /\ Shaped(e) /\ e.shape = d.shape /\ e.threshold = d.threshold /\ e.giant = d.giant
        /\ e.natural = PlainDepth(d)
        /\ e.ring = RingFor(d.shape.k * d.shape.m, d.shape.security)
    BY PlainDerived
  <2>2. c \in {"OneHot", "Threshold"}
    BY DEF CircuitFor
  <2> HIDE DEF e
  <2>3. Derived(c, e)
    BY <2>1, <2>2 DEF Derived, PlainDepth
  <2> HIDE DEF c
  <2> QED BY <1>2, <2>2, <2>3, ValidateDimensions
<1> QED BY <1>1, <1>2 DEF ValidateOf

\* The selectors promise the dimensions, adoption makes the ring the calibrated
\* one.
LEMMA DimensionsKept == ASSUME IInv, DimInv, [Next]_vars PROVE DimInv'
<1>0. Shaped(p)
  BY DEF IInv
<1>1. CASE Write \/ UNCHANGED vars
  <2>1. UNCHANGED <<sized, snapshot, via>>
    BY <1>1 DEF Write, vars
  <2> QED BY <2>1 DEF DimInv, Dimensioned, KeyRing, RingFor
<1>2. CASE Validate
  BY <1>0, <1>2, ValidateOfDimensions DEF Validate
<1>3. CASE ValidateSqrt
  <2> DEFINE e == DeriveSqrtWithoutFlooding(p)
  <2>1. CASE Unsized(ClearFloodingSelection(p))
    BY <2>1 DEF Unsized, DimInv
  <2>2. CASE SelectFloodingParams("Sqrt", e) \/ SelectionRefused("Sqrt", e)
    <3>1. /\ Shaped(e) /\ e.shape = p.shape /\ e.natural = 3
          /\ e.ring = RingFor(p.shape.k * 2 * SqrtBase(p.shape.m), p.shape.security)
      BY <1>0, SqrtDerived
    <3> HIDE DEF e
    <3>2. Derived("Sqrt", e)
      BY <3>1 DEF Derived
    <3> QED BY <2>2, <3>2, ValidateDimensions
  <2> QED BY <1>3, <2>1, <2>2 DEF ValidateSqrt
<1>4. CASE Derive \/ DeriveSqrt
  BY <1>4 DEF Derive, DeriveSqrt, Unsized, DimInv
<1>5. CASE ArmThresholdProbe
  <2>1. PICK o \in Overrides : ValidateOf([p EXCEPT !.override = o, !.armed = TRUE])
    BY <1>5 DEF ArmThresholdProbe
  <2>2. Shaped([p EXCEPT !.override = o, !.armed = TRUE])
    BY <1>0 DEF Shaped, Fields
  <2> QED BY <2>1, <2>2, ValidateOfDimensions
<1>6. CASE SelectSanitizerCandidate
  <2>1. PICK r \in Candidates : CandidateVerdict(p, r) = "feasible" /\ SizedBy("Candidate", WithCandidate(p, r))
    BY <1>6 DEF SelectSanitizerCandidate
  <2>2. r.calibrated >= r.requested
    BY <2>1, RingAssumption DEF CandidateVerdict, CandidateWellFormed, Rows
  <2>3. Dimensioned(WithCandidate(p, r), "Candidate")
    BY <1>0, <2>2, CandidateDimensions DEF Dimensioned
  <2>4. Dimensioned(snapshot', via')
    BY <2>1, <2>3 DEF SizedBy
  <2> QED BY <2>4 DEF DimInv, Dimensioned, KeyRing, RingFor
<1>7. CASE SelectPreThresholdCalibration
  <2>0. PICK list \in Contracts : \E i \in DOMAIN list : \E r \in SelectedContract(p, list[i].key, list) :
            SizedBy("Contract", WithContract(p, list[i].key, r))
    BY <1>7 DEF SelectPreThresholdCalibration
  <2>1. PICK i \in DOMAIN list : \E r \in SelectedContract(p, list[i].key, list) :
            SizedBy("Contract", WithContract(p, list[i].key, r))
    BY <2>0
  <2> DEFINE q == list[i].key
  <2>2. PICK r \in SelectedContract(p, q, list) : SizedBy("Contract", WithContract(p, q, r))
    BY <2>1
  <2>3. PICK j \in DOMAIN list : r = list[j] /\ ContractMatches(p, q, r)
    BY <2>2 DEF SelectedContract, CheapestContract, Matching
  <2>4. r.calibrated >= q.requested
    BY <2>3, RingAssumption DEF ContractMatches
  <2>6. Dimensioned(WithContract(p, q, r), "Contract")
    BY <1>0, <2>4, ContractDimensioned
  <2>7. Dimensioned(snapshot', via')
    BY <2>2, <2>6 DEF SizedBy
  <2> QED BY <2>7 DEF DimInv, Dimensioned, KeyRing, RingFor
<1>8. CASE AdoptVerifiedRuntimeRingDim
  <2> DEFINE w == [p EXCEPT !.ring = p.calibrated, !.adopted = TRUE]
  <2>1. snapshot' = w /\ snapshot = p /\ sized /\ via' = via
    BY <1>8 DEF AdoptVerifiedRuntimeRingDim, VerifyValidationSnapshot
  <2>2. /\ w.ring = p.calibrated /\ w.calibrated = p.calibrated /\ w.requested = p.requested
        /\ w.contract = p.contract /\ w.shape = p.shape /\ w.circuit = p.circuit
    BY <1>0 DEF Shaped, Fields
  <2> HIDE DEF w
  <2>3. Dimensioned(w, via)
    BY <2>1, <2>2 DEF DimInv, Dimensioned, KeyRing
  <2>4. Dimensioned(snapshot', via')
    BY <2>1, <2>3
  <2> QED BY <2>4 DEF DimInv, Dimensioned, KeyRing, RingFor
<1> QED
  BY <1>1, <1>2, <1>3, <1>4, <1>5, <1>6, <1>7, <1>8 DEF Next

\* While FloodNoiseBits answers on an adopted object, its ring dimension is the
\* one its row was measured at, and as large as the inputs as they are call for.
THEOREM AdoptionAlwaysExact == Spec => []AdoptionExact
<1>1. Init => DimInv
  BY DEF Init, DimInv
<1>2. IInv /\ DimInv /\ [Next]_vars => DimInv'
  BY DimensionsKept
<1>3. IInv /\ DimInv => AdoptionExact
  BY DEF IInv, DimInv, Dimensioned, AdoptionExact, FloodNoiseBitsReturns, VerifyValidationSnapshot
<1> QED
  BY <1>1, <1>2, <1>3, SpecIInv, PTL DEF Spec

------------------------------------------------------------------------------
(* What the noise covers *)

\* The fields of the object that size its noise have their types.
Typed(d) ==
    /\ d.shape \in Shapes /\ d.target \in Targets
    /\ d.override \in Overrides \cup {None}
    /\ d.calibrated \in Nat /\ d.eval \in Nat

\* Clearing a selection, and deriving anew, keep the types,
LEMMA DerivedTyped ==
    ASSUME NEW d, Shaped(d), Typed(d)
    PROVE  /\ Typed(ClearFloodingSelection(d))
           /\ Typed(DeriveWithoutFlooding(d))
           /\ Typed(DeriveSqrtWithoutFlooding(d))
<1>1. /\ ClearFloodingSelection(d).calibrated = 0 /\ ClearFloodingSelection(d).eval = 0
      /\ ClearFloodingSelection(d).shape = d.shape
      /\ ClearFloodingSelection(d).target = d.target
      /\ ClearFloodingSelection(d).override = d.override
      /\ Shaped(ClearFloodingSelection(d))
  BY Cleared
<1> DEFINE b == ClearFloodingSelection(d)
           ring == RingFor(d.shape.k * d.shape.m, d.shape.security)
           depth == PlainDepth(d)
           base == SqrtBase(d.shape.m)
           wide == RingFor(d.shape.k * 2 * SqrtBase(d.shape.m), d.shape.security)
           e == [b EXCEPT !.ring = ring, !.depth = depth, !.natural = depth]
           f == [b EXCEPT !.sqrtBase = base, !.ring = wide, !.depth = 3, !.natural = 3]
<1>2. e = DeriveWithoutFlooding(d) /\ f = DeriveSqrtWithoutFlooding(d)
  BY DEF DeriveWithoutFlooding, DeriveSqrtWithoutFlooding
<1>3. Shaped(b) /\ Typed(b)
  BY <1>1 DEF Typed
<1> HIDE DEF b, ring, depth, base, wide
<1>4. /\ e.calibrated = b.calibrated /\ e.eval = b.eval /\ e.shape = b.shape
      /\ e.target = b.target /\ e.override = b.override
  BY <1>3 DEF Shaped, Fields
<1>5. /\ f.calibrated = b.calibrated /\ f.eval = b.eval /\ f.shape = b.shape
      /\ f.target = b.target /\ f.override = b.override
  BY <1>3 DEF Shaped, Fields
<1> HIDE DEF e, f
<1>6. Typed(e) /\ Typed(f)
  BY <1>3, <1>4, <1>5 DEF Typed
<1> QED BY <1>2, <1>3, <1>6 DEF b

\* storing a row does,
LEMMA RowTyped ==
    ASSUME NEW d, NEW r, Shaped(d), Typed(d), r.eval \in Nat
    PROVE  /\ r.ringNatural \in Nat => Typed(WithThresholdRow(d, r))
           /\ r.calibrated \in Nat =>
                 Typed(WithCandidate(d, r)) /\ \A q : Typed(WithContract(d, q, r))
<1>1. LET w == WithThresholdRow(d, r)
      IN  /\ w.calibrated = r.ringNatural /\ w.eval = r.eval
          /\ w.shape = d.shape /\ w.target = d.target /\ w.override = d.override
  BY DEF Shaped, Fields, WithThresholdRow
<1>2. LET w == WithCandidate(d, r)
      IN  /\ w.calibrated = r.calibrated /\ w.eval = r.eval
          /\ w.shape = d.shape /\ w.target = d.target /\ w.override = d.override
  BY DEF Shaped, Fields, WithCandidate
<1>3. ASSUME NEW q
      PROVE  LET w == WithContract(d, q, r)
             IN  /\ w.calibrated = r.calibrated /\ w.eval = r.eval
                 /\ w.shape = d.shape /\ w.target = d.target /\ w.override = d.override
  BY DEF Shaped, Fields, WithContract
<1> QED BY <1>1, <1>2, <1>3 DEF Typed

\* and every row that is stored has a natural evaluation noise.
LEMMA SourceTyped ==
    ASSUME NEW c, NEW d, Typed(d), NEW i \in DOMAIN Source(c, d)
    PROVE  LET r == Source(c, d)[i]
           IN  r.eval \in Nat /\ r.ringNatural \in Nat /\ (c # "Threshold" => r.calibrated \in Nat)
<1>1. CASE c = "Threshold" /\ d.override # None
  <2>1. Source(c, d) = <<OverrideRow(d)>>
    BY <1>1 DEF Source
  <2>2. Source(c, d)[i] = OverrideRow(d)
    BY <2>1
  <2>3. d.override.eval \in Nat /\ d.override.ringNatural \in Nat
    BY <1>1, InputAssumption DEF Typed
  <2> QED BY <1>1, <2>2, <2>3 DEF OverrideRow
<1>2. CASE ~(c = "Threshold" /\ d.override # None)
  <2>1. Source(c, d) = Table
    BY <1>2 DEF Source
  <2>2. Table[i] \in Rows
    BY <2>1 DEF Rows
  <2> QED BY <2>1, <2>2, TableAssumption, RingAssumption
<1> QED BY <1>1, <1>2

\* Both outcomes of SelectFloodingParams leave a typed object.
LEMMA SelectionTyped ==
    ASSUME NEW c, NEW e, Shaped(e), Typed(e),
           SelectFloodingParams(c, e) \/ SelectionRefused(c, e)
    PROVE  Typed(p')
<1>1. CASE SelectionRefused(c, e)
  BY <1>1 DEF SelectionRefused, Unsized
<1>2. CASE SelectFloodingParams(c, e)
  <2>1. PICK i \in Chosen(c, e) : p' = WithRow(c, e, Source(c, e)[i])
    BY <1>2 DEF SelectFloodingParams, SizedBy
  <2>2. i \in DOMAIN Source(c, e)
    BY DEF Chosen, Stops
  <2> QED BY <2>1, <2>2, SourceTyped, RowTyped DEF WithRow
<1> QED BY <1>1, <1>2

LEMMA ValidateTyped == ASSUME NEW d, Shaped(d), Typed(d), ValidateOf(d) PROVE Typed(p')
<1>1. CASE Unsized(ClearFloodingSelection(d))
  BY <1>1, DerivedTyped DEF Unsized
<1>2. CASE ~Unsized(ClearFloodingSelection(d))
  <2> DEFINE e == DeriveWithoutFlooding(d)
             c == CircuitFor(d.threshold)
  <2>1. SelectFloodingParams(c, e) \/ SelectionRefused(c, e)
    BY <1>2 DEF ValidateOf
  <2>2. Shaped(e) /\ Typed(e)
    BY PlainDerived, DerivedTyped
  <2> HIDE DEF e, c
  <2> QED BY <2>1, <2>2, SelectionTyped
<1> QED BY <1>1, <1>2

\* No step gives the fields another type.
LEMMA TypedKept == ASSUME IInv, Typed(p), [Next]_vars PROVE Typed(p')
<1>0. Shaped(p)
  BY DEF IInv
<1>1. CASE SetShape
  <2>1. PICK s \in Shapes : p' = [p EXCEPT !.shape = s]
    BY <1>1 DEF SetShape
  <2> QED BY <1>0, <2>1 DEF Typed, Shaped, Fields
<1>2. CASE SetTarget
  <2>1. PICK t \in Targets : p' = [p EXCEPT !.target = t]
    BY <1>2 DEF SetTarget
  <2> QED BY <1>0, <2>1 DEF Typed, Shaped, Fields
<1>3. CASE SetMode
  <2>1. PICK w \in Modes :
            p' = [p EXCEPT !.threshold = w.threshold, !.giant = w.giant, !.override = w.override]
    BY <1>3 DEF SetMode
  <2>2. w.override \in Overrides \cup {None}
    BY NoneAssumption
  <2> QED BY <1>0, <2>1, <2>2 DEF Typed, Shaped, Fields
<1>4. CASE Poke
  <2>1. PICK w \in Pokes : p' = [p EXCEPT !.ring = w.ring, !.eval = w.eval]
    BY <1>4 DEF Poke
  <2>2. w.eval \in Nat
    BY InputAssumption
  <2> QED BY <1>0, <2>1, <2>2 DEF Typed, Shaped, Fields
<1>5. CASE Validate
  BY <1>0, <1>5, ValidateTyped DEF Validate
<1>6. CASE ValidateSqrt
  <2> DEFINE e == DeriveSqrtWithoutFlooding(p)
  <2>1. CASE Unsized(ClearFloodingSelection(p))
    BY <1>0, <2>1, DerivedTyped DEF Unsized
  <2>2. CASE SelectFloodingParams("Sqrt", e) \/ SelectionRefused("Sqrt", e)
    <3>1. Shaped(e) /\ Typed(e)
      BY <1>0, SqrtDerived, DerivedTyped
    <3> HIDE DEF e
    <3> QED BY <2>2, <3>1, SelectionTyped
  <2> QED BY <1>6, <2>1, <2>2 DEF ValidateSqrt
<1>7. CASE Derive \/ DeriveSqrt
  BY <1>0, <1>7, DerivedTyped DEF Derive, DeriveSqrt, Unsized
<1>8. CASE ArmThresholdProbe
  <2>1. PICK o \in Overrides : ValidateOf([p EXCEPT !.override = o, !.armed = TRUE])
    BY <1>8 DEF ArmThresholdProbe
  <2> DEFINE d == [p EXCEPT !.override = o, !.armed = TRUE]
  <2>2. Shaped(d)
    BY <1>0 DEF Shaped, Fields
  <2>3. /\ d.override = o /\ d.shape = p.shape /\ d.target = p.target
        /\ d.calibrated = p.calibrated /\ d.eval = p.eval
    BY <1>0 DEF Shaped, Fields
  <2> HIDE DEF d
  <2>4. Typed(d)
    BY <2>3 DEF Typed
  <2> QED BY <2>1, <2>2, <2>4, ValidateTyped DEF d
<1>9. CASE SelectSanitizerCandidate
  <2>1. PICK r \in Candidates : p' = WithCandidate(p, r)
    BY <1>9 DEF SelectSanitizerCandidate, SizedBy
  <2>2. r.eval \in Nat /\ r.calibrated \in Nat
    BY TableAssumption, RingAssumption DEF Rows
  <2> QED BY <1>0, <2>1, <2>2, RowTyped
<1>10. CASE SelectPreThresholdCalibration
  <2>0. PICK list \in Contracts : \E i \in DOMAIN list : \E r \in SelectedContract(p, list[i].key, list) :
            SizedBy("Contract", WithContract(p, list[i].key, r))
    BY <1>10 DEF SelectPreThresholdCalibration
  <2>1. PICK q, r : r \in SelectedContract(p, q, list) /\ p' = WithContract(p, q, r)
    BY <2>0 DEF SizedBy
  <2>2. PICK j \in DOMAIN list : r = list[j]
    BY <2>1 DEF SelectedContract, CheapestContract, Matching
  <2>3. r.eval \in Nat /\ r.calibrated \in Nat
    BY <2>2, InputAssumption, RingAssumption
  <2> QED BY <1>0, <2>1, <2>3, RowTyped
<1>11. CASE AdoptVerifiedRuntimeRingDim
  <2>1. PICK n : p' = [p EXCEPT !.ring = n, !.adopted = TRUE]
    BY <1>11 DEF AdoptVerifiedRuntimeRingDim
  <2> QED BY <1>0, <2>1 DEF Typed, Shaped, Fields
<1>12. CASE UNCHANGED vars
  BY <1>12 DEF vars
<1> QED
  BY <1>1, <1>2, <1>3, <1>4, <1>5, <1>6, <1>7, <1>8, <1>9, <1>10, <1>11, <1>12 DEF Next, Write

\* An object that rederives its noise has enough of it.
LEMMA RederivedDominates ==
    ASSUME Typed(p), Rederives(p), p.circuit # "Threshold"
    PROVE  /\ p.flood <= MaxBits
           /\ p.flood >= p.eval + p.target.margin + p.target.stat
           /\ Pow2[p.flood - p.eval - p.target.margin - p.target.stat] >=
                 p.target.queries * p.calibrated
<1> DEFINE q == p.target.queries
           N == p.calibrated
<1>1. /\ Derivable(p.target, N, p.eval)
      /\ p.flood = FloodBits(p.target, N, p.eval)
  BY DEF Rederives
<1>2. p.target \in [stat : Nat, queries : Nat, margin : Nat]
  BY InputAssumption DEF Typed
<1>3. /\ p.target.stat \in Nat /\ p.target.margin \in Nat /\ p.eval \in Nat /\ MaxBits \in Nat
      /\ q \in Nat \ {0} /\ N \in Nat \ {0}
  BY <1>1, <1>2, InputAssumption DEF Typed, Derivable, IsPowerOfTwo
<1>4. CeilLog2(q) \in Nat /\ CeilLog2(N) \in Nat
  BY <1>3, CeilLog2Bound
<1>5. p.flood = p.eval + (p.target.stat + CeilLog2(q) + CeilLog2(N)) + p.target.margin
  BY <1>1 DEF FloodBits, CoefficientStatBits
<1>6. p.flood - p.eval - p.target.margin - p.target.stat = CeilLog2(q) + CeilLog2(N)
  BY <1>3, <1>4, <1>5
<1>7. q * N <= Pow2[CeilLog2(q) + CeilLog2(N)]
  BY <1>3, ProductBound
<1>8. q * N \in Int /\ Pow2[CeilLog2(q) + CeilLog2(N)] \in Int
  <2>1. CeilLog2(q) + CeilLog2(N) \in Nat
    BY <1>4
  <2> QED BY <1>3, <2>1, Pow2Unfolds
<1>9. p.flood + 2 <= MaxBits /\ p.flood \in Nat
  BY <1>1, <1>3, <1>4, <1>5 DEF Derivable
<1> HIDE DEF q, N
<1>10. Pow2[p.flood - p.eval - p.target.margin - p.target.stat] >= q * N
  BY <1>6, <1>7, <1>8
<1>11. p.flood >= p.eval + p.target.margin + p.target.stat
  BY <1>3, <1>4, <1>5
<1>12. p.flood <= MaxBits
  BY <1>3, <1>9
<1> QED BY <1>10, <1>11, <1>12 DEF q, N

\* The noise FloodNoiseBits answers with covers the transcript target by its
\* meaning, and does not wrap around in the width of the code.
THEOREM SmudgingAlwaysDominates == Spec => []SmudgingDominates
<1>1. Init => Typed(p)
  BY DEF Init, Typed
<1>2. IInv /\ Typed(p) /\ [Next]_vars => Typed(p)'
  <2> SUFFICES ASSUME IInv, Typed(p), [Next]_vars PROVE Typed(p)'
    OBVIOUS
  <2> QED BY TypedKept DEF Typed
<1>3. IInv /\ Typed(p) => SmudgingDominates
  <2>1. IInv /\ FloodNoiseBitsReturns => Rederives(p)
    BY DEF IInv, FloodNoiseBitsReturns, VerifyValidationSnapshot
  <2> QED BY <2>1, RederivedDominates DEF SmudgingDominates
<1> QED
  BY <1>1, <1>2, <1>3, SpecIInv, PTL DEF Spec

------------------------------------------------------------------------------
(* The lookup does not miss a feasible row *)

\* A row of the table with the key of e, which is not a threshold object, throws
\* on no target for which another row of its key is feasible.
LEMMA NoRowThrows ==
    ASSUME NEW c \in {"OneHot", "Sqrt"}, NEW e, Typed(e), DerivedCircuit(e) = c,
           NEW i \in DOMAIN Table, Table[i].circuit = c,
           e.target.stat \in Supported, e.target.queries \in 1..MaxQueries,
           FloodBits(e.target, Table[i].calibrated, Table[i].eval) + 2 <= Table[i].capacity,
           NEW j \in DOMAIN Table, KeyMatches(Table[j], c, e)
    PROVE  CandidateVerdict(e, Table[j]) # "throws"
<1> DEFINE r == Table[i]
           s == Table[j]
           t == e.target
<1>1. s.circuit = c /\ s.circuit # "Threshold" /\ r.circuit # "Threshold"
  BY DEF KeyMatches
<1>2. CandidateWellFormed(e, s)
  BY <1>1, GeneratedTableAssumption DEF CandidateWellFormed
<1>3. /\ IsPowerOfTwo(s.calibrated) /\ IsPowerOfTwo(r.calibrated)
      /\ r.capacity + s.eval + CeilLog2(s.calibrated) <= MaxBits
  BY <1>1, GeneratedTableAssumption
<1>4. /\ r.eval \in Nat /\ s.eval \in Nat /\ r.capacity \in Int
      /\ r.calibrated \in Nat \ {0} /\ s.calibrated \in Nat \ {0}
  BY <1>3, TableAssumption, RingAssumption DEF Rows, IsPowerOfTwo
<1>5. /\ t.stat \in Nat /\ t.queries \in Nat \ {0} /\ t.margin \in Nat /\ MaxBits \in Nat
  <2>1. t \in [stat : Nat, queries : Nat, margin : Nat]
    BY InputAssumption DEF Typed
  <2> QED BY <2>1, InputAssumption
<1>6. /\ CeilLog2(t.queries) \in Nat /\ CeilLog2(r.calibrated) \in Nat
      /\ CeilLog2(s.calibrated) \in Nat
  BY <1>4, <1>5, CeilLog2Bound
<1> HIDE DEF r, s, t
<1>7. r.eval + (t.stat + CeilLog2(t.queries) + CeilLog2(r.calibrated)) + t.margin + 2 <= r.capacity
  BY DEF FloodBits, CoefficientStatBits, r, t
<1>8. s.eval + (t.stat + CeilLog2(t.queries) + CeilLog2(s.calibrated)) + t.margin + 2 <= MaxBits
  BY <1>3, <1>4, <1>5, <1>6, <1>7
<1>9. Derivable(t, s.calibrated, s.eval)
  BY <1>3, <1>8 DEF Derivable, FloodBits, CoefficientStatBits, t
<1> QED BY <1>2, <1>9 DEF CandidateVerdict, s, t

\* SelectFloodingParams sizes a derived object for which a row is feasible.
LEMMA FeasibleIsChosen ==
    ASSUME NEW c \in {"OneHot", "Sqrt"}, NEW e, Typed(e), e.armed = FALSE,
           DerivedCircuit(e) = c,
           NEW i \in DOMAIN Table, KeyMatches(Table[i], c, e),
           e.target.stat \in Supported, e.target.queries \in 1..MaxQueries,
           FloodBits(e.target, Table[i].calibrated, Table[i].eval) + 2 <= Table[i].capacity,
           SelectFloodingParams(c, e) \/ SelectionRefused(c, e)
    PROVE  sized'
<1>1. Source(c, e) = Table /\ Table[i].circuit = c
  BY DEF Source, KeyMatches
<1>2. ASSUME NEW j \in DOMAIN Table, KeyMatches(Table[j], c, e)
      PROVE  Verdict(c, e, Table[j]) # "throws"
  BY <1>1, <1>2, NoRowThrows DEF Verdict
<1>3. Verdict(c, e, Table[i]) = "feasible"
  BY <1>2 DEF Verdict, CandidateVerdict
<1>4. i \in Stops(c, e)
  BY <1>1, <1>3 DEF Stops
<1>5. PICK j \in Stops(c, e) : \A k \in Stops(c, e) : j <= k
  <2>1. Stops(c, e) \subseteq Nat
    BY <1>1, TableAssumption DEF Stops
  <2> QED BY <1>4, <2>1, LeastNatural
<1>6. Verdict(c, e, Table[j]) = "feasible"
  <2>1. /\ j \in DOMAIN Table /\ KeyMatches(Table[j], c, e)
        /\ Verdict(c, e, Table[j]) # "infeasible"
    BY <1>1 DEF Stops
  <2>2. Verdict(c, e, Table[j]) # "throws"
    BY <1>2, <2>1
  <2> QED BY <2>1, <2>2 DEF Verdict, CandidateVerdict
<1>7. j \in Chosen(c, e)
  BY <1>1, <1>5, <1>6 DEF Chosen
<1>8. ~SelectionRefused(c, e)
  BY <1>7 DEF SelectionRefused, ArmingRefused, PairingRefused
<1>9. SelectFloodingParams(c, e)
  BY <1>8
<1> QED BY <1>9 DEF SelectFloodingParams, SizedBy

\* What FeasibleRow says of an object is what SelectFloodingParams asks of the
\* derived one.
LEMMA FeasibleDerived ==
    ASSUME NEW c \in {"OneHot", "Sqrt"}, NEW e, Shaped(p), Typed(p), Derived(c, e),
           e.shape = p.shape, e.target = p.target, p.threshold = FALSE, e.threshold = FALSE,
           FeasibleRow(c, p)
    PROVE  /\ e.target.stat \in Supported /\ e.target.queries \in 1..MaxQueries
           /\ \E i \in DOMAIN Table :
                 /\ KeyMatches(Table[i], c, e)
                 /\ FloodBits(e.target, Table[i].calibrated, Table[i].eval) + 2
                        <= Table[i].capacity
<1> DEFINE q == [p EXCEPT !.circuit = c]
<1>1. q.circuit = c /\ q.shape = p.shape /\ q.threshold = p.threshold
  BY DEF Shaped, Fields
<1>2. KeyRing(q) = e.ring /\ KeyDepth(q) = e.natural
  BY <1>1 DEF KeyRing, KeyDepth, Derived, PlainDepth
<1> HIDE DEF q
<1>3. PICK i \in DOMAIN Table :
          /\ Table[i].circuit = c /\ Table[i].security = p.shape.security
          /\ Table[i].requested = KeyRing(q) /\ Table[i].natural = KeyDepth(q)
          /\ p.target.stat \in Supported /\ p.target.queries \in 1..MaxQueries
          /\ Table[i].eval + p.target.stat + CeilLog2(p.target.queries)
                + CeilLog2(Table[i].calibrated) + p.target.margin + 2 <= Table[i].capacity
  BY DEF FeasibleRow, q
<1>4. KeyMatches(Table[i], c, e)
  BY <1>2, <1>3 DEF KeyMatches
<1> DEFINE r == Table[i]
           t == p.target
<1>5. r.eval \in Nat /\ r.capacity \in Int /\ r.calibrated \in Nat \ {0}
  <2>1. c # "Threshold"
    OBVIOUS
  <2>2. IsPowerOfTwo(r.calibrated)
    BY <1>3, <2>1, GeneratedTableAssumption
  <2> QED BY <2>2, TableAssumption, RingAssumption DEF Rows, IsPowerOfTwo
<1>6. t.stat \in Nat /\ t.queries \in Nat \ {0} /\ t.margin \in Nat
  <2>1. t \in [stat : Nat, queries : Nat, margin : Nat]
    BY InputAssumption DEF Typed
  <2> QED BY <1>3, <2>1, InputAssumption
<1>7. CeilLog2(t.queries) \in Nat /\ CeilLog2(r.calibrated) \in Nat
  BY <1>5, <1>6, CeilLog2Bound
<1>8. r.eval + t.stat + CeilLog2(t.queries) + CeilLog2(r.calibrated) + t.margin + 2 <= r.capacity
  BY <1>3
<1> HIDE DEF r, t
<1>9. r.eval + (t.stat + CeilLog2(t.queries) + CeilLog2(r.calibrated)) + t.margin + 2 <= r.capacity
  BY <1>5, <1>6, <1>7, <1>8
<1>10. FloodBits(e.target, Table[i].calibrated, Table[i].eval) + 2 <= Table[i].capacity
  BY <1>9 DEF FloodBits, CoefficientStatBits, r, t
<1> QED BY <1>3, <1>4, <1>10

\* The base of the sqrt encoding is a power of two.
LEMMA SqrtBasePositive ==
    ASSUME NEW s \in Shapes, SqrtShape(s) PROVE SqrtBase(s.m) # 0
<1>1. s.m \in Nat \ {0}
  BY InputAssumption DEF SqrtShape
<1>2. CeilLog2(s.m) \in Nat
  BY <1>1, CeilLog2Bound
<1>3. CeilLog2(s.m) \div 2 \in Nat
  BY <1>2
<1> QED BY <1>3, Pow2Positive DEF SqrtBase

\* Validate and ValidateSqrt size the object whenever the table has a feasible
\* row for it: an infeasible cheaper row, an earlier failure or selection, or an
\* adopted ring dimension does not stop them.
THEOREM LookupAlwaysComplete == Spec => LookupComplete
<1>1. Init => Typed(p)
  BY DEF Init, Typed
<1>2. IInv /\ Typed(p) /\ [Next]_vars => Typed(p)'
  <2> SUFFICES ASSUME IInv, Typed(p), [Next]_vars PROVE Typed(p)'
    OBVIOUS
  <2> QED BY TypedKept DEF Typed
<1>3. ASSUME IInv, Typed(p), ~p.threshold, ~p.armed, Validate, p.sqrtBase = 0,
             PlainShape(p.shape), FeasibleRow("OneHot", p)
      PROVE  sized'
  <2> DEFINE e == DeriveWithoutFlooding(p)
  <2>0. Shaped(p) /\ p.threshold = FALSE
    BY <1>3 DEF IInv, Shaped
  <2>1. /\ Shaped(e) /\ e.shape = p.shape /\ e.threshold = p.threshold /\ e.giant = p.giant
        /\ e.armed = p.armed /\ e.target = p.target
        /\ e.natural = PlainDepth(p)
        /\ e.ring = RingFor(p.shape.k * p.shape.m, p.shape.security)
    BY <2>0, PlainDerived
  <2>2. e.sqrtBase = 0
    BY <1>3, <2>0 DEF DeriveWithoutFlooding, ClearFloodingSelection, Shaped, Fields
  <2>3. Typed(e)
    BY <1>3, <2>0, DerivedTyped
  <2>4. CircuitFor(p.threshold) = "OneHot"
    BY <2>0 DEF CircuitFor
  <2>5. SelectFloodingParams("OneHot", e) \/ SelectionRefused("OneHot", e)
    BY <1>3, <2>4 DEF Validate, ValidateOf
  <2> HIDE DEF e
  <2>6. Derived("OneHot", e) /\ e.armed = FALSE
    <3>1. p.armed = FALSE
      BY <1>3, <2>0 DEF Typed
    <3> QED BY <2>1, <3>1 DEF Derived, PlainDepth
  <2>7. DerivedCircuit(e) = "OneHot"
    BY <2>0, <2>1, <2>2 DEF DerivedCircuit
  <2> QED BY <1>3, <2>0, <2>1, <2>3, <2>5, <2>6, <2>7, FeasibleDerived, FeasibleIsChosen
<1>4. ASSUME IInv, Typed(p), ~p.threshold, ~p.armed, ValidateSqrt, SqrtShape(p.shape),
             FeasibleRow("Sqrt", p)
      PROVE  sized'
  <2> DEFINE e == DeriveSqrtWithoutFlooding(p)
  <2>0. Shaped(p) /\ p.threshold = FALSE
    BY <1>4 DEF IInv, Shaped
  <2>1. /\ Shaped(e) /\ e.shape = p.shape /\ e.threshold = p.threshold
        /\ e.armed = p.armed /\ e.target = p.target /\ e.natural = 3
        /\ e.ring = RingFor(p.shape.k * 2 * SqrtBase(p.shape.m), p.shape.security)
    BY <2>0, SqrtDerived
  <2>2. e.sqrtBase = SqrtBase(p.shape.m)
    BY <2>0, SqrtDerived
  <2>3. Typed(e)
    BY <1>4, <2>0, DerivedTyped
  <2>4. SelectFloodingParams("Sqrt", e) \/ SelectionRefused("Sqrt", e)
    BY <1>4 DEF ValidateSqrt
  <2> HIDE DEF e
  <2>5. SqrtBase(p.shape.m) # 0
    BY <1>4, SqrtBasePositive DEF Typed
  <2>6. Derived("Sqrt", e) /\ e.armed = FALSE
    BY <1>4, <2>1 DEF Derived
  <2>7. DerivedCircuit(e) = "Sqrt"
    BY <2>0, <2>1, <2>2, <2>5 DEF DerivedCircuit
  <2> QED BY <1>4, <2>0, <2>1, <2>3, <2>4, <2>6, <2>7, FeasibleDerived, FeasibleIsChosen
<1>5. IInv /\ Typed(p) =>
        (~p.threshold /\ ~p.armed
            /\ (\/ Validate /\ p.sqrtBase = 0 /\ PlainShape(p.shape) /\ FeasibleRow("OneHot", p)
                \/ ValidateSqrt /\ SqrtShape(p.shape) /\ FeasibleRow("Sqrt", p))
         => sized')
  BY <1>3, <1>4
<1> QED
  BY <1>1, <1>2, <1>5, SpecIInv, PTL DEF Spec, LookupComplete

------------------------------------------------------------------------------
(* The slots a rotation reaches *)

\* A smaller power of two divides a larger one at least twice.
LEMMA Pow2Divides ==
    ASSUME NEW a \in Nat, NEW b \in Nat, a < b
    PROVE  /\ 2 * Pow2[a] <= Pow2[b]
           /\ \E q \in Nat : Pow2[b] = q * (2 * Pow2[a])
<1>1. b - (a + 1) \in Nat /\ a + 1 \in Nat \ {0} /\ (b - (a + 1)) + (a + 1) = b /\ (a + 1) - 1 = a
  OBVIOUS
<1>2. Pow2[b] = Pow2[b - (a + 1)] * Pow2[a + 1] /\ Pow2[a + 1] = 2 * Pow2[a]
  BY <1>1, Pow2Sum, Pow2Unfolds
<1>3. Pow2[b - (a + 1)] \in Nat /\ Pow2[b - (a + 1)] # 0 /\ Pow2[a] \in Nat
  BY <1>1, Pow2Unfolds, Pow2Positive
<1>4. \A q \in Nat, x \in Nat : q # 0 => 2 * x <= q * (2 * x)
  OBVIOUS
<1> QED BY <1>2, <1>3, <1>4

\* The logarithm of a power of two is its exponent.
LEMMA CeilLog2OfPower == \A n \in Nat : CeilLog2(Pow2[n]) = n
<1> SUFFICES \A n \in Nat : Shifts[Pow2[n] - 1] = n
  BY DEF CeilLog2
<1> DEFINE S == {n \in Nat : Shifts[Pow2[n] - 1] # n}
<1>1. SUFFICES ASSUME S # {} PROVE FALSE
  OBVIOUS
<1>2. PICK i \in S : \A j \in S : i <= j
  <2>1. S \subseteq Nat
    OBVIOUS
  <2> QED BY <1>1, <2>1, LeastNatural
<1>3. i \in Nat /\ Shifts[Pow2[i] - 1] # i
  OBVIOUS
<1>4. i # 0
  <2>1. Pow2[0] - 1 = 0 /\ Shifts[0] = 0
    BY Pow2Unfolds, ShiftsUnfolds
  <2> QED BY <1>3, <2>1
<1>5. i - 1 \in Nat /\ ~(i <= i - 1)
  BY <1>3, <1>4
<1>6. Shifts[Pow2[i - 1] - 1] = i - 1
  BY <1>2, <1>5
<1> DEFINE h == Pow2[i - 1]
<1>7. h \in Nat /\ h # 0 /\ Pow2[i] = 2 * h
  BY <1>3, <1>4, <1>5, Pow2Unfolds, Pow2Positive
<1> HIDE DEF h
<1>8. Pow2[i] - 1 \in Nat \ {0} /\ (Pow2[i] - 1) \div 2 = h - 1
  BY <1>7
<1>9. Shifts[Pow2[i] - 1] = 1 + Shifts[h - 1]
  BY <1>8, ShiftsUnfolds
<1> QED BY <1>3, <1>6, <1>9 DEF h

\* A ring of two halves.
Half == ring_dim \div 2
EvenRing == Half \in Nat /\ Half # 0 /\ ring_dim = 2 * Half

\* Where a rotation fetches a slot from, without division.
LEMMA RotatedLinear ==
    ASSUME EvenRing,
           NEW i \in Slots, NEW s \in 0..(ring_dim - 1)
    PROVE  /\ layout = "Cycle" =>
                  RotatedFrom(i, s) = IF i + s < ring_dim THEN i + s ELSE i + s - ring_dim
           /\ layout # "Cycle" /\ (i < Half \/ s < Half) =>
                  RotatedFrom(i, s) = IF i < Half /\ s < Half
                                      THEN IF i + s < Half THEN i + s ELSE i + s - Half
                                      ELSE IF i + s < ring_dim THEN i + s ELSE i + s - Half
           /\ layout # "Cycle" /\ i >= Half /\ s >= Half =>
                  RotatedFrom(i, s) = IF i + s < 3 * Half THEN i + s - ring_dim ELSE i + s - 3 * Half
<1> USE DEF EvenRing
<1>1. i \in Nat /\ i < 2 * Half /\ s \in Nat /\ s < 2 * Half
  BY DEF Slots
<1>2. ring_dim \div 2 = Half
  BY DEF Half
<1>3. i + s \in Nat
  BY <1>1
<1>7. CASE layout = "Cycle"
  <2>1. RotatedFrom(i, s) = (i + s) % ring_dim
    BY <1>7 DEF RotatedFrom
  <2>2. i + s < ring_dim => (i + s) % ring_dim = i + s
    BY <1>3
  <2>3. i + s >= ring_dim => (i + s) % ring_dim = i + s - ring_dim
    BY <1>1, <1>3
  <2> QED BY <1>1, <1>7, <2>1, <2>2, <2>3
<1>8. CASE layout # "Cycle"
  <2>1. RotatedFrom(i, s) =
          (IF s >= Half THEN 1 - (i \div Half) ELSE i \div Half) * Half + ((i + s) % Half)
    BY <1>2, <1>8 DEF RotatedFrom
  <2>2. i \div Half = IF i < Half THEN 0 ELSE 1
    BY <1>1
  <2>3. (i + s) % Half = IF i + s < Half THEN i + s ELSE IF i + s < 2 * Half THEN i + s - Half
                      ELSE IF i + s < 3 * Half THEN i + s - 2 * Half ELSE i + s - 3 * Half
    BY <1>1, <1>3
  <2>4. (1 - 0) * Half = Half /\ (1 - 1) * Half = 0 /\ 0 * Half = 0 /\ 1 * Half = Half
    OBVIOUS
  <2>5. CASE s >= Half
    BY <1>1, <1>8, <2>1, <2>2, <2>3, <2>4, <2>5
  <2>6. CASE ~(s >= Half)
    BY <1>1, <1>8, <2>1, <2>2, <2>3, <2>4, <2>6
  <2> QED BY <2>5, <2>6
<1> QED BY <1>7, <1>8

\* Different distances reach different slots.
LEMMA RotatedInjective ==
    ASSUME EvenRing, NEW i \in Slots,
           NEW s \in 0..(ring_dim - 1), NEW t \in 0..(ring_dim - 1),
           RotatedFrom(i, s) = RotatedFrom(i, t)
    PROVE  s = t
<1> USE DEF EvenRing
<1>1. i \in Nat /\ i < 2 * Half /\ s \in Nat /\ s < 2 * Half /\ t \in Nat /\ t < 2 * Half
  BY DEF Slots
<1> QED BY <1>1, RotatedLinear

\* A rotation stays in the ring,
LEMMA RotatedType ==
    ASSUME EvenRing, NEW i \in Slots,
           NEW s \in 0..(ring_dim - 1)
    PROVE  RotatedFrom(i, s) \in Slots
<1> USE DEF EvenRing
<1>1. i \in Nat /\ i < 2 * Half /\ s \in Nat /\ s < 2 * Half
  BY DEF Slots
<1> QED BY <1>1, RotatedLinear DEF Slots

\* and rotations add up, where the second stays below the first.
LEMMA RotatedTwice ==
    ASSUME EvenRing, NEW i \in Slots,
           NEW s \in 1..Half, 2 * s <= Half \/ s = Half, NEW r \in 0..(s - 1)
    PROVE  RotatedFrom(RotatedFrom(i, s), r) = RotatedFrom(i, s + r)
<1> USE DEF EvenRing
<1>1. i \in Nat /\ i < 2 * Half /\ s \in Nat /\ s < 2 * Half /\ r \in Nat /\ s + r < 2 * Half
  BY DEF Slots
<1>2. /\ s \in 0..(ring_dim - 1) /\ r \in 0..(ring_dim - 1) /\ s + r \in 0..(ring_dim - 1)
  BY <1>1
<1> DEFINE j == RotatedFrom(i, s)
<1>3. j \in Slots /\ j \in Nat /\ j < 2 * Half
  BY <1>2, RotatedType DEF Slots
<1>4. CASE layout = "Cycle"
  BY <1>1, <1>2, <1>3, <1>4, RotatedLinear
<1>5. CASE layout # "Cycle" /\ s = Half
  BY <1>1, <1>2, <1>3, <1>5, RotatedLinear
<1>6. CASE layout # "Cycle" /\ 2 * s <= Half
  BY <1>1, <1>2, <1>3, <1>6, RotatedLinear
<1> QED BY <1>4, <1>5, <1>6

\* The slots that fewer than s single steps reach from slot i.
Window(i, s) == {RotatedFrom(i, r) : r \in 0..(s - 1)}

\* Windows of one and of all slots.
LEMMA WindowEnds ==
    ASSUME EvenRing
    PROVE  /\ \A i \in Slots : Window(i, 1) = {i}
           /\ Window(0, ring_dim) = Slots
<1> USE DEF EvenRing
<1>1. ASSUME NEW i \in Slots PROVE RotatedFrom(i, 0) = i
  <2>1. 0 \in 0..(ring_dim - 1) /\ i \in Nat /\ i < 2 * Half /\ i + 0 = i
    BY DEF Slots
  <2>2. PICK s \in 0..(ring_dim - 1) : s = 0
    BY <2>1
  <2>3. RotatedFrom(i, s) = i
    BY <2>1, <2>2, RotatedLinear
  <2> QED BY <2>2, <2>3
<1>2. ASSUME NEW i \in Slots PROVE Window(i, 1) = {i}
  <2>1. 0..(1 - 1) = {0}
    OBVIOUS
  <2> QED BY <1>1, <2>1 DEF Window
<1>3. ASSUME NEW r \in 0..(ring_dim - 1) PROVE RotatedFrom(0, r) = r
  <2>1. 0 \in Slots /\ r \in Nat /\ r < 2 * Half
    BY DEF Slots
  <2> QED BY <2>1, RotatedLinear
<1>4. Window(0, ring_dim) = Slots
  BY <1>3 DEF Window, Slots
<1> QED BY <1>2, <1>4

\* The window of twice the size is the window and the one its last rotation reaches.
LEMMA WindowDoubles ==
    ASSUME EvenRing,
           NEW i \in Slots, NEW s \in 1..Half, 2 * s <= Half \/ s = Half
    PROVE  /\ Window(i, 2 * s) = Window(i, s) \cup Window(RotatedFrom(i, s), s)
           /\ Window(i, s) \cap Window(RotatedFrom(i, s), s) = {}
<1> USE DEF EvenRing
<1>1. 0..(2 * s - 1) = 0..(s - 1) \cup {s + r : r \in 0..(s - 1)}
  <2>1. ASSUME NEW r \in 0..(2 * s - 1), r \notin 0..(s - 1)
        PROVE  r - s \in 0..(s - 1) /\ r = s + (r - s)
    BY <2>1
  <2> QED BY <2>1
<1>2. \A r \in 0..(s - 1) : RotatedFrom(RotatedFrom(i, s), r) = RotatedFrom(i, s + r)
  BY RotatedTwice
<1>3. \A r \in 0..(s - 1), t \in 0..(s - 1) :
          r \in 0..(ring_dim - 1) /\ s + t \in 0..(ring_dim - 1) /\ r # s + t
  OBVIOUS
<1>4. Window(i, 2 * s) = Window(i, s) \cup Window(RotatedFrom(i, s), s)
  BY <1>1, <1>2 DEF Window
<1>5. ASSUME NEW r \in 0..(s - 1), NEW t \in 0..(s - 1)
      PROVE  RotatedFrom(i, r) # RotatedFrom(i, s + t)
  BY <1>3, RotatedInjective
<1> QED BY <1>2, <1>4, <1>5 DEF Window

\* So the members of a set in it are those in the two.
LEMMA WindowCounts ==
    ASSUME EvenRing,
           NEW i \in Slots, NEW s \in 1..Half, 2 * s <= Half \/ s = Half,
           NEW S, IsFiniteSet(S)
    PROVE  /\ Cardinality(S \cap Window(i, 2 * s)) \in 0..Cardinality(S)
           /\ Cardinality(S) \in Nat
           /\ Cardinality(S \cap Window(i, 2 * s))
                = Cardinality(S \cap Window(i, s))
                  + Cardinality(S \cap Window(RotatedFrom(i, s), s))
<1> USE DEF EvenRing
<1> DEFINE A == S \cap Window(i, s)
           B == S \cap Window(RotatedFrom(i, s), s)
           C == S \cap Window(i, 2 * s)
<1>1. C = A \cup B /\ A \cap B = {}
  BY WindowDoubles
<1>2. IsFiniteSet(A) /\ IsFiniteSet(B) /\ IsFiniteSet(C) /\ Cardinality(C) <= Cardinality(S)
  BY FS_Intersection
<1> HIDE DEF A, B, C
<1>3. Cardinality(C) = Cardinality(A) + Cardinality(B) - Cardinality({})
  BY <1>1, <1>2, FS_Union
<1>4. /\ Cardinality(A) \in Nat /\ Cardinality(B) \in Nat /\ Cardinality(C) \in Nat
      /\ Cardinality(S) \in Nat /\ Cardinality({}) = 0
  BY <1>2, FS_CardinalityType, FS_EmptySet
<1>5. /\ Cardinality(C) \in 0..Cardinality(S) /\ Cardinality(S) \in Nat
      /\ Cardinality(C) = Cardinality(A) + Cardinality(B)
  BY <1>2, <1>3, <1>4
<1> QED BY <1>5 DEF A, B, C

Aligned(i, d) == \E q \in Nat : i = q * d

\* Rotations by multiples of a distance lead from multiples to multiples.
LEMMA RotatedAligned ==
    ASSUME EvenRing,
           NEW i \in Slots, NEW s \in 0..(ring_dim - 1), NEW d \in Nat,
           Aligned(i, d), Aligned(s, d), Aligned(Half, d)
    PROVE  Aligned(RotatedFrom(i, s), d)
<1> USE DEF EvenRing
<1>1. PICK a \in Nat, b \in Nat, c \in Nat : i = a * d /\ s = b * d /\ Half = c * d
  BY DEF Aligned
<1>2. i + s = (a + b) * d /\ ring_dim = (2 * c) * d /\ 3 * Half = (3 * c) * d
  BY <1>1
<1>3. RotatedFrom(i, s) \in {i + s, i + s - ring_dim, i + s - Half, i + s - 3 * Half}
  <2>1. i \in Nat /\ i < 2 * Half
    BY DEF Slots
  <2> QED BY <2>1, RotatedLinear
<1>4. RotatedFrom(i, s) \in Nat
  BY RotatedType DEF Slots
<1>5. d # 0
  BY <1>1
<1>6. \A x \in Int : x * d \in Nat => x \in Nat
  BY <1>5
<1>7. \E x \in Int : RotatedFrom(i, s) = x * d
  <2>1. /\ i + s - ring_dim = (a + b - 2 * c) * d /\ i + s - Half = (a + b - c) * d
        /\ i + s - 3 * Half = (a + b - 3 * c) * d
    BY <1>1, <1>2
  <2>2. a + b \in Int /\ a + b - 2 * c \in Int /\ a + b - c \in Int /\ a + b - 3 * c \in Int
    OBVIOUS
  <2> QED BY <1>2, <1>3, <2>1, <2>2
<1> QED BY <1>4, <1>6, <1>7 DEF Aligned

\* Slot i of c holds the number of members of S in its window, for every multiple i of d.
Counts(c, S, d, s) ==
    \A i \in Slots : Aligned(i, d) => c.slots[i] = Cardinality(S \cap Window(i, s))

IsCiphertext(c) == c = [slots |-> c.slots, depth |-> c.depth]

\* What a pass of rotate-and-add does to the counts.
LEMMA RotationCounts ==
    ASSUME EvenRing,
           NEW s \in 1..Half, 2 * s <= Half \/ s = Half,
           NEW d \in Nat, Aligned(s, d), Aligned(Half, d),
           NEW S, IsFiniteSet(S), NEW c, IsCiphertext(c), Counts(c, S, d, s),
           plaintext_mod \in Nat, Cardinality(S) < plaintext_mod
    PROVE  Counts(Add(c, Rotate(c, s)), S, d, 2 * s)
<1> USE DEF EvenRing
<1> SUFFICES ASSUME NEW i \in Slots, Aligned(i, d)
             PROVE  Add(c, Rotate(c, s)).slots[i] = Cardinality(S \cap Window(i, 2 * s))
  BY DEF Counts
<1>1. s \in 0..(ring_dim - 1)
  OBVIOUS
<1>2. RotatedFrom(i, s) \in Slots /\ Aligned(RotatedFrom(i, s), d)
  BY <1>1, RotatedType, RotatedAligned
<1>3. Rotate(c, s).slots = [j \in Slots |-> c.slots[RotatedFrom(j, s)]]
  BY DEF Rotate, IsCiphertext
<1>4. Add(c, Rotate(c, s)).slots[i] = (c.slots[i] + Rotate(c, s).slots[i]) % plaintext_mod
  BY DEF Add
<1>5. Add(c, Rotate(c, s)).slots[i]
        = (c.slots[i] + c.slots[RotatedFrom(i, s)]) % plaintext_mod
  BY <1>3, <1>4
<1>6. /\ c.slots[i] = Cardinality(S \cap Window(i, s))
      /\ c.slots[RotatedFrom(i, s)] = Cardinality(S \cap Window(RotatedFrom(i, s), s))
  BY <1>2 DEF Counts
<1>7. c.slots[i] + c.slots[RotatedFrom(i, s)] = Cardinality(S \cap Window(i, 2 * s))
  <2>1. Cardinality(S \cap Window(i, 2 * s))
           = Cardinality(S \cap Window(i, s)) + Cardinality(S \cap Window(RotatedFrom(i, s), s))
    BY WindowCounts
  <2> QED BY <1>6, <2>1
<1>8. /\ Cardinality(S \cap Window(i, 2 * s)) \in 0..Cardinality(S)
      /\ Cardinality(S) \in Nat
  BY WindowCounts
<1>9. \A x \in Nat : x < plaintext_mod => x % plaintext_mod = x
  OBVIOUS
<1> QED BY <1>5, <1>7, <1>8, <1>9

------------------------------------------------------------------------------
(* Powers of two that a loop runs through *)

LEMMA PowersOfTwo ==
    /\ \A e \in Nat : IsPowerOfTwo(Pow2[e]) /\ Pow2[e] \in Nat
    /\ \A n \in Nat : IsPowerOfTwo(n) => n # 0 /\ \E e \in Nat : n = Pow2[e]
<1>1. ASSUME NEW e \in Nat PROVE IsPowerOfTwo(Pow2[e]) /\ Pow2[e] \in Nat
  <2>1. Pow2[e] \in Nat /\ Pow2[e] # 0
    BY Pow2Unfolds, Pow2Positive
  <2>2. CeilLog2(Pow2[e]) = e
    BY CeilLog2OfPower
  <2>3. Pow2[e] > 0
    BY <2>1
  <2> QED BY <2>1, <2>2, <2>3 DEF IsPowerOfTwo
<1>2. ASSUME NEW n \in Nat, IsPowerOfTwo(n) PROVE n # 0 /\ \E e \in Nat : n = Pow2[e]
  <2>1. n \in Nat \ {0} /\ Pow2[CeilLog2(n)] = n
    BY <1>2 DEF IsPowerOfTwo
  <2>2. CeilLog2(n) \in Nat
    BY <2>1, CeilLog2Bound
  <2> QED BY <2>1, <2>2
<1> QED BY <1>1, <1>2

\* The smaller of two divides the larger, and twice it still fits.
LEMMA PowersDivide ==
    ASSUME NEW a \in Nat, NEW b \in Nat, IsPowerOfTwo(a), IsPowerOfTwo(b)
    PROVE  /\ a < b => 2 * a <= b /\ Aligned(b, 2 * a)
           /\ a <= b => Aligned(b, a)
           /\ IsPowerOfTwo(2 * a)
           /\ b # 1 => \E h \in Nat : IsPowerOfTwo(h) /\ b = 2 * h
<1>1. PICK d \in Nat, e \in Nat : a = Pow2[d] /\ b = Pow2[e]
  BY PowersOfTwo
<1>3. e < d => b < a
  BY <1>1, Pow2Divides, PowersOfTwo
<1>4. a = b => Aligned(b, a)
  BY DEF Aligned
<1>5. a < b => 2 * a <= b /\ Aligned(b, 2 * a)
  <2>1. a < b => d < e
    BY <1>1, <1>3
  <2> QED BY <1>1, <2>1, Pow2Divides DEF Aligned
<1>6. a <= b => Aligned(b, a)
  <2>1. Aligned(b, 2 * a) => Aligned(b, a)
    <3>1. ASSUME NEW q \in Nat, b = q * (2 * a) PROVE 2 * q \in Nat /\ b = (2 * q) * a
      BY <3>1
    <3> QED BY <3>1 DEF Aligned
  <2>2. a <= b => a < b \/ a = b
    OBVIOUS
  <2> QED BY <1>4, <1>5, <2>1, <2>2
<1>7. IsPowerOfTwo(2 * a)
  <2>1. d + 1 \in Nat \ {0} /\ (d + 1) - 1 = d
    OBVIOUS
  <2>2. 2 * a = Pow2[d + 1]
    BY <1>1, <2>1, Pow2Unfolds
  <2> QED BY <2>1, <2>2, PowersOfTwo
<1>8. b # 1 => \E h \in Nat : IsPowerOfTwo(h) /\ b = 2 * h
  <2>1. b # 1 => e # 0
    BY <1>1, Pow2Unfolds
  <2>2. e # 0 => e - 1 \in Nat /\ b = 2 * Pow2[e - 1]
    BY <1>1, Pow2Unfolds
  <2> QED BY <2>1, <2>2, PowersOfTwo
<1> QED BY <1>5, <1>6, <1>7, <1>8

\* The two halves of a ring whose dimension is a power of two, and a shift below it.
LEMMA ShiftInRing ==
    ASSUME ring_dim \in Nat, IsPowerOfTwo(ring_dim), ring_dim # 1
    PROVE  /\ EvenRing /\ IsPowerOfTwo(Half)
           /\ \A s \in Nat : IsPowerOfTwo(s) /\ s < ring_dim =>
                  /\ s \in 1..Half /\ (2 * s <= Half \/ s = Half)
                  /\ Aligned(Half, s)
                  /\ IsPowerOfTwo(2 * s) /\ 2 * s <= ring_dim
<1>1. PICK h \in Nat : IsPowerOfTwo(h) /\ ring_dim = 2 * h
  BY PowersDivide
<1>2. h # 0
  BY <1>1, PowersOfTwo
<1>3. Half = h
  BY <1>1 DEF Half
<1>4. EvenRing
  BY <1>1, <1>2, <1>3 DEF EvenRing
<1>5. ASSUME NEW s \in Nat, IsPowerOfTwo(s), s < ring_dim
      PROVE  /\ s \in 1..Half /\ (2 * s <= Half \/ s = Half)
             /\ Aligned(Half, s)
             /\ IsPowerOfTwo(2 * s) /\ 2 * s <= ring_dim
  <2>1. 2 * s <= ring_dim /\ IsPowerOfTwo(2 * s) /\ s # 0
    BY <1>5, PowersDivide, PowersOfTwo
  <2>2. s <= h
    BY <1>1, <2>1
  <2>3. (s < h => 2 * s <= h) /\ Aligned(h, s)
    BY <1>1, <1>5, <2>2, PowersDivide
  <2> QED BY <1>3, <2>1, <2>2, <2>3
<1> QED BY <1>1, <1>3, <1>4, <1>5

\* Blocks of width m: a position names its block and its offset, and k blocks fill k * m.
LEMMA BlockUnique ==
    ASSUME NEW m \in Nat, NEW a \in Nat, NEW b \in Nat,
           NEW u \in 0..(m - 1), NEW v \in 0..(m - 1), a * m + u = b * m + v
    PROVE  a = b /\ u = v
OBVIOUS

LEMMA BlockBelow ==
    ASSUME NEW m \in Nat, NEW k \in Nat, NEW c \in 0..(k - 1), NEW u \in 0..(m - 1)
    PROVE  c * m + u \in Nat /\ c * m + u < k * m
<1>1. \A a, b \in Nat : a < b => a * m + m <= b * m
  <2>1. ASSUME NEW a \in Nat, NEW b \in Nat, a < b PROVE a * m + m <= b * m
    BY <2>1
  <2> QED BY <2>1
<1>2. c \in Nat /\ c < k /\ c * m \in Nat /\ k * m \in Nat
  OBVIOUS
<1>3. c * m + m <= k * m
  BY <1>1, <1>2
<1> QED BY <1>2, <1>3

\* A window that starts at a multiple of its size is an interval.
LEMMA AlignedWindow ==
    ASSUME EvenRing, NEW i \in Slots, NEW s \in 1..Half, Aligned(i, s), Aligned(Half, s)
    PROVE  Window(i, s) = i..(i + s - 1) /\ i + s <= ring_dim
<1> USE DEF EvenRing
<1>1. i \in Nat /\ i < 2 * Half /\ s \in Nat /\ s # 0
  BY DEF Slots
<1>2. PICK a \in Nat, b \in Nat : i = a * s /\ Half = b * s
  BY DEF Aligned
<1>3. \A x, y \in Nat : x < y => x * s + s <= y * s
  <2>1. ASSUME NEW x \in Nat, NEW y \in Nat, x < y PROVE x * s + s <= y * s
    BY <2>1
  <2> QED BY <2>1
<1>4. \A x, y \in Nat : x * s < y * s => x < y
  <2>1. ASSUME NEW x \in Nat, NEW y \in Nat, x * s < y * s PROVE x < y
    BY <2>1
  <2> QED BY <2>1
<1>5. i < Half => i + s <= Half
  BY <1>2, <1>3, <1>4
<1>6. i + s <= ring_dim
  <2>1. ring_dim = (2 * b) * s /\ 2 * b \in Nat
    BY <1>2
  <2> QED BY <1>1, <1>2, <1>3, <1>4, <2>1
<1>7. ASSUME NEW r \in 0..(s - 1) PROVE RotatedFrom(i, r) = i + r
  <2>1. r \in 0..(ring_dim - 1) /\ r < Half /\ r \in Nat
    BY <1>1
  <2>2. i + r < ring_dim /\ (i < Half => i + r < Half)
    BY <1>1, <1>5, <1>6, <2>1
  <2> QED BY <1>1, <2>1, <2>2, RotatedLinear
<1>8. i..(i + s - 1) = {i + r : r \in 0..(s - 1)}
  <2>1. ASSUME NEW x \in i..(i + s - 1) PROVE x - i \in 0..(s - 1) /\ x = i + (x - i)
    BY <1>1
  <2>2. ASSUME NEW r \in 0..(s - 1) PROVE i + r \in i..(i + s - 1)
    BY <1>1
  <2> QED BY <2>1, <2>2
<1> QED BY <1>6, <1>7, <1>8 DEF Window

\* From a multiple of 2s, a rotation by s goes to the other half of the block.
LEMMA RotatedInBlock ==
    ASSUME EvenRing, NEW i \in Slots, NEW s \in 1..Half, Aligned(i, 2 * s),
           Aligned(Half, 2 * s) \/ s = Half
    PROVE  RotatedFrom(i, s) = i + s /\ i + 2 * s <= ring_dim
<1> USE DEF EvenRing
<1>1. i \in Nat /\ i < 2 * Half /\ s \in Nat /\ s # 0 /\ s \in 0..(ring_dim - 1)
  BY DEF Slots
<1>2. \A x, y \in Nat : x * (2 * s) < y * (2 * s) => x * (2 * s) + 2 * s <= y * (2 * s)
  <2>1. ASSUME NEW x \in Nat, NEW y \in Nat, x * (2 * s) < y * (2 * s)
        PROVE  x * (2 * s) + 2 * s <= y * (2 * s)
    <3>1. x < y
      BY <1>1, <2>1
    <3> QED BY <1>1, <3>1
  <2> QED BY <2>1
<1>3. PICK a \in Nat : i = a * (2 * s)
  BY DEF Aligned
<1>4. CASE s = Half
  <2>1. a = 0
    BY <1>1, <1>3, <1>4
  <2>2. i = 0
    BY <1>3, <2>1
  <2> QED BY <1>1, <1>4, <2>2, RotatedLinear
<1>5. CASE Aligned(Half, 2 * s) /\ s # Half
  <2>1. PICK b \in Nat : Half = b * (2 * s)
    BY <1>5 DEF Aligned
  <2>2. i < Half => i + 2 * s <= Half
    BY <1>2, <1>3, <2>1
  <2>3. ring_dim = (2 * b) * (2 * s) /\ 2 * b \in Nat
    BY <2>1
  <2>4. i + 2 * s <= ring_dim
    BY <1>1, <1>2, <1>3, <2>3
  <2> QED BY <1>1, <1>5, <2>2, <2>4, RotatedLinear
<1> QED BY <1>4, <1>5

------------------------------------------------------------------------------
(* The encodings *)

\* Coordinates of two signatures that fall into one bucket.
Agreeing(X, Y) == {c \in 0..(inst.k - 1) : X[c] % inst.m = Y[c] % inst.m}

\* What CircuitInit establishes of the parameters.
Sized ==
    /\ inst \in Instances
    /\ ring_dim \in Nat /\ IsPowerOfTwo(ring_dim) /\ ring_dim # 1
    /\ Features <= ring_dim
    /\ plaintext_mod \in Nat /\ plaintext_mod > 2 * ring_dim

LEMMA InstanceShape ==
    ASSUME inst \in Instances
    PROVE  /\ inst.k \in Nat /\ inst.k # 0 /\ inst.m \in Nat /\ inst.m > 1
           /\ inst.circuit = "Sqrt" => /\ Base \in Nat /\ Base > 1 /\ IsPowerOfTwo(Base)
                                       /\ inst.m = Base * Base
<1>1. /\ inst.k \in Nat /\ inst.k # 0 /\ inst.m \in Nat /\ inst.m > 1
  BY InstanceAssumption
<1>2. ASSUME inst.circuit = "Sqrt"
      PROVE  /\ Base \in Nat /\ Base > 1 /\ IsPowerOfTwo(Base) /\ inst.m = Base * Base
  <2>1. PICK b \in 1..inst.m : inst.m = b * b /\ IsPowerOfTwo(b) /\ b > 1
    BY <1>2, InstanceAssumption
  <2>2. b \in Nat
    BY <1>1
  <2>3. PICK e \in Nat : b = Pow2[e]
    BY <2>1, <2>2, PowersOfTwo
  <2>4. inst.m = Pow2[e + e]
    BY <2>1, <2>3, Pow2Sum
  <2>5. CeilLog2(inst.m) = e + e
    BY <2>4, CeilLog2OfPower
  <2>6. (e + e) \div 2 = e
    OBVIOUS
  <2>7. Base = b
    BY <2>3, <2>5, <2>6 DEF Base
  <2> QED BY <2>1, <2>2, <2>7
<1> QED BY <1>1, <1>2

\* A set of slots is finite, and has fewer members than p.
LEMMA SlotSets ==
    ASSUME Sized, NEW S, S \subseteq Slots
    PROVE  /\ IsFiniteSet(S) /\ Cardinality(S) \in 0..ring_dim
           /\ Cardinality(S) < plaintext_mod
<1>1. ring_dim \in Nat /\ ring_dim # 0 /\ plaintext_mod \in Nat /\ plaintext_mod > 2 * ring_dim
  BY PowersOfTwo DEF Sized
<1>2. 0 \in Int /\ ring_dim - 1 \in Int /\ ~(0 > ring_dim - 1) /\ (ring_dim - 1) - 0 + 1 = ring_dim
  BY <1>1
<1>3. IsFiniteSet(0..(ring_dim - 1)) /\ Cardinality(0..(ring_dim - 1)) = (ring_dim - 1) - 0 + 1
  BY <1>2, FS_Interval, Zenon
<1>4. IsFiniteSet(Slots) /\ Cardinality(Slots) = ring_dim
  BY <1>2, <1>3 DEF Slots
<1>5. IsFiniteSet(S) /\ Cardinality(S) <= Cardinality(Slots)
  BY <1>4, FS_Subset
<1>6. Cardinality(S) \in Nat
  BY <1>5, FS_CardinalityType
<1> QED BY <1>1, <1>4, <1>5, <1>6

\* Members of S under an injection.
LEMMA SameCardinality ==
    ASSUME NEW S, NEW T, IsFiniteSet(S), NEW f \in [S -> T],
           \A a, b \in S : f[a] = f[b] => a = b,
           \A t \in T : \E a \in S : f[a] = t
    PROVE  Cardinality(T) = Cardinality(S)
<1>1. f \in Bijection(S, T)
  BY DEF Bijection, Injection, IsInjective, Surjection
<1> QED BY <1>1, FS_Bijection DEF ExistsBijection

LEMMA AgreeingFinite ==
    ASSUME inst \in Instances, NEW X, NEW Y
    PROVE  IsFiniteSet(Agreeing(X, Y))
<1>1. inst.k \in Nat
  BY InstanceShape
<1>2. 0 \in Int /\ inst.k - 1 \in Int
  BY <1>1
<1>3. IsFiniteSet(0..(inst.k - 1))
  BY <1>2, FS_Interval, Zenon
<1> QED BY <1>3, FS_Subset DEF Agreeing

\* The one-hot encodings of two signatures share one slot per agreeing coordinate.
LEMMA OneHotCommon ==
    ASSUME Sized, inst.circuit # "Sqrt",
           NEW X \in [0..(inst.k - 1) -> Nat], NEW Y \in [0..(inst.k - 1) -> Nat]
    PROVE  LET S == OneHotSlots(X) \cap OneHotSlots(Y)
           IN  S \subseteq Slots /\ Cardinality(S) = Cardinality(Agreeing(X, Y))
<1> DEFINE k == inst.k
           m == inst.m
           S == OneHotSlots(X) \cap OneHotSlots(Y)
           E == Agreeing(X, Y)
           f == [c \in E |-> c * m + (X[c] % m)]
<1>1. k \in Nat /\ m \in Nat /\ m # 0 /\ k * m <= ring_dim /\ ring_dim \in Nat
  BY InstanceShape DEF Sized, Features
<1>2. \A c \in 0..(k - 1) : c \in Nat /\ X[c] \in Nat /\ Y[c] \in Nat
  OBVIOUS
<1>3. E \subseteq 0..(k - 1) /\ \A c \in 0..(k - 1) : c \in E <=> X[c] % m = Y[c] % m
  BY DEF Agreeing
<1>4. /\ \A x : x \in OneHotSlots(X) <=> \E c \in 0..(k - 1) : x = c * m + (X[c] % m)
      /\ \A x : x \in OneHotSlots(Y) <=> \E c \in 0..(k - 1) : x = c * m + (Y[c] % m)
  BY DEF OneHotSlots
<1> HIDE DEF k, m
<1>5. \A c \in 0..(k - 1) : X[c] % m \in 0..(m - 1) /\ Y[c] % m \in 0..(m - 1)
  <2>1. \A x \in Nat : x % m \in 0..(m - 1)
    BY <1>1
  <2> QED BY <1>2, <2>1
<1>6. \A c, b \in 0..(k - 1), u, v \in 0..(m - 1) : c * m + u = b * m + v => c = b /\ u = v
  BY <1>1, <1>2, BlockUnique
<1>7. S \subseteq Slots
  <2>1. \A c \in 0..(k - 1), u \in 0..(m - 1) : c * m + u \in Nat /\ c * m + u < k * m
    BY <1>1, BlockBelow
  <2>2. k * m \in Nat
    BY <1>1
  <2>3. ASSUME NEW t \in S PROVE t \in 0..(ring_dim - 1)
    <3>1. PICK c \in 0..(k - 1) : t = c * m + (X[c] % m)
      BY <1>4
    <3>2. t \in Nat /\ t < k * m
      BY <1>5, <2>1, <3>1
    <3> QED BY <1>1, <2>2, <3>2
  <2> QED BY <2>3 DEF Slots
<1>8. f \in [E -> S]
  BY <1>3, <1>4
<1>9. \A a, b \in E : f[a] = f[b] => a = b
  BY <1>3, <1>5, <1>6
<1>10. \A t \in S : \E a \in E : f[a] = t
  <2>1. ASSUME NEW t \in S PROVE \E a \in E : f[a] = t
    <3>1. PICK a \in 0..(k - 1) : t = a * m + (X[a] % m)
      BY <1>4
    <3>2. PICK b \in 0..(k - 1) : t = b * m + (Y[b] % m)
      BY <1>4
    <3>3. a = b /\ X[a] % m = Y[b] % m
      BY <1>5, <1>6, <3>1, <3>2
    <3> QED BY <1>3, <3>1, <3>3
  <2> QED BY <2>1
<1> HIDE DEF f
<1>11. Cardinality(S) = Cardinality(E)
  <2>1. IsFiniteSet(E)
    BY AgreeingFinite DEF Sized
  <2> HIDE DEF S, E
  <2> QED BY <1>8, <1>9, <1>10, <2>1, SameCardinality
<1> QED BY <1>7, <1>11

\* A coordinate's block in the two-digit encoding is twice the base; sums of the
\* digits' slots are below it.
LEMMA Digits ==
    ASSUME NEW B \in Nat, B # 0, NEW x \in Nat, NEW y \in Nat
    PROVE  /\ (x % (B * B)) % B \in 0..(B - 1)
           /\ (x % (B * B)) \div B \in 0..(B - 1)
           /\ (x % (B * B)) % B = (y % (B * B)) % B /\ (x % (B * B)) \div B = (y % (B * B)) \div B
                => x % (B * B) = y % (B * B)
<1>1. B * B \in Nat /\ B * B # 0
  OBVIOUS
<1>2. \A a \in Nat : a % (B * B) \in Nat /\ a % (B * B) < B * B
  BY <1>1
<1> DEFINE u == x % (B * B)
           v == y % (B * B)
<1>3. u \in Nat /\ v \in Nat /\ u < B * B /\ v < B * B
  BY <1>2
<1> HIDE DEF u, v
<1>4. u = B * (u \div B) + (u % B) /\ v = B * (v \div B) + (v % B)
  BY <1>3
<1>5. u % B \in 0..(B - 1)
  BY <1>3
<1>6. u \div B \in 0..(B - 1)
  <2>1. u \div B \in Nat
    BY <1>3
  <2>2. \A q \in Nat : q >= B => B * q >= B * B
    OBVIOUS
  <2>3. ~(u \div B >= B)
    BY <1>3, <1>4, <1>5, <2>1, <2>2
  <2> QED BY <2>1, <2>3
<1> QED BY <1>4, <1>5, <1>6 DEF u, v

\* The digits of a signature, and the slots two signatures share.
Low(x) == (x % inst.m) % Base
High(x) == (x % inst.m) \div Base

LEMMA SqrtCommon ==
    ASSUME Sized, inst.circuit = "Sqrt",
           NEW X \in [0..(inst.k - 1) -> Nat], NEW Y \in [0..(inst.k - 1) -> Nat]
    PROVE  LET S == SqrtSlots(X) \cap SqrtSlots(Y)
           IN  /\ S \subseteq Slots
               /\ \A q \in Nat : \A u \in 0..(Base - 1) :
                      /\ q * (2 * Base) + u \in S
                           <=> q < inst.k /\ Low(X[q]) = u /\ Low(Y[q]) = u
                      /\ q * (2 * Base) + Base + u \in S
                           <=> q < inst.k /\ High(X[q]) = u /\ High(Y[q]) = u
<1> DEFINE k == inst.k
           B == Base
           D == 2 * Base
           S == SqrtSlots(X) \cap SqrtSlots(Y)
<1>1. /\ k \in Nat /\ B \in Nat /\ B # 0 /\ inst.m = B * B
      /\ k * D <= ring_dim /\ ring_dim \in Nat /\ D \in Nat /\ D = 2 * B
  <2>1. inst.k * 2 * Base = inst.k * (2 * Base)
    BY InstanceShape DEF Sized
  <2> QED BY InstanceShape, <2>1 DEF Sized, Features
<1>2. \A c \in 0..(k - 1) : c \in Nat /\ c < k /\ X[c] \in Nat /\ Y[c] \in Nat
  BY <1>1
<1>3. \A c \in 0..(k - 1) : /\ Low(X[c]) \in 0..(B - 1) /\ High(X[c]) \in 0..(B - 1)
                             /\ Low(Y[c]) \in 0..(B - 1) /\ High(Y[c]) \in 0..(B - 1)
  BY <1>1, <1>2, Digits DEF Low, High
<1>4. ASSUME NEW Z \in {X, Y}
      PROVE  \A x : x \in SqrtSlots(Z) <=>
                 \E c \in 0..(k - 1) : x = c * D + Low(Z[c]) \/ x = c * D + (B + High(Z[c]))
  <2>1. \A c \in 0..(k - 1) : c * 2 * Base = c * D
    BY <1>1, <1>2
  <2>2. \A c \in 0..(k - 1) : c * D + Base + ((Z[c] % inst.m) \div Base) = c * D + (B + High(Z[c]))
    <3>1. \A c \in 0..(k - 1) : High(Z[c]) = (Z[c] % inst.m) \div Base /\ High(Z[c]) \in Nat
      BY <1>1, <1>3 DEF High
    <3>2. \A c \in 0..(k - 1), u \in Nat : c * D + B + u = c * D + (B + u)
      BY <1>1, <1>2
    <3> HIDE DEF D
    <3> QED BY <3>1, <3>2
  <2>3. \A x : x \in SqrtSlots(Z) <=>
            \E c \in 0..(k - 1) : x \in {c * 2 * Base + ((Z[c] % inst.m) % Base),
                                         c * 2 * Base + Base + ((Z[c] % inst.m) \div Base)}
    BY DEF SqrtSlots
  <2> HIDE DEF D
  <2> QED BY <2>1, <2>2, <2>3 DEF Low
<1> HIDE DEF k, B, D
<1>5. \A c, b \in Nat, u, v \in 0..(D - 1) : c * D + u = b * D + v => c = b /\ u = v
  BY <1>1, BlockUnique
<1>6. \A u \in 0..(B - 1) : u \in 0..(D - 1) /\ B + u \in 0..(D - 1) /\ \A v \in 0..(B - 1) : u # B + v
  BY <1>1
<1>7. S \subseteq Slots
  <2>1. \A c \in 0..(k - 1), u \in 0..(D - 1) : c * D + u \in Nat /\ c * D + u < k * D
    BY <1>1, BlockBelow
  <2>2. k * D \in Nat
    BY <1>1
  <2>3. ASSUME NEW t \in S PROVE t \in 0..(ring_dim - 1)
    <3>1. PICK c \in 0..(k - 1) : t = c * D + Low(X[c]) \/ t = c * D + (B + High(X[c]))
      BY <1>4
    <3>2. t \in Nat /\ t < k * D
      BY <1>3, <1>6, <2>1, <3>1
    <3> QED BY <1>1, <2>2, <3>2
  <2> QED BY <2>3 DEF Slots
<1>8. ASSUME NEW q \in Nat, NEW u \in 0..(B - 1), NEW Z \in {X, Y}
      PROVE  /\ q * D + u \in SqrtSlots(Z) <=> q < k /\ Low(Z[q]) = u
             /\ q * D + (B + u) \in SqrtSlots(Z) <=> q < k /\ High(Z[q]) = u
  <2> DEFINE Digit(x, c) == x = c * D + Low(Z[c]) \/ x = c * D + (B + High(Z[c]))
  <2>0. \A x : x \in SqrtSlots(Z) <=> \E c \in 0..(k - 1) : Digit(x, c)
    BY <1>4
  <2> HIDE DEF Digit
  <2>1. \A c \in 0..(k - 1) : Low(Z[c]) \in 0..(B - 1) /\ High(Z[c]) \in 0..(B - 1)
    BY <1>3
  <2>2. q < k => q \in 0..(k - 1)
    BY <1>1
  <2>3. q * D + u \in SqrtSlots(Z) <=> q < k /\ Low(Z[q]) = u
    <3>1. ASSUME q * D + u \in SqrtSlots(Z) PROVE q < k /\ Low(Z[q]) = u
      <4>1. PICK c \in 0..(k - 1) :
                q * D + u = c * D + Low(Z[c]) \/ q * D + u = c * D + (B + High(Z[c]))
        BY <2>0, <3>1 DEF Digit
      <4> QED BY <1>2, <1>5, <1>6, <2>1, <4>1
    <3> QED BY <2>0, <2>2, <3>1 DEF Digit
  <2>4. q * D + (B + u) \in SqrtSlots(Z) <=> q < k /\ High(Z[q]) = u
    <3>1. ASSUME q * D + (B + u) \in SqrtSlots(Z) PROVE q < k /\ High(Z[q]) = u
      <4>1. PICK c \in 0..(k - 1) : \/ q * D + (B + u) = c * D + Low(Z[c])
                                    \/ q * D + (B + u) = c * D + (B + High(Z[c]))
        BY <2>0, <3>1 DEF Digit
      <4>2. q = c /\ High(Z[c]) = u
        <5>1. High(Z[c]) \in Int /\ u \in Int /\ B \in Int
          BY <1>1, <2>1
        <5> QED BY <1>2, <1>5, <1>6, <2>1, <4>1, <5>1
      <4> QED BY <1>2, <4>2
    <3> QED BY <2>0, <2>2, <3>1 DEF Digit
  <2> QED BY <2>3, <2>4
<1>9. \A q \in Nat, u \in 0..(B - 1) : q * D + B + u = q * D + (B + u)
  BY <1>1
<1>10. ASSUME NEW q \in Nat, NEW u \in 0..(B - 1)
       PROVE  /\ q * D + u \in S <=> q < k /\ Low(X[q]) = u /\ Low(Y[q]) = u
              /\ q * D + B + u \in S <=> q < k /\ High(X[q]) = u /\ High(Y[q]) = u
  BY <1>8, <1>9
<1> QED BY <1>7, <1>10 DEF k, B, D

\* The slots set in both encodings; for the two-digit one, the first slots of the
\* blocks of agreeing coordinates.
Common(X, Y) == IF inst.circuit = "Sqrt" THEN SqrtSlots(X) \cap SqrtSlots(Y)
                ELSE OneHotSlots(X) \cap OneHotSlots(Y)
FirstSlots(X, Y) == {c * (2 * Base) : c \in Agreeing(X, Y)}

\* The product of the encodings holds a one exactly there.
LEMMA ProductCounts ==
    ASSUME Sized, NEW X \in [0..(inst.k - 1) -> Nat], NEW Y \in [0..(inst.k - 1) -> Nat]
    PROVE  LET c == Multiply(Encrypt(X), Encrypt(Y))
           IN  IsCiphertext(c) /\ Counts(c, Common(X, Y), 1, 1)
<1> DEFINE c == Multiply(Encrypt(X), Encrypt(Y))
           A == IF inst.circuit = "Sqrt" THEN SqrtSlots(X) ELSE OneHotSlots(X)
           B == IF inst.circuit = "Sqrt" THEN SqrtSlots(Y) ELSE OneHotSlots(Y)
<1>1. Common(X, Y) = A \cap B
  BY DEF Common
<1>2. /\ Encrypt(X) = [slots |-> [i \in Slots |-> IF i \in A THEN 1 ELSE 0], depth |-> 0]
      /\ Encrypt(Y) = [slots |-> [i \in Slots |-> IF i \in B THEN 1 ELSE 0], depth |-> 0]
  BY DEF Encrypt
<1> HIDE DEF A, B
<1>3. IsCiphertext(c)
  BY DEF IsCiphertext, Multiply
<1>4. ASSUME NEW i \in Slots
      PROVE  c.slots[i] = Cardinality((A \cap B) \cap Window(i, 1))
  <2>1. Window(i, 1) = {i}
    BY ShiftInRing, WindowEnds DEF Sized
  <2>2. plaintext_mod \in Nat /\ plaintext_mod > 1
    <3>1. ring_dim # 0
      BY PowersOfTwo DEF Sized
    <3> QED BY <3>1 DEF Sized
  <2>3. (1 * 1) % plaintext_mod = 1 /\ (1 * 0) % plaintext_mod = 0
        /\ (0 * 1) % plaintext_mod = 0 /\ (0 * 0) % plaintext_mod = 0
    BY <2>2
  <2>4. c.slots[i] = (Encrypt(X).slots[i] * Encrypt(Y).slots[i]) % plaintext_mod
    BY DEF Multiply
  <2>5. /\ Encrypt(X).slots[i] = IF i \in A THEN 1 ELSE 0
        /\ Encrypt(Y).slots[i] = IF i \in B THEN 1 ELSE 0
    BY <1>2
  <2>6. c.slots[i] = IF i \in A \cap B THEN 1 ELSE 0
    BY <2>3, <2>4, <2>5
  <2>7. Cardinality({i}) = 1 /\ Cardinality({}) = 0
    BY FS_Singleton, FS_EmptySet
  <2>8. CASE i \in A \cap B
    <3>1. (A \cap B) \cap Window(i, 1) = {i}
      BY <2>1, <2>8
    <3> QED BY <2>6, <2>7, <2>8, <3>1
  <2>9. CASE i \notin A \cap B
    <3>1. (A \cap B) \cap Window(i, 1) = {}
      BY <2>1, <2>9
    <3> QED BY <2>6, <2>7, <2>9, <3>1
  <2> QED BY <2>8, <2>9
<1> QED BY <1>1, <1>3, <1>4 DEF Counts

\* First slots are as many as agreeing coordinates.
LEMMA FirstSlotsCount ==
    ASSUME Sized, inst.circuit = "Sqrt", NEW X, NEW Y
    PROVE  /\ FirstSlots(X, Y) \subseteq Slots
           /\ Cardinality(FirstSlots(X, Y)) = Cardinality(Agreeing(X, Y))
<1> DEFINE k == inst.k
           D == 2 * Base
           E == Agreeing(X, Y)
           f == [c \in E |-> c * D]
<1>1. k \in Nat /\ D \in Nat /\ D > 0 /\ k * D <= ring_dim /\ ring_dim \in Nat
  <2>1. inst.k * 2 * Base = inst.k * (2 * Base)
    BY InstanceShape DEF Sized
  <2> QED BY InstanceShape, <2>1 DEF Sized, Features
<1>2. FirstSlots(X, Y) = {c * D : c \in E}
  BY DEF FirstSlots
<1> HIDE DEF D
<1>3. E \subseteq 0..(k - 1) /\ \A c \in 0..(k - 1) : c \in Nat
  BY <1>1 DEF Agreeing
<1> HIDE DEF k, E
<1>4. \A c, b \in Nat : c * D = b * D => c = b
  <2>1. ASSUME NEW c \in Nat, NEW b \in Nat, c * D = b * D PROVE c = b
    BY <1>1, <2>1
  <2> QED BY <2>1
<1>5. FirstSlots(X, Y) \subseteq Slots
  <2>1. \A c \in 0..(k - 1), u \in 0..(D - 1) : c * D + u \in Nat /\ c * D + u < k * D
    BY <1>1, BlockBelow
  <2>2. 0 \in 0..(D - 1) /\ k * D \in Nat
    BY <1>1
  <2>3. ASSUME NEW c \in E PROVE c * D \in 0..(ring_dim - 1)
    <3>1. c \in 0..(k - 1) /\ c * D + 0 = c * D
      BY <1>1, <1>3
    <3>2. c * D \in Nat /\ c * D < k * D
      BY <2>1, <2>2, <3>1
    <3> QED BY <1>1, <2>2, <3>2
  <2> QED BY <1>2, <2>3 DEF Slots
<1>6. f \in [E -> FirstSlots(X, Y)] /\ \A t \in FirstSlots(X, Y) : \E c \in E : f[c] = t
  BY <1>2
<1>7. \A a, b \in E : f[a] = f[b] => a = b
  BY <1>3, <1>4
<1> HIDE DEF f
<1>8. IsFiniteSet(E)
  BY AgreeingFinite DEF Sized, E
<1>9. Cardinality(FirstSlots(X, Y)) = Cardinality(E)
  BY <1>6, <1>7, <1>8, SameCardinality
<1> QED BY <1>5, <1>9 DEF E

\* A set with at most one known member.
LEMMA AtMostOne ==
    ASSUME NEW S, NEW x, S \subseteq {x}
    PROVE  Cardinality(S) = IF x \in S THEN 1 ELSE 0
<1>1. Cardinality({x}) = 1 /\ Cardinality({}) = 0
  BY FS_Singleton, FS_EmptySet
<1>2. S = {x} \/ S = {}
  OBVIOUS
<1> QED BY <1>1, <1>2

\* Multiplying the digits' sums leaves a one in the first slot of a block exactly
\* where both digits agree.
LEMMA DigitsAnded ==
    ASSUME Sized, inst.circuit = "Sqrt",
           NEW X \in [0..(inst.k - 1) -> Nat], NEW Y \in [0..(inst.k - 1) -> Nat],
           NEW c, IsCiphertext(c), Counts(c, Common(X, Y), 1, Base)
    PROVE  Counts(Multiply(c, Rotate(c, Base)), FirstSlots(X, Y), 2 * Base, 2 * Base)
<1> DEFINE k == inst.k
           B == Base
           D == 2 * Base
           S == Common(X, Y)
           F == FirstSlots(X, Y)
           a == Multiply(c, Rotate(c, Base))
<1>1. /\ k \in Nat /\ B \in Nat /\ B > 1 /\ IsPowerOfTwo(B) /\ inst.m = B * B /\ D = 2 * B
      /\ k * D <= ring_dim /\ ring_dim \in Nat /\ k # 0
  <2>1. inst.k * 2 * Base = inst.k * (2 * Base)
    BY InstanceShape DEF Sized
  <2> QED BY InstanceShape, <2>1 DEF Sized, Features
<1>2. B < ring_dim
  <2>1. \A x, y \in Nat : x # 0 => y <= x * y
    <3>1. ASSUME NEW x \in Nat, NEW y \in Nat, x # 0 PROVE y <= x * y
      BY <3>1
    <3> QED BY <3>1
  <2>2. D \in Nat /\ D <= k * D /\ k * D \in Nat /\ B < D
    BY <1>1, <2>1
  <2> QED BY <1>1, <2>2
<1>3. /\ EvenRing /\ B \in 1..Half /\ (2 * B <= Half \/ B = Half) /\ Aligned(Half, B)
      /\ Aligned(Half, D) \/ B = Half
  <2>1. EvenRing /\ B \in 1..Half /\ (2 * B <= Half \/ B = Half) /\ Aligned(Half, B)
        /\ IsPowerOfTwo(Half)
    BY <1>1, <1>2, ShiftInRing DEF Sized
  <2>2. Half \in Nat
    BY <2>1 DEF EvenRing
  <2>3. B < Half => Aligned(Half, D)
    BY <1>1, <2>1, <2>2, PowersDivide
  <2>4. B < Half \/ B = Half
    BY <2>1, <2>2
  <2> QED BY <2>1, <2>3, <2>4
<1>4. \A q \in Nat, u \in 0..(B - 1) :
          /\ q * D + u \in S <=> q < k /\ Low(X[q]) = u /\ Low(Y[q]) = u
          /\ q * D + B + u \in S <=> q < k /\ High(X[q]) = u /\ High(Y[q]) = u
  BY SqrtCommon DEF Common
<1>5. plaintext_mod \in Nat /\ plaintext_mod > 1
  <2>1. ring_dim # 0
    BY PowersOfTwo DEF Sized
  <2> QED BY <1>1, <2>1 DEF Sized
<1>6. \A i \in Slots : a.slots[i] = (c.slots[i] * c.slots[RotatedFrom(i, B)]) % plaintext_mod
  <2>1. Rotate(c, Base).slots = [j \in Slots |-> c.slots[RotatedFrom(j, Base)]]
    BY DEF Rotate, IsCiphertext
  <2> QED BY <2>1 DEF Multiply
<1>7. ASSUME NEW q \in Nat, q < k
      PROVE  q \in Agreeing(X, Y) <=> Low(X[q]) = Low(Y[q]) /\ High(X[q]) = High(Y[q])
  <2>1. q \in 0..(k - 1) /\ X[q] \in Nat /\ Y[q] \in Nat
    BY <1>1, <1>7
  <2>2. X[q] % (B * B) = Y[q] % (B * B) <=> Low(X[q]) = Low(Y[q]) /\ High(X[q]) = High(Y[q])
    <3> DEFINE x == X[q]
               y == Y[q]
    <3>1. B # 0 /\ x \in Nat /\ y \in Nat
      BY <1>1, <2>1
    <3> HIDE DEF x, y, B
    <3>2. (x % (B * B)) % B = (y % (B * B)) % B /\ (x % (B * B)) \div B = (y % (B * B)) \div B
             => x % (B * B) = y % (B * B)
      BY <1>1, <3>1, Digits
    <3>3. /\ Low(x) = (x % (B * B)) % B /\ Low(y) = (y % (B * B)) % B
          /\ High(x) = (x % (B * B)) \div B /\ High(y) = (y % (B * B)) \div B
      BY <1>1 DEF Low, High, B
    <3> QED BY <3>2, <3>3 DEF x, y
  <2> QED BY <1>1, <2>1, <2>2 DEF Agreeing
<1>8. \A q \in Nat : q \in Agreeing(X, Y) => q < k
  BY <1>1 DEF Agreeing
<1>9. \A q \in Nat : q < k =>
          /\ Low(X[q]) \in 0..(B - 1) /\ High(X[q]) \in 0..(B - 1)
          /\ Low(Y[q]) \in 0..(B - 1) /\ High(Y[q]) \in 0..(B - 1)
  <2>1. ASSUME NEW q \in Nat, q < k PROVE X[q] \in Nat /\ Y[q] \in Nat
    BY <1>1, <2>1
  <2>2. B # 0
    BY <1>1
  <2> QED BY <1>1, <2>1, <2>2, Digits DEF Low, High
<1>10. F = {b * D : b \in Agreeing(X, Y)}
  BY DEF FirstSlots
<1> SUFFICES ASSUME NEW i \in Slots, Aligned(i, D)
             PROVE  a.slots[i] = Cardinality(F \cap Window(i, D))
  BY DEF Counts
<1>11. PICK q \in Nat : i = q * D
  BY DEF Aligned
<1> HIDE DEF k, B, D, S, F, a
<1>12. RotatedFrom(i, B) = i + B /\ i + 2 * B <= ring_dim
  BY <1>1, <1>3, RotatedInBlock
<1>13. i \in Nat /\ i + B \in Slots
  <2>1. i \in Nat
    BY DEF Slots
  <2> QED BY <1>1, <1>12, <2>1 DEF Slots
<1>14. Aligned(i, B) /\ Aligned(i + B, B)
  <2>1. i = (2 * q) * B /\ i + B = (2 * q + 1) * B /\ 2 * q \in Nat /\ 2 * q + 1 \in Nat
    BY <1>1, <1>11
  <2> QED BY <2>1 DEF Aligned
<1>15. Window(i, B) = i..(i + B - 1) /\ Window(i + B, B) = (i + B)..(i + B + B - 1)
  BY <1>3, <1>13, <1>14, AlignedWindow
<1>16. c.slots[i] = IF q < k /\ Low(X[q]) = Low(Y[q]) THEN 1 ELSE 0
  <2> DEFINE W == Window(i, B)
             x == q * D + Low(X[q])
  <2>1. \A z \in W : z - i \in 0..(B - 1) /\ z = q * D + (z - i)
    BY <1>1, <1>11, <1>13, <1>15
  <2>2. q < k => x \in W
    BY <1>1, <1>9, <1>11, <1>13, <1>15
  <2>3. S \cap W \subseteq {x} /\ (x \in S \cap W <=> q < k /\ Low(X[q]) = Low(Y[q]))
    <3> HIDE DEF W
    <3>1. \A z \in S \cap W : z = x /\ q < k /\ Low(X[q]) = Low(Y[q])
      BY <1>4, <2>1
    <3> QED BY <1>4, <1>9, <2>2, <3>1
  <2>4. Aligned(i, 1)
    BY <1>13 DEF Aligned
  <2>5. c.slots[i] = Cardinality(S \cap Window(i, B))
    BY <2>4 DEF Counts, S, B
  <2> HIDE DEF x
  <2> QED BY <2>3, <2>5, AtMostOne
<1>17. c.slots[i + B] = IF q < k /\ High(X[q]) = High(Y[q]) THEN 1 ELSE 0
  <2> DEFINE W == Window(i + B, B)
             x == q * D + B + High(X[q])
  <2>1. \A z \in W : z - i - B \in 0..(B - 1) /\ z = q * D + B + (z - i - B)
    BY <1>1, <1>11, <1>13, <1>15
  <2>2. q < k => x \in W
    BY <1>1, <1>9, <1>11, <1>13, <1>15
  <2>3. S \cap W \subseteq {x} /\ (x \in S \cap W <=> q < k /\ High(X[q]) = High(Y[q]))
    <3> HIDE DEF W
    <3>1. \A z \in S \cap W : z = x /\ q < k /\ High(X[q]) = High(Y[q])
      BY <1>4, <2>1
    <3> QED BY <1>4, <1>9, <2>2, <3>1
  <2>4. Aligned(i + B, 1)
    <3>1. i + B \in Nat /\ (i + B) * 1 = i + B
      BY <1>1, <1>13
    <3> QED BY <3>1 DEF Aligned
  <2>5. c.slots[i + B] = Cardinality(S \cap Window(i + B, B))
    BY <1>13, <2>4 DEF Counts, S, B
  <2> HIDE DEF x
  <2> QED BY <2>3, <2>5, AtMostOne
<1>18. a.slots[i] = IF q \in Agreeing(X, Y) THEN 1 ELSE 0
  <2>1. (1 * 1) % plaintext_mod = 1 /\ (1 * 0) % plaintext_mod = 0
        /\ (0 * 1) % plaintext_mod = 0 /\ (0 * 0) % plaintext_mod = 0
    BY <1>5
  <2>2. a.slots[i] = (c.slots[i] * c.slots[i + B]) % plaintext_mod
    BY <1>6, <1>12
  <2>3. q \in Agreeing(X, Y) <=> /\ q < k /\ Low(X[q]) = Low(Y[q])
                                 /\ q < k /\ High(X[q]) = High(Y[q])
    BY <1>7, <1>8
  <2> QED BY <1>16, <1>17, <2>1, <2>2, <2>3
<1>19. Cardinality(F \cap Window(i, D)) = IF q \in Agreeing(X, Y) THEN 1 ELSE 0
  <2>1. Window(i, D) = i..(i + D - 1)
    <3>1. Window(i, 2 * B) = Window(i, B) \cup Window(i + B, B)
      BY <1>3, <1>12, WindowDoubles
    <3>2. i..(i + B - 1) \cup (i + B)..(i + B + B - 1) = i..(i + D - 1)
      <4>1. \A z \in Int : z \in i..(i + D - 1)
                             <=> z \in i..(i + B - 1) \/ z \in (i + B)..(i + B + B - 1)
        BY <1>1, <1>13
      <4> QED BY <4>1
    <3> QED BY <1>1, <1>15, <3>1, <3>2
  <2>2. \A b \in Nat, u \in 0..(D - 1) : b * D + 0 = q * D + u => b = q
    <3>1. D \in Nat /\ 0 \in 0..(D - 1)
      BY <1>1
    <3> QED BY <3>1, BlockUnique
  <2> DEFINE W == Window(i, D)
  <2>3. \A z \in W : z - i \in 0..(D - 1) /\ z = q * D + (z - i)
    BY <1>1, <1>11, <1>13, <2>1
  <2>4. i \in W
    BY <1>1, <1>13, <2>1
  <2> HIDE DEF W
  <2>5. ASSUME NEW z \in F \cap W PROVE z = i /\ q \in Agreeing(X, Y)
    <3>1. PICK b \in Agreeing(X, Y) : z = b * D
      BY <1>10
    <3>2. b \in Nat /\ b * D + 0 = b * D
      BY <1>1, <3>1 DEF Agreeing
    <3>3. b = q
      BY <2>2, <2>3, <3>1, <3>2
    <3> QED BY <1>11, <3>1, <3>3
  <2>6. F \cap W \subseteq {i} /\ (i \in F \cap W <=> q \in Agreeing(X, Y))
    BY <1>10, <1>11, <2>4, <2>5
  <2> QED BY <2>6, AtMostOne DEF W
<1> QED BY <1>18, <1>19

------------------------------------------------------------------------------
(* The count *)

\* A count over the whole ring is the number of members.
LEMMA WholeCount ==
    ASSUME Sized, NEW S, S \subseteq Slots, NEW d \in Nat, NEW c, Counts(c, S, d, ring_dim)
    PROVE  c.slots[0] = Cardinality(S)
<1>1. EvenRing
  BY ShiftInRing DEF Sized
<1>2. 0 \in Slots /\ Aligned(0, d)
  <2>1. ring_dim \in Nat /\ ring_dim # 0
    BY PowersOfTwo DEF Sized
  <2>2. 0 = 0 * d
    OBVIOUS
  <2> QED BY <2>1, <2>2 DEF Slots, Aligned
<1>3. S \cap Window(0, ring_dim) = S
  BY <1>1, WindowEnds DEF EvenRing
<1> QED BY <1>2, <1>3 DEF Counts

\* The distance of the slots whose sums are wanted, and what is summed.
Stride == IF inst.circuit = "Sqrt" THEN 2 * Base ELSE 1
Summands(X, Y) == IF inst.circuit = "Sqrt" THEN FirstSlots(X, Y) ELSE Common(X, Y)

CircuitIInv ==
    /\ Sized
    /\ stage = "ready" => shift = 1
    /\ stage # "ready" => sig_x \in inst.xs /\ sig_y \in inst.ys
    /\ stage = "encrypted" => shift = 1 /\ ct = Encrypt(sig_x) /\ ct_y = Encrypt(sig_y)
    /\ stage = "digits" =>
           /\ inst.circuit = "Sqrt"
           /\ IsCiphertext(ct)
           /\ shift \in Nat /\ IsPowerOfTwo(shift) /\ shift <= Base
           /\ Counts(ct, Common(sig_x, sig_y), 1, shift)
    /\ stage = "slots" =>
           /\ IsCiphertext(ct)
           /\ shift \in Nat /\ IsPowerOfTwo(shift) /\ Stride <= shift /\ shift <= ring_dim
           /\ Counts(ct, Summands(sig_x, sig_y), Stride, shift)
    /\ stage \in {"masked", "evaluated"} => inst.circuit = "Threshold"
    /\ stage = "done" /\ inst.circuit # "Threshold" => answer = Matches

LEMMA SignaturesTyped ==
    ASSUME inst \in Instances, NEW X \in inst.xs, NEW Y \in inst.ys
    PROVE  X \in [0..(inst.k - 1) -> Nat] /\ Y \in [0..(inst.k - 1) -> Nat]
BY InstanceAssumption

\* The summands are as many as the matches.
LEMMA SummandsCounted ==
    ASSUME Sized, NEW X \in inst.xs, NEW Y \in inst.ys
    PROVE  /\ Summands(X, Y) \subseteq Slots
           /\ Cardinality(Summands(X, Y)) = Cardinality(Agreeing(X, Y))
<1>1. X \in [0..(inst.k - 1) -> Nat] /\ Y \in [0..(inst.k - 1) -> Nat]
  BY SignaturesTyped DEF Sized
<1>2. CASE inst.circuit = "Sqrt"
  BY <1>2, FirstSlotsCount DEF Summands
<1>3. CASE inst.circuit # "Sqrt"
  BY <1>1, <1>3, OneHotCommon DEF Summands, Common
<1> QED BY <1>2, <1>3

LEMMA CommonSlots ==
    ASSUME Sized, NEW X \in inst.xs, NEW Y \in inst.ys
    PROVE  Common(X, Y) \subseteq Slots
<1>1. X \in [0..(inst.k - 1) -> Nat] /\ Y \in [0..(inst.k - 1) -> Nat]
  BY SignaturesTyped DEF Sized
<1> QED BY <1>1, SqrtCommon, OneHotCommon DEF Common

LEMMA StrideShape ==
    ASSUME Sized
    PROVE  Stride \in Nat /\ IsPowerOfTwo(Stride) /\ Stride <= ring_dim
<1>1. IsPowerOfTwo(1)
  BY Pow2Unfolds, PowersOfTwo
<1>2. inst.circuit = "Sqrt" => 2 * Base \in Nat /\ IsPowerOfTwo(2 * Base)
  BY InstanceShape, PowersDivide DEF Sized
<1>3. inst.circuit = "Sqrt" => 2 * Base <= ring_dim
  <2>1. \A x, y \in Nat : x # 0 => y <= x * y
    <3>1. ASSUME NEW x \in Nat, NEW y \in Nat, x # 0 PROVE y <= x * y
      BY <3>1
    <3> QED BY <3>1
  <2>2. inst.k \in Nat /\ inst.k # 0 /\ ring_dim \in Nat
    BY InstanceShape DEF Sized
  <2>3. ASSUME inst.circuit = "Sqrt" PROVE 2 * Base <= ring_dim
    <3>1. inst.k * 2 * Base = inst.k * (2 * Base) /\ inst.k * (2 * Base) \in Nat
      BY <1>2, <2>2, <2>3, InstanceShape DEF Sized
    <3>2. inst.k * (2 * Base) <= ring_dim
      BY <2>3, <3>1 DEF Sized, Features
    <3>3. 2 * Base <= inst.k * (2 * Base)
      BY <1>2, <2>1, <2>2, <2>3
    <3> QED BY <1>2, <2>2, <2>3, <3>1, <3>2, <3>3
  <2> QED BY <2>3
<1>4. ring_dim \in Nat /\ ring_dim # 0
  BY PowersOfTwo DEF Sized
<1> QED BY <1>1, <1>2, <1>3, <1>4 DEF Stride

\* The search returns a prime above k of the form it tries.
LEMMA ModulusFound ==
    ASSUME CircuitInit
    PROVE  \E t \in 1..LastTried : /\ plaintext_mod = 1 + (2 * ring_dim) * t
                                  /\ Suitable(t, inst.k, 2 * ring_dim)
<1> DEFINE good == {t \in 1..LastTried : Suitable(t, inst.k, 2 * ring_dim)}
<1>1. LastTried \in Nat
  BY SMT DEF LastTried
<1>2. good # {}
  BY DEF CircuitInit, NoModulus
<1>3. PICK t \in good : \A u \in good : t <= u
  <2>1. good \subseteq Nat
    BY <1>1
  <2> HIDE DEF good
  <2> QED BY <1>2, <2>1, LeastNatural
<1>4. ASSUME NEW u \in 1..(t - 1) PROVE ~Suitable(u, inst.k, 2 * ring_dim)
  <2>1. u \in 1..LastTried /\ ~(t <= u)
    BY <1>1
  <2> QED BY <1>3, <2>1
<1>5. \E v \in 1..LastTried : /\ Suitable(v, inst.k, 2 * ring_dim)
                            /\ \A u \in 1..(v - 1) : ~Suitable(u, inst.k, 2 * ring_dim)
  BY <1>3, <1>4
<1>6. plaintext_mod = FindPlaintextModulus(inst.k, 2 * ring_dim)
  BY DEF CircuitInit
<1> QED BY <1>5, <1>6 DEF FindPlaintextModulus

\* Initially the ring holds the features and p is above twice its dimension.
LEMMA InitiallySized == CircuitInit => Sized
<1> SUFFICES ASSUME CircuitInit PROVE Sized
  OBVIOUS
<1>1. inst \in Instances /\ ring_dim = RingDim
  BY DEF CircuitInit
<1>2. Features \in Nat /\ Features > 1
  <2>1. \A x, y \in Nat : x # 0 /\ y > 1 => x * y > 1 /\ x * y \in Nat
    <3>1. ASSUME NEW x \in Nat, NEW y \in Nat, x # 0, y > 1 PROVE x * y > 1 /\ x * y \in Nat
      BY <3>1
    <3> QED BY <3>1
  <2>2. /\ inst.k \in Nat /\ inst.k # 0 /\ inst.m \in Nat /\ inst.m > 1
        /\ inst.circuit = "Sqrt" => Base \in Nat /\ Base > 1
    BY <1>1, InstanceShape
  <2>3. inst.circuit = "Sqrt" => inst.k * 2 \in Nat /\ inst.k * 2 # 0
    BY <2>2
  <2> QED BY <2>1, <2>2, <2>3 DEF Features
<1>3. /\ NextPowerOf2(Features) \in Nat /\ IsPowerOfTwo(NextPowerOf2(Features))
      /\ Features <= NextPowerOf2(Features)
  <2>1. Features \in Nat \ {0} /\ ~(Features <= 1)
    BY <1>2
  <2>2. NextPowerOf2(Features) = Pow2[CeilLog2(Features)]
    BY <2>1 DEF NextPowerOf2
  <2> QED BY <2>1, <2>2, CeilLog2Bound, PowersOfTwo
<1>4. MinRingDim \in Nat /\ IsPowerOfTwo(MinRingDim)
  BY MinRingAssumption
<1>5. /\ ring_dim \in Nat /\ IsPowerOfTwo(ring_dim) /\ Features <= ring_dim /\ ring_dim # 1
  BY <1>1, <1>2, <1>3, <1>4 DEF RingDim
<1>0. LastTried \in Nat
  BY SMT DEF LastTried
<1>6. PICK t \in 1..LastTried : plaintext_mod = 1 + (2 * ring_dim) * t
  BY ModulusFound
<1>7. plaintext_mod \in Nat /\ plaintext_mod > 2 * ring_dim
  <2>1. \A x \in Nat : x * t \in Nat /\ x * t >= x
    <3>1. ASSUME NEW x \in Nat PROVE x * t \in Nat /\ x * t >= x
      BY <1>0
    <3> QED BY <3>1
  <2>2. 2 * ring_dim \in Nat
    BY <1>5
  <2> HIDE DEF Sized
  <2> QED BY <1>6, <2>1, <2>2
<1> QED BY <1>1, <1>5, <1>7 DEF Sized

\* Nothing the invariant measures with changes after the initial state.
LEMMA SizedKept == ASSUME Sized, UNCHANGED parameters PROVE Sized'
BY DEF Sized, Features, Base, parameters

LEMMA CountsKept ==
    ASSUME UNCHANGED parameters, NEW X, NEW Y, sig_x' = X, sig_y' = Y
    PROVE  /\ Counts(ct', Summands(X, Y), Stride, shift')
                => Counts(ct, Summands(sig_x, sig_y), Stride, shift)'
           /\ Counts(ct', Common(X, Y), 1, shift')
                => Counts(ct, Common(sig_x, sig_y), 1, shift)'
           /\ Stride' = Stride /\ Base' = Base
           /\ Matches' = Cardinality(Agreeing(X, Y))
<1>1. inst' = inst /\ ring_dim' = ring_dim /\ layout' = layout
  BY DEF parameters
<1>2. Slots' = Slots /\ Base' = Base /\ Stride' = Stride
  BY <1>1 DEF Slots, Base, Stride
<1>3. Common(sig_x, sig_y)' = Common(X, Y)
  BY <1>1, <1>2 DEF Common, OneHotSlots, SqrtSlots, Base
<1>4. Agreeing(sig_x, sig_y)' = Agreeing(X, Y)
  BY <1>1 DEF Agreeing
<1>5. Summands(sig_x, sig_y)' = Summands(X, Y)
  BY <1>1, <1>2, <1>3, <1>4 DEF Summands, FirstSlots
<1>6. ASSUME NEW S, NEW d, Counts(ct', S, d, shift') PROVE Counts(ct, S, d, shift)'
  BY <1>1, <1>2, <1>6 DEF Counts, Window, RotatedFrom, Aligned
<1>7. Matches' = Cardinality(Agreeing(sig_x, sig_y))'
  BY <1>1 DEF Matches, Agreeing
<1> QED BY <1>2, <1>3, <1>4, <1>5, <1>6, <1>7

LEMMA CircuitInitIInv == CircuitInit => CircuitIInv
BY InitiallySized DEF CircuitInit, CircuitIInv

\* A pass of rotate-and-add, in either loop.
LEMMA PassCounts ==
    ASSUME Sized, IsCiphertext(ct), shift \in Nat, IsPowerOfTwo(shift), shift < ring_dim,
           NEW S, S \subseteq Slots, NEW d \in Nat, IsPowerOfTwo(d), d <= shift,
           Counts(ct, S, d, shift), RotateAndAdd
    PROVE  /\ IsCiphertext(ct') /\ Counts(ct', S, d, shift')
           /\ shift' \in Nat /\ IsPowerOfTwo(shift') /\ shift' = 2 * shift /\ shift' <= ring_dim
<1>1. ct' = Add(ct, Rotate(ct, shift)) /\ shift' = 2 * shift
  BY DEF RotateAndAdd
<1>2. /\ EvenRing /\ IsPowerOfTwo(Half)
      /\ shift \in 1..Half /\ (2 * shift <= Half \/ shift = Half)
      /\ IsPowerOfTwo(2 * shift) /\ 2 * shift <= ring_dim
  BY ShiftInRing DEF Sized
<1>3. Aligned(shift, d)
  BY PowersDivide
<1>4. Half \in Nat /\ d <= Half
  BY <1>2 DEF EvenRing
<1>5. Aligned(Half, d)
  BY <1>2, <1>4, PowersDivide
<1>6. IsFiniteSet(S) /\ Cardinality(S) < plaintext_mod /\ plaintext_mod \in Nat
  BY SlotSets DEF Sized
<1>7. Counts(Add(ct, Rotate(ct, shift)), S, d, 2 * shift)
  BY <1>2, <1>3, <1>5, <1>6, RotationCounts
<1>8. IsCiphertext(Add(ct, Rotate(ct, shift)))
  BY DEF Add, IsCiphertext
<1> QED BY <1>1, <1>2, <1>7, <1>8

\* When all rotations are done, slot 0 is the number of matches.
LEMMA SummedExact ==
    ASSUME CircuitIInv, Summed
    PROVE  ct.slots[0] = Matches /\ Matches \in 0..ring_dim
<1>1. /\ Sized /\ sig_x \in inst.xs /\ sig_y \in inst.ys
      /\ shift \in Nat /\ shift <= ring_dim /\ shift >= ring_dim
      /\ Counts(ct, Summands(sig_x, sig_y), Stride, shift)
  BY DEF CircuitIInv, Summed
<1>2. shift = ring_dim
  BY <1>1 DEF Sized
<1>3. /\ Summands(sig_x, sig_y) \subseteq Slots
      /\ Cardinality(Summands(sig_x, sig_y)) = Cardinality(Agreeing(sig_x, sig_y))
  BY <1>1, SummandsCounted
<1>4. ct.slots[0] = Cardinality(Summands(sig_x, sig_y))
  BY <1>1, <1>2, <1>3, StrideShape, WholeCount
<1>5. Cardinality(Summands(sig_x, sig_y)) \in 0..ring_dim
  BY <1>1, <1>3, SlotSets
<1> QED BY <1>3, <1>4, <1>5 DEF Matches, Agreeing

LEMMA CircuitStepIInv == CircuitIInv /\ [CircuitNext]_circuitVars => CircuitIInv'
<1> SUFFICES ASSUME CircuitIInv, [CircuitNext]_circuitVars PROVE CircuitIInv'
  OBVIOUS
<1>1. CASE EncryptInputs
  <2>1. /\ stage' = "encrypted" /\ stage = "ready"
        /\ sig_x' \in inst.xs /\ sig_y' \in inst.ys
        /\ ct' = Encrypt(sig_x') /\ ct_y' = Encrypt(sig_y')
        /\ shift' = shift /\ UNCHANGED parameters
    BY <1>1 DEF EncryptInputs
  <2>2. Sized'
    BY <2>1, SizedKept DEF CircuitIInv
  <2>3. inst' = inst
    BY <2>1 DEF parameters
  <2>4. ct' = Encrypt(sig_x)' /\ ct_y' = Encrypt(sig_y)'
    BY <2>1 DEF Encrypt, Slots, OneHotSlots, SqrtSlots, Base, parameters
  <2> QED BY <2>1, <2>2, <2>3, <2>4 DEF CircuitIInv
<1>2. ASSUME stage # "ready", UNCHANGED parameters, UNCHANGED inputs
      PROVE  /\ Sized /\ Sized' /\ inst' = inst /\ sig_x' = sig_x /\ sig_y' = sig_y
             /\ sig_x \in inst.xs /\ sig_y \in inst.ys
             /\ sig_x \in [0..(inst.k - 1) -> Nat] /\ sig_y \in [0..(inst.k - 1) -> Nat]
             /\ Common(sig_x, sig_y) \subseteq Slots
             /\ Summands(sig_x, sig_y) \subseteq Slots
  <2>1. Sized /\ sig_x \in inst.xs /\ sig_y \in inst.ys
    BY <1>2 DEF CircuitIInv
  <2>2. Sized' /\ inst' = inst /\ sig_x' = sig_x /\ sig_y' = sig_y
    BY <1>2, <2>1, SizedKept DEF parameters, inputs
  <2>3. sig_x \in [0..(inst.k - 1) -> Nat] /\ sig_y \in [0..(inst.k - 1) -> Nat]
    BY <2>1, SignaturesTyped DEF Sized
  <2> QED BY <2>1, <2>2, <2>3, CommonSlots, SummandsCounted
<1>3. CASE MultiplyInputs
  <2>1. /\ stage = "encrypted" /\ ct' = Multiply(ct, ct_y) /\ shift' = shift
        /\ stage' = IF inst.circuit = "Sqrt" THEN "digits" ELSE "slots"
        /\ UNCHANGED parameters /\ UNCHANGED inputs
    BY <1>3 DEF MultiplyInputs, Fixed
  <2>2. ct = Encrypt(sig_x) /\ ct_y = Encrypt(sig_y) /\ shift = 1
    BY <2>1 DEF CircuitIInv
  <2>3. IsCiphertext(ct') /\ Counts(ct', Common(sig_x, sig_y), 1, 1)
    BY <1>2, <2>1, <2>2, ProductCounts
  <2>4. IsPowerOfTwo(1) /\ ring_dim \in Nat /\ ring_dim # 0
    BY <1>2, <2>1, Pow2Unfolds, PowersOfTwo DEF Sized
  <2>5. CASE inst.circuit = "Sqrt"
    <3>1. Base \in Nat /\ Base > 1
      BY <1>2, <2>1, <2>5, InstanceShape DEF Sized
    <3>2. Counts(ct, Common(sig_x, sig_y), 1, shift)' /\ Base' = Base
      BY <1>2, <2>1, <2>2, <2>3, CountsKept
    <3> QED BY <1>2, <2>1, <2>2, <2>3, <2>4, <2>5, <3>1, <3>2 DEF CircuitIInv, IsCiphertext
  <2>6. CASE inst.circuit # "Sqrt"
    <3>1. Stride = 1 /\ Summands(sig_x, sig_y) = Common(sig_x, sig_y)
      BY <2>6 DEF Stride, Summands
    <3>2. Counts(ct, Summands(sig_x, sig_y), Stride, shift)' /\ Stride' = 1
      BY <1>2, <2>1, <2>2, <2>3, <3>1, CountsKept
    <3>3. ring_dim' = ring_dim
      BY <2>1 DEF parameters
    <3> QED BY <1>2, <2>1, <2>2, <2>3, <2>4, <2>6, <3>2, <3>3 DEF CircuitIInv, IsCiphertext
  <2> QED BY <2>5, <2>6
<1>4. CASE SumDigits
  <2>1. /\ stage = "digits" /\ stage' = "digits" /\ shift < Base /\ RotateAndAdd
        /\ UNCHANGED parameters /\ UNCHANGED inputs
    BY <1>4 DEF SumDigits, RotateAndAdd, Fixed
  <2>2. /\ inst.circuit = "Sqrt" /\ IsCiphertext(ct)
        /\ shift \in Nat /\ IsPowerOfTwo(shift) /\ shift <= Base
        /\ Counts(ct, Common(sig_x, sig_y), 1, shift)
    BY <2>1 DEF CircuitIInv
  <2>3. /\ Base \in Nat /\ IsPowerOfTwo(Base) /\ IsPowerOfTwo(1) /\ 1 <= shift
        /\ Stride = 2 * Base /\ Stride <= ring_dim /\ ring_dim \in Nat
    <3>1. Base \in Nat /\ IsPowerOfTwo(Base) /\ Stride <= ring_dim /\ ring_dim \in Nat
      BY <1>2, <2>1, <2>2, InstanceShape, StrideShape DEF Sized
    <3>2. IsPowerOfTwo(1)
      BY Pow2Unfolds, PowersOfTwo
    <3>3. shift # 0
      BY <2>2, PowersOfTwo
    <3> QED BY <2>2, <3>1, <3>2, <3>3 DEF Stride
  <2>4. shift < ring_dim
    BY <2>1, <2>2, <2>3
  <2>5. /\ IsCiphertext(ct') /\ Counts(ct', Common(sig_x, sig_y), 1, shift')
        /\ shift' \in Nat /\ IsPowerOfTwo(shift') /\ shift' = 2 * shift
    BY <1>2, <2>1, <2>2, <2>3, <2>4, PassCounts
  <2>6. shift' <= Base
    BY <2>1, <2>2, <2>3, <2>5, PowersDivide
  <2>7. Counts(ct, Common(sig_x, sig_y), 1, shift)' /\ Base' = Base
    BY <1>2, <2>1, <2>5, CountsKept
  <2> QED BY <1>2, <2>1, <2>2, <2>5, <2>6, <2>7 DEF CircuitIInv, IsCiphertext
<1>5. CASE AndDigits
  <2>1. /\ stage = "digits" /\ stage' = "slots" /\ shift >= Base
        /\ ct' = Multiply(ct, Rotate(ct, Base)) /\ shift' = 2 * Base
        /\ UNCHANGED parameters /\ UNCHANGED inputs
    BY <1>5 DEF AndDigits, Fixed
  <2>2. /\ inst.circuit = "Sqrt" /\ IsCiphertext(ct)
        /\ shift \in Nat /\ IsPowerOfTwo(shift) /\ shift <= Base
        /\ Counts(ct, Common(sig_x, sig_y), 1, shift)
    BY <2>1 DEF CircuitIInv
  <2>3. Base \in Nat
    BY <1>2, <2>1, <2>2, InstanceShape DEF Sized
  <2>4. shift = Base
    BY <2>1, <2>2, <2>3
  <2>5. Counts(ct', FirstSlots(sig_x, sig_y), 2 * Base, 2 * Base)
    BY <1>2, <2>1, <2>2, <2>4, DigitsAnded
  <2>6. IsCiphertext(ct')
    BY <2>1 DEF Multiply, IsCiphertext
  <2>7. Stride = 2 * Base /\ Summands(sig_x, sig_y) = FirstSlots(sig_x, sig_y)
    BY <2>2 DEF Stride, Summands
  <2>8. /\ Counts(ct, Summands(sig_x, sig_y), Stride, shift)' /\ Stride' = Stride
        /\ ring_dim' = ring_dim
    BY <1>2, <2>1, <2>5, <2>7, CountsKept DEF parameters
  <2>9. Stride \in Nat /\ IsPowerOfTwo(Stride) /\ Stride <= ring_dim
    BY <1>2, <2>1, StrideShape
  <2> QED BY <1>2, <2>1, <2>6, <2>7, <2>8, <2>9 DEF CircuitIInv, IsCiphertext
<1>6. CASE SumSlots
  <2>1. /\ stage = "slots" /\ stage' = "slots" /\ shift < ring_dim /\ RotateAndAdd
        /\ UNCHANGED parameters /\ UNCHANGED inputs
    BY <1>6 DEF SumSlots, RotateAndAdd, Fixed
  <2>2. /\ IsCiphertext(ct)
        /\ shift \in Nat /\ IsPowerOfTwo(shift) /\ Stride <= shift
        /\ Counts(ct, Summands(sig_x, sig_y), Stride, shift)
    BY <2>1 DEF CircuitIInv
  <2>3. Stride \in Nat /\ IsPowerOfTwo(Stride)
    BY <1>2, <2>1, StrideShape
  <2>4. /\ IsCiphertext(ct') /\ Counts(ct', Summands(sig_x, sig_y), Stride, shift')
        /\ shift' \in Nat /\ IsPowerOfTwo(shift') /\ shift' = 2 * shift /\ shift' <= ring_dim
    BY <1>2, <2>1, <2>2, <2>3, PassCounts
  <2>5. /\ Counts(ct, Summands(sig_x, sig_y), Stride, shift)' /\ Stride' = Stride
        /\ ring_dim' = ring_dim
    BY <1>2, <2>1, <2>4, CountsKept DEF parameters
  <2>6. Stride <= shift'
    BY <2>2, <2>3, <2>4
  <2> QED BY <1>2, <2>1, <2>4, <2>5, <2>6 DEF CircuitIInv, IsCiphertext
<1>7. CASE Mask
  <2>1. /\ stage = "slots" /\ stage' = "masked" /\ inst.circuit = "Threshold"
        /\ UNCHANGED parameters /\ UNCHANGED inputs
    BY <1>7 DEF Mask, Summed, Fixed
  <2> QED BY <1>2, <2>1 DEF CircuitIInv
<1>8. CASE EvaluatePolynomial
  <2>1. /\ stage = "masked" /\ stage' = "evaluated"
        /\ UNCHANGED parameters /\ UNCHANGED inputs
    BY <1>8 DEF EvaluatePolynomial, Fixed
  <2> QED BY <1>2, <2>1 DEF CircuitIInv
<1>9. CASE DecryptCount
  <2>1. /\ Summed /\ stage = "slots" /\ stage' = "done" /\ answer' = Decrypted
        /\ UNCHANGED parameters /\ UNCHANGED inputs
    BY <1>9 DEF DecryptCount, Summed, Fixed
  <2>2. ct.slots[0] = Matches /\ Matches \in 0..ring_dim
    BY <2>1, SummedExact
  <2>3. plaintext_mod \in Nat /\ plaintext_mod > 2 * ring_dim /\ ring_dim \in Nat
    BY <1>2, <2>1 DEF Sized
  <2>4. answer' = Matches
    BY <2>1, <2>2, <2>3 DEF Decrypted
  <2>5. Matches' = Matches
    BY <1>2, <2>1 DEF Matches
  <2> QED BY <1>2, <2>1, <2>4, <2>5 DEF CircuitIInv
<1>10. CASE DecryptDecision
  <2>1. /\ stage = "evaluated" /\ stage' = "done" /\ UNCHANGED parameters /\ UNCHANGED inputs
    BY <1>10 DEF DecryptDecision, Fixed
  <2> QED BY <1>2, <2>1 DEF CircuitIInv
<1>11. CASE UNCHANGED circuitVars
  <2>1. /\ UNCHANGED parameters /\ UNCHANGED inputs
        /\ stage' = stage /\ ct' = ct /\ shift' = shift /\ answer' = answer
    BY <1>11 DEF circuitVars
  <2>2. /\ inst' = inst /\ ring_dim' = ring_dim /\ sig_x' = sig_x /\ sig_y' = sig_y
        /\ ct_y' = ct_y
    BY <2>1 DEF parameters, inputs
  <2>3. Sized /\ Sized'
    BY <2>1, SizedKept DEF CircuitIInv
  <2>4. /\ Encrypt(sig_x)' = Encrypt(sig_x) /\ Encrypt(sig_y)' = Encrypt(sig_y)
        /\ Matches' = Matches
    BY <2>2 DEF Encrypt, Slots, OneHotSlots, SqrtSlots, Base, Matches
  <2>5. /\ Counts(ct, Summands(sig_x, sig_y), Stride, shift)
                => Counts(ct, Summands(sig_x, sig_y), Stride, shift)'
        /\ Counts(ct, Common(sig_x, sig_y), 1, shift)
                => Counts(ct, Common(sig_x, sig_y), 1, shift)'
        /\ Stride' = Stride /\ Base' = Base
    BY <2>1, <2>2, CountsKept
  <2> QED BY <2>1, <2>2, <2>3, <2>4, <2>5 DEF CircuitIInv, IsCiphertext
<1> QED
  BY <1>1, <1>3, <1>4, <1>5, <1>6, <1>7, <1>8, <1>9, <1>10, <1>11 DEF CircuitNext

\* The inductive invariant holds: after every rotation each slot is the number of
\* ones in its window, in the circuit's own stage.
THEOREM CircuitInvariant == CircuitSpec => []CircuitIInv
BY CircuitInitIInv, CircuitStepIInv, PTL DEF CircuitSpec

\* For every instance, ring and layout: slot 0 ends as the number of matching
\* coordinates, and that is what is decrypted.
THEOREM MatchesAlwaysExact == CircuitSpec => []MatchesExact
<1>1. CircuitIInv => MatchesExact
  BY SummedExact DEF CircuitIInv, MatchesExact
<1> QED BY <1>1, CircuitInvariant, PTL

------------------------------------------------------------------------------
(* The modular inverse *)

Divisions == Nat \X Nat \X Int \X Int
Division(w) == <<w[2], w[1] % w[2], w[4], w[3] - (w[1] \div w[2]) * w[4]>>

\* What ModInverse recurses with.
Euclid == CHOOSE f : f = [w \in Nat \X Nat \X Int \X Int |->
    IF w[2] = 0 THEN w[3]
    ELSE f[<<w[2], w[1] % w[2], w[4], w[3] - (w[1] \div w[2]) * w[4]>>]]

\* A step of Euclid has a smaller remainder.
LEMMA DivisionShrinks ==
    ASSUME NEW w \in Divisions, w[2] # 0
    PROVE  Division(w) \in Divisions /\ Division(w)[2] \in 0..(w[2] - 1)
<1>1. w[1] \in Nat /\ w[2] \in Nat /\ w[3] \in Int /\ w[4] \in Int
  BY DEF Divisions
<1>2. w[1] % w[2] \in 0..(w[2] - 1) /\ w[3] - (w[1] \div w[2]) * w[4] \in Int
  BY <1>1
<1> QED BY <1>1, <1>2 DEF Division, Divisions

\* Euclid obeys its equation.
LEMMA EuclidUnfolds ==
    \A w \in Divisions : Euclid[w] = IF w[2] = 0 THEN w[3] ELSE Euclid[Division(w)]
<1> DEFINE mu == [w \in Divisions |-> w[2]]
           F == [Divisions -> Int]
           H == [w \in Divisions |-> [f \in F |-> IF w[2] = 0 THEN w[3] ELSE f[Division(w)]]]
           Body(f) == [w \in Divisions |-> IF w[2] = 0 THEN w[3] ELSE f[Division(w)]]
<1>1. LooksBack(Divisions, Int, mu, H)
  <2>1. mu \in [Divisions -> Nat]
    BY DEF Divisions
  <2>2. ASSUME NEW w \in Divisions, NEW f \in F PROVE H[w][f] \in Int
    <3>1. H[w][f] = IF w[2] = 0 THEN w[3] ELSE f[Division(w)]
      OBVIOUS
    <3>2. w[3] \in Int
      BY DEF Divisions
    <3> QED BY <3>1, <3>2, DivisionShrinks
  <2>3. ASSUME NEW w \in Divisions, NEW f \in F, NEW g \in F,
               \A y \in Divisions : mu[y] < mu[w] => f[y] = g[y]
        PROVE  H[w][f] = H[w][g]
    <3>1. /\ H[w][f] = IF w[2] = 0 THEN w[3] ELSE f[Division(w)]
          /\ H[w][g] = IF w[2] = 0 THEN w[3] ELSE g[Division(w)]
      OBVIOUS
    <3>2. w[2] # 0 => Division(w) \in Divisions /\ mu[Division(w)] < mu[w]
      <4>1. w[2] \in Nat
        BY DEF Divisions
      <4> QED BY <4>1, DivisionShrinks
    <3> QED BY <2>3, <3>1, <3>2
  <2> HIDE DEF mu, H
  <2> QED BY <2>1, <2>2, <2>3 DEF LooksBack
<1>2. PICK f \in F : f = [w \in Divisions |-> H[w][f]]
  <2>1. 0 \in Int
    OBVIOUS
  <2> HIDE DEF mu, H
  <2> QED BY <1>1, <2>1, MeasuredFunctionExists
<1>3. f = Body(f)
  BY <1>2
<1>4. Euclid = Body(Euclid)
  <2>1. Euclid = CHOOSE g : g = Body(g)
    BY DEF Euclid, Divisions, Division
  <2> HIDE DEF Body
  <2> QED BY <1>3, <2>1
<1> QED BY <1>4

Divides(g, n) == \E h \in Int : n = g * h

\* From remainders that are multiples of a modulo q, Euclid's coefficient gives a
\* common divisor.
LEMMA EuclidDivides ==
    ASSUME NEW a \in Nat, NEW q \in Nat, NEW v \in Divisions, v[1] # 0,
           Same(v[1], a * v[3], q), Same(v[2], a * v[4], q)
    PROVE  /\ Euclid[v] \in Int
           /\ \E g \in Nat \ {0} : /\ Divides(g, v[1]) /\ Divides(g, v[2])
                                   /\ Same(g, a * Euclid[v], q)
<1> DEFINE S == {w \in Divisions : w[1] # 0 /\ Same(w[1], a * w[3], q) /\ Same(w[2], a * w[4], q)}
           Good(w) == /\ Euclid[w] \in Int
                      /\ \E g \in Nat \ {0} : /\ Divides(g, w[1]) /\ Divides(g, w[2])
                                              /\ Same(g, a * Euclid[w], q)
           mu == [w \in S |-> w[2]]
           B == {w \in S : ~Good(w)}
<1>1. mu \in [S -> Nat]
  BY DEF Divisions
<1>2. ASSUME NEW w \in B PROVE \E y \in B : mu[y] < mu[w]
  <2>1. /\ w[1] \in Nat /\ w[1] # 0 /\ w[2] \in Nat /\ w[3] \in Int /\ w[4] \in Int
        /\ w \in Divisions /\ w \in S
        /\ Same(w[1], a * w[3], q) /\ Same(w[2], a * w[4], q)
    BY DEF Divisions
  <2>2. w[2] # 0
    <3>1. ASSUME w[2] = 0 PROVE Good(w)
      <4>1. Euclid[w] = w[3]
        BY <2>1, <3>1, EuclidUnfolds
      <4>2. w[1] = w[1] * 1 /\ w[2] = w[1] * 0
        BY <2>1, <3>1
      <4>3. Divides(w[1], w[1]) /\ Divides(w[1], w[2])
        BY <4>2 DEF Divides
      <4> QED BY <2>1, <4>1, <4>3
    <3> QED BY <3>1
  <2> DEFINE y == Division(w)
             m == w[1] \div w[2]
  <2>3. y \in Divisions /\ y[2] \in 0..(w[2] - 1)
    BY <2>1, <2>2, DivisionShrinks
  <2>4. y[1] = w[2] /\ y[2] = w[1] % w[2] /\ y[3] = w[4] /\ y[4] = w[3] - m * w[4]
    BY DEF Division
  <2>5. m \in Nat /\ w[1] = w[2] * m + y[2]
    <3> DEFINE b == w[1]
               c == w[2]
    <3>1. b \in Nat /\ c \in Nat /\ c # 0
      BY <2>1, <2>2
    <3> HIDE DEF b, c
    <3>2. b = c * (b \div c) + (b % c) /\ b \div c \in Nat
      BY <3>1
    <3> QED BY <2>4, <3>2 DEF b, c, m
  <2> HIDE DEF y, m
  <2>6. Same(y[2], a * y[4], q)
    <3>1. Same(w[2] * (-m), (a * w[4]) * (-m), q)
      <4>1. -m \in Int /\ a * w[4] \in Int
        BY <2>1, <2>5
      <4>2. Same(-m, -m, q)
        BY <4>1, SameOrder
      <4> QED BY <2>1, <4>1, <4>2, SameProduct
    <3>2. Same(w[1] + w[2] * (-m), a * w[3] + (a * w[4]) * (-m), q)
      <4>1. a * w[3] \in Int /\ w[2] * (-m) \in Int /\ (a * w[4]) * (-m) \in Int
        BY <2>1, <2>5
      <4>2. w[1] \in Int
        BY <2>1
      <4> QED BY <2>1, <3>1, <4>1, <4>2, SameSum
    <3>3. w[1] + w[2] * (-m) = y[2]
      BY <2>1, <2>3, <2>5
    <3>4. a * w[3] + (a * w[4]) * (-m) = a * (w[3] - m * w[4])
      BY <2>1, <2>5
    <3> QED BY <2>4, <3>2, <3>3, <3>4
  <2>7. y \in S
    BY <2>1, <2>2, <2>3, <2>4, <2>6
  <2>8. mu[y] < mu[w]
    BY <2>1, <2>3, <2>7
  <2>9. Euclid[w] = Euclid[y]
    BY <2>1, <2>2, EuclidUnfolds DEF y
  <2>10. ASSUME Good(y) PROVE Good(w)
    <3>1. PICK g \in Nat \ {0} : /\ Divides(g, y[1]) /\ Divides(g, y[2])
                                 /\ Same(g, a * Euclid[y], q)
      BY <2>10
    <3>2. PICK h \in Int : w[2] = g * h
      BY <2>4, <3>1 DEF Divides
    <3>3. PICK j \in Int : y[2] = g * j
      BY <3>1 DEF Divides
    <3>4. w[1] = g * (h * m + j) /\ h * m + j \in Int
      BY <2>1, <2>5, <3>2, <3>3
    <3>5. Divides(g, w[1]) /\ Divides(g, w[2])
      BY <3>2, <3>4 DEF Divides
    <3> QED BY <2>9, <2>10, <3>1, <3>5
  <2>11. y \in B
    <3> HIDE DEF Good
    <3> QED BY <2>7, <2>10
  <2> QED BY <2>8, <2>11
<1>3. B \subseteq S
  OBVIOUS
<1>4. B = {}
  <2> HIDE DEF S, Good, mu, B
  <2> QED BY <1>1, <1>2, <1>3, NoLeastElement
<1>5. v \in S
  OBVIOUS
<1> QED BY <1>4, <1>5

\* A divisor of a prime that divides a smaller number is 1.
LEMMA PrimeDivisor ==
    ASSUME NEW q \in Nat, IsPrime(q), NEW a \in Nat, a # 0, a < q,
           NEW g \in Nat, g # 0, Divides(g, q), Divides(g, a)
    PROVE  g = 1
<1>1. PICK h \in Int : q = g * h
  BY DEF Divides
<1>2. PICK j \in Int : a = g * j
  BY DEF Divides
<1>3. g <= a
  <2>1. j >= 1
    BY <1>2
  <2> QED BY <1>2, <2>1
<1>4. h \in Nat /\ h # 0
  BY <1>1
<1>5. SUFFICES ASSUME g # 1 PROVE FALSE
  OBVIOUS
<1>6. h > 1
  BY <1>1, <1>3, <1>4
<1>7. g \in 2..(q - 1) /\ h \in 2..(q - 1)
  <2>1. h < q
    BY <1>1, <1>4, <1>5
  <2> QED BY <1>3, <1>4, <1>5, <1>6, <2>1
<1>8. q % g = 0 /\ q % h = 0
  BY <1>1, <1>4, <1>7
<1>9. g * g <= q \/ h * h <= q
  <2>1. g <= h => g * g <= g * h
    BY <1>4
  <2>2. h <= g => h * h <= g * h
    BY <1>4
  <2>3. g <= h \/ h <= g
    BY <1>4
  <2> QED BY <1>1, <2>1, <2>2, <2>3
<1> QED BY <1>7, <1>8, <1>9 DEF IsPrime

\* The inverse is one, modulo a prime.
LEMMA InverseExact ==
    ASSUME NEW q \in Nat, IsPrime(q), NEW a \in 1..(q - 1)
    PROVE  ModInverse(a, q) \in 0..(q - 1) /\ Same(a * ModInverse(a, q), 1, q)
<1> DEFINE v == <<PosMod(a, q), q, 1, 0>>
           e == Euclid[v]
<1>1. ModInverse(a, q) = PosMod(e, q)
  BY DEF ModInverse, Euclid
<1>2. PosMod(a, q) = a /\ a \in Nat /\ a # 0 /\ a < q /\ q # 0
  BY DEF PosMod
<1>3. v[1] = a /\ v[2] = q /\ v[3] = 1 /\ v[4] = 0 /\ v \in Divisions
  BY <1>2 DEF Divisions
<1> HIDE DEF v
<1>4. Same(v[1], a * v[3], q) /\ Same(v[2], a * v[4], q)
  <2>1. Same(a, a, q) /\ a * 1 = a
    BY <1>2, SameOrder
  <2>2. q = 0 + 1 * q /\ a * 0 = 0
    OBVIOUS
  <2>3. Same(q, 0, q)
    BY <2>2 DEF Same
  <2> QED BY <1>3, <2>1, <2>2, <2>3
<1>5. e \in Int /\ \E g \in Nat \ {0} : Divides(g, a) /\ Divides(g, q) /\ Same(g, a * e, q)
  BY <1>2, <1>3, <1>4, EuclidDivides
<1> HIDE DEF e
<1>6. PICK g \in Nat \ {0} : Divides(g, a) /\ Divides(g, q) /\ Same(g, a * e, q)
  BY <1>5
<1>7. g = 1
  BY <1>2, <1>6, PrimeDivisor
<1>8. PosMod(e, q) \in 0..(q - 1) /\ Same(PosMod(e, q), e, q)
  BY <1>2, <1>5, SameRemainder DEF PosMod
<1>9. Same(a * PosMod(e, q), a * e, q)
  <2>1. Same(a, a, q) /\ PosMod(e, q) \in Int
    BY <1>2, <1>8, SameOrder
  <2> QED BY <1>2, <1>5, <1>8, <2>1, SameProduct
<1>10. Same(a * PosMod(e, q), 1, q)
  <2>1. a * PosMod(e, q) \in Int /\ a * e \in Int
    BY <1>2, <1>5, <1>8
  <2> QED BY <1>6, <1>7, <1>9, <2>1, SameOrder
<1> QED BY <1>1, <1>8, <1>10

------------------------------------------------------------------------------
(* Lagrange's polynomials *)

\* The remainder is in range and congruent, as one fact.
LEMMA PosModSame ==
    ASSUME NEW q \in Nat, q # 0, NEW x \in Int
    PROVE  /\ PosMod(x, q) \in 0..(q - 1) /\ PosMod(x, q) \in Int
           /\ Same(PosMod(x, q), x, q)
<1>1. PosMod(x, q) \in 0..(q - 1) /\ Same(PosMod(x, q), x, q)
  BY SameRemainder DEF PosMod
<1> QED BY <1>1

\* The coefficients of a basis polynomial, and its value.
Coefficients(b) == [d \in Nat |-> IF d < Len(b) THEN b[d + 1] ELSE 0]
ValueAt(b, x) == Run(Coefficients(b), 0, x)[Len(b)]

\* A list of integers has integer coefficients.
LEMMA CoefficientsTyped ==
    ASSUME NEW b \in Seq(Int)
    PROVE  Coefficients(b) \in [Nat -> Int] /\ Len(b) \in Nat
<1>1. Len(b) \in Nat /\ \A d \in 1..Len(b) : b[d] \in Int
  OBVIOUS
<1>2. \A d \in Nat : d < Len(b) => d + 1 \in 1..Len(b)
  BY <1>1
<1> QED BY <1>1, <1>2 DEF Coefficients

\* What the pass of the loop over j does to the coefficients ...
LEMMA FactorCoefficients ==
    ASSUME plaintext_mod \in Nat, plaintext_mod # 0,
           NEW b \in Seq(Int), NEW i \in Int, NEW j \in Int,
           NEW inv, inv = ModInverse(PosMod(i - j, plaintext_mod), plaintext_mod), inv \in Int
    PROVE  LET t == TimesFactor(b, i, j)
               C == Coefficients(b)
           IN  /\ t \in Seq(Int) /\ Len(t) = Len(b) + 1
               /\ \A d \in Nat :
                      Same(Coefficients(t)[d],
                           inv * ((IF d = 0 THEN 0 ELSE C[d - 1]) - j * C[d]), plaintext_mod)
<1> DEFINE q == plaintext_mod
           t == TimesFactor(b, i, j)
           C == Coefficients(b)
           n == Len(b)
           neg == PosMod(-j, q)
           X(d) == (<<0>> \o b)[d]
           Y(d) == Append(b, 0)[d]
           At(d) == PosMod(PosMod(X(d) * inv, q) + PosMod(PosMod(Y(d) * neg, q) * inv, q), q)
<1>1. n \in Nat /\ C \in [Nat -> Int]
  BY CoefficientsTyped
<1>2. t = [d \in 1..(n + 1) |-> At(d)]
  <2>1. DOMAIN Append(b, 0) = 1..(n + 1)
    OBVIOUS
  <2> QED BY <2>1 DEF TimesFactor
<1>3. ASSUME NEW d \in 0..n
      PROVE  X(d + 1) = (IF d = 0 THEN 0 ELSE C[d - 1]) /\ Y(d + 1) = C[d]
  <2>1. X(d + 1) = IF d = 0 THEN 0 ELSE b[d]
    OBVIOUS
  <2>2. Y(d + 1) = IF d = n THEN 0 ELSE b[d + 1]
    OBVIOUS
  <2>3. C[d] = IF d < n THEN b[d + 1] ELSE 0
    BY <1>1 DEF Coefficients
  <2>4. d # 0 => C[d - 1] = b[d]
    BY <1>1 DEF Coefficients
  <2> QED BY <2>1, <2>2, <2>3, <2>4, <1>1
<1>4. -j \in Int /\ neg \in Int /\ Same(neg, -j, q) /\ q \in Nat /\ q # 0
  <2>1. -j \in Int
    OBVIOUS
  <2> QED BY <2>1, PosModSame
<1>0. \A z \in Int : Same(z, z, q)
  BY SameOrder
<1>5. ASSUME NEW x \in Int, NEW y \in Int
      PROVE  LET r == PosMod(PosMod(x * inv, q) + PosMod(PosMod(y * neg, q) * inv, q), q)
             IN  r \in Int /\ Same(r, inv * (x - j * y), q)
  <2> DEFINE u == x * inv
             v == y * neg
             w == PosMod(v, q) * inv
  <2>1. u \in Int /\ PosMod(u, q) \in Int /\ Same(PosMod(u, q), u, q)
    <3>1. u \in Int
      OBVIOUS
    <3> HIDE DEF u
    <3> QED BY <3>1, PosModSame
  <2>2. v \in Int /\ PosMod(v, q) \in Int /\ Same(PosMod(v, q), v, q)
    <3>1. v \in Int
      BY <1>4
    <3> HIDE DEF v
    <3> QED BY <3>1, PosModSame
  <2>3. y * (-j) \in Int /\ Same(v, y * (-j), q)
    <3>1. Same(y, y, q)
      BY <1>0
    <3> HIDE DEF neg, q
    <3> QED BY <1>4, <3>1, SameProduct
  <2> HIDE DEF u, v
  <2>4. Same(PosMod(v, q), y * (-j), q)
    BY <2>2, <2>3, SameOrder
  <2>5. w \in Int /\ Same(w, (y * (-j)) * inv, q)
    <3>1. Same(inv, inv, q) /\ (y * (-j)) * inv \in Int /\ PosMod(v, q) * inv \in Int
      BY <1>0, <2>2, <2>3
    <3> HIDE DEF q
    <3> QED BY <1>4, <2>2, <2>3, <2>4, <3>1, SameProduct
  <2> HIDE DEF w
  <2>6. PosMod(w, q) \in Int /\ Same(PosMod(w, q), w, q)
    BY <2>5, PosModSame
  <2>7. (y * (-j)) * inv \in Int
    BY <2>3
  <2>8. Same(PosMod(w, q), (y * (-j)) * inv, q)
    BY <2>5, <2>6, <2>7, SameOrder
  <2> DEFINE yj == (y * (-j)) * inv
             z == PosMod(u, q) + PosMod(w, q)
             r == inv * (x - j * y)
  <2>9. yj \in Int /\ Same(PosMod(w, q), yj, q)
    BY <2>7, <2>8
  <2>10. u + yj = r /\ r \in Int
    BY DEF u
  <2> HIDE DEF yj, r
  <2>11. z \in Int /\ Same(z, r, q)
    <3>1. PosMod(u, q) \in Int /\ PosMod(w, q) \in Int /\ u \in Int
      BY <2>1, <2>6
    <3> DEFINE U == PosMod(u, q)
               W == PosMod(w, q)
    <3>2. U \in Int /\ W \in Int /\ Same(U, u, q) /\ Same(W, yj, q)
      BY <2>1, <2>9, <3>1
    <3> HIDE DEF q, U, W
    <3>3. Same(U + W, u + yj, q)
      BY <1>4, <2>9, <3>1, <3>2, SameSum
    <3> QED BY <2>10, <3>2, <3>3 DEF U, W
  <2> HIDE DEF z
  <2>12. PosMod(z, q) \in Int /\ Same(PosMod(z, q), z, q)
    BY <2>11, PosModSame
  <2>13. Same(PosMod(z, q), r, q)
    <3> HIDE DEF q
    <3> QED BY <1>4, <2>10, <2>11, <2>12, SameOrder
  <2> QED BY <2>12, <2>13 DEF z, w, v, u, r
<1>6. t \in Seq(Int) /\ Len(t) = n + 1
  <2>1. ASSUME NEW d \in 1..(n + 1) PROVE At(d) \in Int
    <3>1. d - 1 \in 0..n /\ (d - 1) + 1 = d
      BY <1>1
    <3>2. X(d) \in Int /\ Y(d) \in Int
      <4>1. C[d - 1] \in Int /\ (d - 1 # 0 => C[(d - 1) - 1] \in Int)
        BY <1>1, <3>1
      <4>2. X((d - 1) + 1) = (IF d - 1 = 0 THEN 0 ELSE C[(d - 1) - 1]) /\ Y((d - 1) + 1) = C[d - 1]
        BY <1>3, <3>1
      <4> HIDE DEF X, Y, C
      <4> QED BY <3>1, <4>1, <4>2
    <3> HIDE DEF X, Y
    <3> QED BY <1>5, <3>2
  <2>2. n + 1 \in Nat
    BY <1>1
  <2> HIDE DEF At, t
  <2> QED BY <1>2, <2>1, <2>2
<1>7. ASSUME NEW d \in Nat
      PROVE  Same(Coefficients(t)[d], inv * ((IF d = 0 THEN 0 ELSE C[d - 1]) - j * C[d]), q)
  <2>1. CASE d <= n
    <3>1. d \in 0..n /\ d + 1 \in 1..(n + 1) /\ d < n + 1
      BY <1>1, <2>1
    <3>2. Coefficients(t)[d] = At(d + 1)
      <4>1. Coefficients(t)[d] = t[d + 1]
        BY <1>6, <3>1 DEF Coefficients
      <4> HIDE DEF At, t
      <4> QED BY <1>2, <3>1, <4>1
    <3> DEFINE x == IF d = 0 THEN 0 ELSE C[d - 1]
               y == C[d]
    <3>3. X(d + 1) = x /\ Y(d + 1) = y /\ x \in Int /\ y \in Int
      <4>1. X(d + 1) = x /\ Y(d + 1) = y
        BY <1>3, <3>1
      <4>2. C[d] \in Int /\ (d # 0 => C[d - 1] \in Int)
        BY <1>1
      <4> HIDE DEF X, Y, C
      <4> QED BY <4>1, <4>2
    <3> HIDE DEF X, Y, x, y, C, t
    <3>4. Same(At(d + 1), inv * (x - j * y), q)
      BY <1>5, <3>3
    <3> HIDE DEF At
    <3> QED BY <3>2, <3>4 DEF x, y
  <2>2. CASE d > n
    <3>1. Coefficients(t)[d] = 0
      BY <1>1, <1>6, <2>2 DEF Coefficients
    <3>2. d # 0 /\ C[d - 1] = 0 /\ C[d] = 0
      BY <1>1, <2>2 DEF Coefficients
    <3>3. inv * (0 - j * 0) = 0
      OBVIOUS
    <3>4. Same(0, 0, q)
      BY SameOrder
    <3> HIDE DEF C, t
    <3> QED BY <3>1, <3>2, <3>3, <3>4
  <2> QED BY <1>1, <2>1, <2>2
<1> QED BY <1>6, <1>7

\* ... and to the value: it is multiplied with inv * (x - j).
LEMMA FactorValue ==
    ASSUME plaintext_mod \in Nat, plaintext_mod # 0,
           NEW b \in Seq(Int), NEW i \in Int, NEW j \in Int,
           NEW inv, inv = ModInverse(PosMod(i - j, plaintext_mod), plaintext_mod), inv \in Int,
           NEW x \in Int
    PROVE  /\ ValueAt(b, x) \in Int /\ ValueAt(TimesFactor(b, i, j), x) \in Int
           /\ Same(ValueAt(TimesFactor(b, i, j), x), (inv * (x - j)) * ValueAt(b, x), plaintext_mod)
<1> DEFINE q == plaintext_mod
           t == TimesFactor(b, i, j)
           B == Coefficients(b)
           C == Coefficients(t)
           n == Len(b)
           E == Power(x)
           R == Run(B, 0, x)
           Q == Run(C, 0, x)
           Shifted(m) == IF m = 0 THEN 0 ELSE x * R[m - 1]
           Before(m) == IF m = 0 THEN 0 ELSE B[m - 1]
           S == {m \in Nat : Same(Q[m], inv * (Shifted(m) - j * R[m]), q)}
<1>1. /\ t \in Seq(Int) /\ Len(t) = n + 1 /\ n \in Nat
      /\ B \in [Nat -> Int] /\ C \in [Nat -> Int]
      /\ \A d \in Nat : Same(C[d], inv * (Before(d) - j * B[d]), q)
  <2>1. /\ t \in Seq(Int) /\ Len(t) = n + 1
        /\ \A d \in Nat : Same(C[d], inv * ((IF d = 0 THEN 0 ELSE B[d - 1]) - j * B[d]), q)
    BY FactorCoefficients
  <2> HIDE DEF t, B, C
  <2> QED BY <2>1, CoefficientsTyped DEF B, C
<1>2. /\ E \in [Nat -> Int] /\ E[0] = 1 /\ \A d \in Nat : E[d + 1] = x * E[d]
      /\ R \in [Nat -> Int] /\ R[0] = 0 /\ \A m \in Nat : R[m + 1] = R[m] + B[m] * E[m]
      /\ Q \in [Nat -> Int] /\ Q[0] = 0 /\ \A m \in Nat : Q[m + 1] = Q[m] + C[m] * E[m]
  <2>1. \A m \in Nat : 0 + m = m /\ (m + 1) - 1 = m /\ m + 1 \in Nat \ {0}
    OBVIOUS
  <2>2. 0 \in Nat
    OBVIOUS
  <2> HIDE DEF B, C
  <2>3. \A d \in Nat : E[d + 1] = x * E[d]
    BY <2>1, PowerUnfolds
  <2>4. \A m \in Nat : R[m + 1] = R[m] + B[0 + m] * E[m]
    BY <1>1, <2>2, RunUnfolds
  <2>5. \A m \in Nat : Q[m + 1] = Q[m] + C[0 + m] * E[m]
    BY <1>1, <2>2, RunUnfolds
  <2>6. E \in [Nat -> Int] /\ E[0] = 1
    BY PowerUnfolds
  <2>7. R \in [Nat -> Int] /\ R[0] = 0 /\ Q \in [Nat -> Int] /\ Q[0] = 0
    BY <1>1, <2>2, RunUnfolds
  <2> HIDE DEF E, R, Q
  <2> QED BY <2>1, <2>3, <2>4, <2>5, <2>6, <2>7
<1>3. q \in Nat /\ \A z \in Int : Same(z, z, q)
  BY SameOrder
<1> HIDE DEF t, B, C, E, R, Q, n, q
<1>4. 0 \in S
  <2>1. inv * (0 - j * 0) = 0
    OBVIOUS
  <2> QED BY <1>2, <1>3, <2>1
<1>5. ASSUME NEW m \in Nat, m \in S PROVE m + 1 \in S
  <2> DEFINE s == Shifted(m)
             r == R[m]
             c == C[m]
             d == Before(m)
             e == B[m]
             u == E[m]
             v == Q[m]
             y == inv * (s - j * r)
             z == inv * (d - j * e)
  <2>1. /\ s \in Int /\ r \in Int /\ c \in Int /\ d \in Int /\ e \in Int /\ u \in Int
        /\ v \in Int
    <3>1. m # 0 => m - 1 \in Nat
      OBVIOUS
    <3>2. m # 0 => R[m - 1] \in Int /\ B[m - 1] \in Int
      BY <1>1, <1>2, <3>1
    <3>3. s \in Int /\ d \in Int
      <4> DEFINE a == R[m - 1]
      <4>1. m # 0 => a \in Int
        BY <3>2
      <4> HIDE DEF a
      <4>2. m # 0 => x * a \in Int
        BY <4>1
      <4>3. s = IF m = 0 THEN 0 ELSE x * a
        BY DEF a
      <4> HIDE DEF s
      <4> QED BY <3>2, <4>2, <4>3
    <3> HIDE DEF s, d
    <3> QED BY <1>1, <1>2, <3>3
  <2>2. s + d * u = x * r
    <3>1. CASE m = 0
      BY <1>2, <3>1
    <3>2. CASE m # 0
      <4> DEFINE a == R[m - 1]
                 f == B[m - 1]
                 g == E[m - 1]
      <4>1. m - 1 \in Nat /\ (m - 1) + 1 = m
        BY <3>2
      <4>2. R[m] = a + f * g /\ E[m] = x * g /\ a \in Int /\ f \in Int /\ g \in Int
        BY <1>1, <1>2, <4>1
      <4>3. s = x * a /\ d = f
        BY <3>2
      <4> HIDE DEF a, f, g, s, d
      <4>4. x * a + f * (x * g) = x * (a + f * g)
        BY <4>2
      <4> QED BY <4>2, <4>3, <4>4
    <3> QED BY <3>1, <3>2
  <2>3. Q[m + 1] = v + c * u /\ R[m + 1] = r + e * u /\ Shifted(m + 1) = x * r
    <3>1. m + 1 # 0 /\ (m + 1) - 1 = m
      OBVIOUS
    <3> QED BY <1>2, <3>1
  <2>4. Same(v, y, q) /\ Same(c, z, q)
    BY <1>1, <1>5
  <2> HIDE DEF s, r, c, d, e, u, v
  <2>5. y \in Int /\ z \in Int
    BY <2>1
  <2>6. y + z * u = inv * (x * r - j * (r + e * u))
    <3>1. y + z * u = inv * ((s + d * u) - j * (r + e * u))
      BY <2>1
    <3> QED BY <2>2, <3>1
  <2> HIDE DEF y, z
  <2>7. Same(c * u, z * u, q)
    BY <1>3, <2>1, <2>4, <2>5, SameProduct
  <2> DEFINE cu == c * u
             zu == z * u
  <2>8. cu \in Int /\ zu \in Int /\ Same(cu, zu, q)
    BY <2>1, <2>5, <2>7
  <2> HIDE DEF cu, zu
  <2>9. Same(v + cu, y + zu, q)
    BY <1>3, <2>1, <2>4, <2>5, <2>8, SameSum
  <2>10. Same(Q[m + 1], inv * (Shifted(m + 1) - j * R[m + 1]), q)
    BY <2>3, <2>6, <2>9 DEF cu, zu
  <2> QED BY <2>10
<1>6. Nat \subseteq S
  <2> HIDE DEF S
  <2> QED BY <1>4, <1>5, InductiveSet
<1>7. R[n + 1] = R[n] /\ R[n] \in Int
  <2>1. B[n] = 0
    BY <1>1 DEF B, Coefficients, n
  <2>2. E[n] \in Int /\ R[n] \in Int
    BY <1>1, <1>2
  <2>3. R[n + 1] = R[n] + 0 * E[n]
    BY <1>1, <1>2, <2>1
  <2> QED BY <2>2, <2>3
<1>8. Shifted(n + 1) = x * R[n]
  <2>1. n + 1 # 0 /\ (n + 1) - 1 = n
    BY <1>1
  <2> QED BY <2>1
<1>9. Same(Q[n + 1], inv * (Shifted(n + 1) - j * R[n + 1]), q)
  <2>1. n + 1 \in S
    BY <1>1, <1>6
  <2> QED BY <2>1
<1>10. Same(Q[n + 1], inv * (x * R[n] - j * R[n]), q)
  <2> HIDE DEF Shifted
  <2> QED BY <1>7, <1>8, <1>9
<1>11. inv * (x * R[n] - j * R[n]) = (inv * (x - j)) * R[n]
  <2> DEFINE r == R[n]
  <2>1. r \in Int
    BY <1>7
  <2> HIDE DEF r
  <2>2. inv * (x * r - j * r) = (inv * (x - j)) * r
    BY <2>1
  <2> QED BY <2>2 DEF r
<1>12. ValueAt(b, x) = R[n] /\ ValueAt(t, x) = Q[n + 1]
  BY <1>1 DEF ValueAt, R, Q, B, C, n
<1>13. Q[n + 1] \in Int
  BY <1>1, <1>2
<1> QED BY <1>7, <1>10, <1>11, <1>12, <1>13 DEF t, q

\* The modulus is a prime above every point.
PrimeAbove == /\ plaintext_mod \in Nat /\ IsPrime(plaintext_mod) /\ plaintext_mod > 1
              /\ inst.k \in Nat /\ inst.k < plaintext_mod

\* The inverse of a difference of two points.
LEMMA DifferenceInverse ==
    ASSUME PrimeAbove, NEW i \in 0..inst.k, NEW j \in 0..inst.k, i # j
    PROVE  LET inv == ModInverse(PosMod(i - j, plaintext_mod), plaintext_mod)
           IN  inv \in Int /\ Same(inv * (i - j), 1, plaintext_mod)
<1> DEFINE q == plaintext_mod
           k == inst.k
           a == PosMod(i - j, q)
           inv == ModInverse(a, q)
<1>1. q \in Nat /\ q > 1 /\ k \in Nat /\ k < q /\ IsPrime(q)
  BY DEF PrimeAbove
<1>2. i - j \in Int /\ i - j # 0 /\ i - j < q /\ -(i - j) < q
  BY <1>1
<1> DEFINE e == i - j
<1> HIDE DEF q, k, e
<1>3. PosMod(e, q) \in 0..(q - 1) /\ Same(PosMod(e, q), e, q)
  BY <1>1, <1>2, PosModSame DEF e
<1>4. PosMod(e, q) # 0
  <2>1. SUFFICES ASSUME PosMod(e, q) = 0 PROVE FALSE
    OBVIOUS
  <2>2. Same(0, e, q)
    BY <1>3, <2>1
  <2>3. PICK h \in Int : 0 = e + h * q
    BY <2>2 DEF Same
  <2>4. h >= 1 => h * q >= q
    BY <1>1
  <2>5. h <= -1 => h * q <= -q
    BY <1>1
  <2> QED BY <1>1, <1>2, <2>3, <2>4, <2>5 DEF e
<1>5. a \in 1..(q - 1) /\ Same(a, e, q)
  BY <1>1, <1>3, <1>4 DEF e
<1> HIDE DEF a
<1>6. inv \in 0..(q - 1) /\ Same(a * inv, 1, q)
  BY <1>1, <1>5, InverseExact
<1> HIDE DEF inv
<1>7. inv \in Int /\ a \in Int /\ e \in Int /\ a * inv \in Int /\ inv * e \in Int
  <2>1. inv \in Int /\ a \in Int /\ e \in Int
    BY <1>2, <1>5, <1>6 DEF e
  <2> QED BY <2>1
<1>8. Same(inv * a, inv * e, q)
  <2>1. Same(inv, inv, q)
    BY <1>1, <1>7, SameOrder
  <2> QED BY <1>1, <1>5, <1>7, <2>1, SameProduct
<1>9. a * inv = inv * a
  BY <1>7
<1> DEFINE u == a * inv
           v == inv * e
<1>10. u \in Int /\ v \in Int /\ Same(u, v, q) /\ Same(u, 1, q)
  BY <1>6, <1>7, <1>8, <1>9
<1> HIDE DEF u, v
<1>11. Same(v, 1, q)
  BY <1>1, <1>10, SameOrder
<1> QED BY <1>7, <1>11 DEF v, e, inv, a, q

\* The products of Basis.
Factors(i) == CHOOSE f : f = [j \in -1..inst.k |->
    IF j = -1 THEN <<1>>
    ELSE IF j = i THEN f[j - 1]
    ELSE TimesFactor(f[j - 1], i, j)]

\* Factors obeys its equation.
LEMMA FactorsUnfold ==
    ASSUME PrimeAbove, NEW i \in 0..inst.k
    PROVE  \A j \in -1..inst.k :
               Factors(i)[j] = IF j = -1 THEN <<1>>
                               ELSE IF j = i THEN Factors(i)[j - 1]
                               ELSE TimesFactor(Factors(i)[j - 1], i, j)
<1> DEFINE D == -1..inst.k
           T == Seq(Int)
           F == [D -> T]
           mu == [j \in D |-> j + 1]
           Value(f, j) == IF j = -1 THEN <<1>>
                          ELSE IF j = i THEN f[j - 1]
                          ELSE TimesFactor(f[j - 1], i, j)
           H == [j \in D |-> [f \in F |-> Value(f, j)]]
           Body(f) == [j \in D |-> Value(f, j)]
<1>1. inst.k \in Nat /\ plaintext_mod \in Nat /\ plaintext_mod # 0
  BY DEF PrimeAbove
<1>2. \A j \in D : j # -1 => j - 1 \in D /\ j \in 0..inst.k /\ mu[j - 1] < mu[j]
  BY <1>1
<1>3. LooksBack(D, T, mu, H)
  <2>1. mu \in [D -> Nat]
    BY <1>1
  <2>2. ASSUME NEW j \in D, NEW f \in F PROVE H[j][f] \in T
    <3>1. H[j][f] = Value(f, j)
      OBVIOUS
    <3>2. <<1>> \in T
      OBVIOUS
    <3>3. j # -1 => f[j - 1] \in T
      BY <1>2
    <3>4. j # -1 /\ j # i => TimesFactor(f[j - 1], i, j) \in T
      <4>1. ASSUME j # -1, j # i PROVE TimesFactor(f[j - 1], i, j) \in T
        <5>1. j \in 0..inst.k /\ i \in Int /\ j \in Int
          BY <1>1, <1>2, <4>1
        <5>2. ModInverse(PosMod(i - j, plaintext_mod), plaintext_mod) \in Int
          BY <4>1, <5>1, DifferenceInverse
        <5> QED BY <1>1, <3>3, <4>1, <5>1, <5>2, FactorCoefficients
      <4> QED BY <4>1
    <3> QED BY <3>1, <3>2, <3>3, <3>4
  <2>3. ASSUME NEW j \in D, NEW f \in F, NEW g \in F,
               \A y \in D : mu[y] < mu[j] => f[y] = g[y]
        PROVE  H[j][f] = H[j][g]
    <3>1. H[j][f] = Value(f, j) /\ H[j][g] = Value(g, j)
      OBVIOUS
    <3>2. j # -1 => f[j - 1] = g[j - 1]
      BY <1>2, <2>3
    <3> QED BY <3>1, <3>2
  <2> HIDE DEF D, T, mu, H
  <2> QED BY <2>1, <2>2, <2>3 DEF LooksBack
<1>4. PICK f \in F : f = [j \in D |-> H[j][f]]
  <2>1. <<1>> \in T
    OBVIOUS
  <2> HIDE DEF D, T, mu, H
  <2> QED BY <1>3, <2>1, MeasuredFunctionExists
<1>5. f = Body(f)
  <2>1. \A j \in D : H[j][f] = Value(f, j)
    OBVIOUS
  <2> HIDE DEF H, Value, D, T
  <2> QED BY <1>4, <2>1
<1>6. Factors(i) = Body(Factors(i))
  <2>1. Factors(i) = CHOOSE g : g = Body(g)
    BY DEF Factors
  <2> HIDE DEF Body
  <2> QED BY <1>5, <2>1
<1> QED
  <2> HIDE DEF Value
  <2>1. \A j \in D : Factors(i)[j] = Value(Factors(i), j)
    BY <1>6
  <2> QED BY <2>1 DEF Value

\* After the factors up to j: 1 at the point itself, 0 at the other points up to j.
LEMMA FactorsInterpolate ==
    ASSUME PrimeAbove, NEW i \in 0..inst.k
    PROVE  \A n \in Nat : n <= inst.k + 1 =>
               /\ Factors(i)[n - 1] \in Seq(Int)
               /\ Len(Factors(i)[n - 1]) = IF n - 1 < i THEN n + 1 ELSE n
               /\ \A x \in 0..inst.k :
                      /\ ValueAt(Factors(i)[n - 1], x) \in Int
                      /\ x = i => Same(ValueAt(Factors(i)[n - 1], x), 1, plaintext_mod)
                      /\ x # i /\ x < n => Same(ValueAt(Factors(i)[n - 1], x), 0, plaintext_mod)
<1> DEFINE q == plaintext_mod
           k == inst.k
           U(n) == Factors(i)[n - 1]
           Claim(n) == /\ U(n) \in Seq(Int)
                       /\ Len(U(n)) = IF n - 1 < i THEN n + 1 ELSE n
                       /\ \A x \in 0..k :
                              /\ ValueAt(U(n), x) \in Int
                              /\ x = i => Same(ValueAt(U(n), x), 1, q)
                              /\ x # i /\ x < n => Same(ValueAt(U(n), x), 0, q)
           S == {n \in Nat : n <= k + 1 => Claim(n)}
<1>1. q \in Nat /\ q > 1 /\ k \in Nat /\ i \in Nat /\ i <= k
  BY DEF PrimeAbove
<1>2. 0 \in S
  <2>1. U(0) = <<1>>
    <3>1. -1 \in -1..k /\ 0 - 1 = -1
      BY <1>1
    <3> QED BY <3>1, FactorsUnfold
  <2> DEFINE b == <<1>>
  <2>2. b \in Seq(Int) /\ Len(b) = 1 /\ b[1] = 1
    OBVIOUS
  <2> HIDE DEF b
  <2>3. ASSUME NEW x \in Int PROVE ValueAt(b, x) = 1
    <3>1. Coefficients(b) \in [Nat -> Int]
      BY <2>2, CoefficientsTyped
    <3>2. Coefficients(b)[0] = 1
      BY <2>2 DEF Coefficients
    <3> DEFINE c == Coefficients(b)
    <3>3. Run(c, 0, x)[0] = 0 /\ Run(c, 0, x)[0 + 1] = Run(c, 0, x)[0] + c[0 + 0] * Power(x)[0]
      <4>1. c \in [Nat -> Int] /\ 0 \in Nat
        BY <3>1
      <4> HIDE DEF c
      <4>2. /\ Run(c, 0, x)[0] = 0
            /\ \A n \in Nat : Run(c, 0, x)[n + 1] = Run(c, 0, x)[n] + c[0 + n] * Power(x)[n]
        BY <4>1, RunUnfolds
      <4> QED BY <4>2
    <3>4. Power(x)[0] = 1 /\ 0 + 1 = 1 /\ 0 + 0 = 0
      BY PowerUnfolds
    <3>5. Run(Coefficients(b), 0, x)[1] = 0 + 1 * 1
      BY <3>2, <3>3, <3>4
    <3> QED BY <2>2, <3>5 DEF ValueAt
  <2>4. Same(1, 1, q)
    BY <1>1, SameOrder
  <2>5. Claim(0)
    <3> HIDE DEF q
    <3> QED BY <1>1, <2>1, <2>2, <2>3, <2>4 DEF b
  <2> HIDE DEF Claim
  <2> QED BY <2>5
<1>3. ASSUME NEW n \in Nat, n \in S PROVE n + 1 \in S
  <2>1. SUFFICES ASSUME n + 1 <= k + 1 PROVE Claim(n + 1)
    <3> HIDE DEF Claim
    <3> QED OBVIOUS
  <2>2. n \in 0..k /\ n \in -1..k /\ n # -1 /\ (n + 1) - 1 = n
    BY <1>1, <2>1
  <2>3. Claim(n)
    <3>1. n <= k + 1
      BY <1>1, <2>2
    <3> HIDE DEF Claim
    <3> QED BY <1>3, <3>1
  <2>4. U(n + 1) = IF n = i THEN U(n) ELSE TimesFactor(U(n), i, n)
    BY <2>2, FactorsUnfold
  <2>5. CASE n = i
    <3>1. U(n + 1) = U(n)
      BY <2>4, <2>5
    <3>2. Len(U(n)) = n + 1
      BY <1>1, <2>2, <2>3, <2>5
    <3>3. \A x \in 0..k : x # i /\ x < n + 1 => x < n
      BY <1>1, <2>5
    <3> HIDE DEF U
    <3> QED BY <1>1, <2>2, <2>3, <2>5, <3>1, <3>2, <3>3
  <2>6. CASE n # i
    <3> DEFINE b == U(n)
               inv == ModInverse(PosMod(i - n, q), q)
    <3>1. U(n + 1) = TimesFactor(b, i, n)
      BY <2>4, <2>6
    <3>2. b \in Seq(Int) /\ Len(b) = IF n - 1 < i THEN n + 1 ELSE n
      BY <2>3
    <3>3. inv \in Int /\ Same(inv * (i - n), 1, q)
      BY <2>2, <2>6, DifferenceInverse
    <3>4. TimesFactor(b, i, n) \in Seq(Int) /\ Len(TimesFactor(b, i, n)) = Len(b) + 1
      <4>1. i \in Int /\ n \in Int /\ q # 0
        BY <1>1
      <4> HIDE DEF b
      <4> QED BY <1>1, <3>2, <3>3, <4>1, FactorCoefficients
    <3>5. Len(U(n + 1)) = IF (n + 1) - 1 < i THEN (n + 1) + 1 ELSE n + 1
      <4> HIDE DEF b, U
      <4> QED BY <1>1, <2>6, <3>1, <3>2, <3>4
    <3>6. ASSUME NEW x \in 0..k
          PROVE  /\ ValueAt(U(n + 1), x) \in Int
                 /\ x = i => Same(ValueAt(U(n + 1), x), 1, q)
                 /\ x # i /\ x < n + 1 => Same(ValueAt(U(n + 1), x), 0, q)
      <4> DEFINE v == ValueAt(b, x)
                 w == ValueAt(U(n + 1), x)
                 f == inv * (x - n)
      <4>1. x \in Int /\ i \in Int /\ n \in Int /\ q # 0
        BY <1>1
      <4>2. v \in Int /\ w \in Int /\ Same(w, f * v, q)
        <5> HIDE DEF b, U
        <5> QED BY <1>1, <3>1, <3>2, <3>3, <4>1, FactorValue
      <4>3. /\ x = i => Same(v, 1, q)
            /\ x # i /\ x < n => Same(v, 0, q)
        BY <2>3
      <4>4. f \in Int /\ (x = i => Same(f, 1, q)) /\ (x = n => f = 0)
        BY <3>3, <4>1
      <4> HIDE DEF f, v, w, inv, b, U
      <4>5. f * v \in Int
        BY <4>2, <4>4
      <4>6. x = i => Same(w, 1, q)
        <5>1. ASSUME x = i PROVE Same(w, 1, q)
          <6>1. Same(f * v, 1 * 1, q)
            BY <1>1, <4>2, <4>3, <4>4, <5>1, SameProduct
          <6> DEFINE g == f * v
          <6>2. g \in Int /\ Same(w, g, q) /\ Same(g, 1, q)
            BY <4>2, <4>5, <6>1
          <6> HIDE DEF g, q
          <6> QED BY <1>1, <4>2, <6>2, SameOrder
        <5> QED BY <5>1
      <4>7. x # i /\ x < n + 1 => Same(w, 0, q)
        <5>1. ASSUME x # i, x < n + 1 PROVE Same(w, 0, q)
          <6> DEFINE g == f * v
          <6>1. CASE x = n
            <7>1. f * v = 0
              BY <4>2, <4>4, <6>1
            <7> QED BY <4>2, <7>1
          <6>2. CASE x < n
            <7>1. Same(f, f, q)
              BY <1>1, <4>4, SameOrder
            <7>2. Same(f * v, f * 0, q)
              BY <1>1, <4>2, <4>3, <4>4, <5>1, <6>2, <7>1, SameProduct
            <7>3. f * 0 = 0
              BY <4>4
            <7>4. g \in Int /\ Same(w, g, q) /\ Same(g, 0, q)
              BY <4>2, <4>5, <7>2, <7>3
            <7> HIDE DEF g, q
            <7> QED BY <1>1, <4>2, <7>4, SameOrder
          <6> QED BY <4>1, <5>1, <6>1, <6>2
        <5> QED BY <5>1
      <4> QED BY <4>2, <4>6, <4>7 DEF w
    <3>7. U(n + 1) \in Seq(Int)
      BY <3>1, <3>4
    <3> HIDE DEF U, b, inv
    <3> QED BY <3>5, <3>6, <3>7
  <2> QED BY <2>5, <2>6
<1>4. Nat \subseteq S
  <2> HIDE DEF S
  <2> QED BY <1>2, <1>3, InductiveSet
<1> QED BY <1>4

\* The Lagrange polynomial of point i is 1 at i and 0 at the other points.
LEMMA BasisInterpolates ==
    ASSUME PrimeAbove, NEW i \in 0..inst.k
    PROVE  /\ Basis(i) \in Seq(Int) /\ Len(Basis(i)) = inst.k + 1
           /\ \A x \in 0..inst.k :
                  /\ ValueAt(Basis(i), x) \in Int
                  /\ Same(ValueAt(Basis(i), x), IF x = i THEN 1 ELSE 0, plaintext_mod)
<1>1. Basis(i) = Factors(i)[inst.k]
  BY DEF Basis, Factors
<1>2. inst.k \in Nat /\ inst.k + 1 \in Nat /\ (inst.k + 1) - 1 = inst.k /\ inst.k + 1 <= inst.k + 1
      /\ ~(inst.k < i) /\ \A x \in 0..inst.k : x < inst.k + 1
  BY DEF PrimeAbove
<1>3. LET b == Factors(i)[(inst.k + 1) - 1]
      IN  /\ b \in Seq(Int)
          /\ Len(b) = IF (inst.k + 1) - 1 < i THEN (inst.k + 1) + 1 ELSE inst.k + 1
          /\ \A x \in 0..inst.k :
                 /\ ValueAt(b, x) \in Int
                 /\ x = i => Same(ValueAt(b, x), 1, plaintext_mod)
                 /\ x # i /\ x < inst.k + 1 => Same(ValueAt(b, x), 0, plaintext_mod)
  BY <1>2, FactorsInterpolate
<1> QED BY <1>1, <1>2, <1>3

------------------------------------------------------------------------------
(* The threshold polynomial *)

Picked(s) == CHOOSE x \in s : TRUE

\* The sums of MapThenSumSet over the subsets of A, of the coefficients of x^d.
Totals(bases, A, d) == CHOOSE f : f = [s \in SUBSET A |->
    IF s = {} THEN 0
    ELSE bases[Picked(s)][d + 1] + f[s \ {Picked(s)}]]

\* MapThenSumSet is such a total.
LEMMA SumIsTotal ==
    ASSUME NEW bases, NEW A, NEW d
    PROVE  MapThenSumSet(LAMBDA i : bases[i][d + 1], A) = Totals(bases, A, d)[A]
BY DEF MapThenSumSet, MapThenFoldSet, Totals, Picked

HasCoefficient(bases, A, d) == \A i \in A : bases[i][d + 1] \in Int

\* The total is the picked member's coefficient and the total of the others.
Peeled(bases, A, d, s) == s # {} =>
    /\ Picked(s) \in s
    /\ Totals(bases, A, d)[s]
         = bases[Picked(s)][d + 1] + Totals(bases, A, d)[s \ {Picked(s)}]

\* The totals are integers and obey their equation.
LEMMA TotalsUnfold ==
    ASSUME NEW A, IsFiniteSet(A), NEW bases, NEW d \in Nat,
           HasCoefficient(bases, A, d)
    PROVE  /\ Totals(bases, A, d) \in [SUBSET A -> Int]
           /\ Totals(bases, A, d)[{}] = 0
           /\ \A s \in SUBSET A : Peeled(bases, A, d, s)
<1> DEFINE D == SUBSET A
           F == [D -> Int]
           mu == [s \in D |-> Cardinality(s)]
           e(s) == Picked(s)
           Value(f, s) == IF s = {} THEN 0 ELSE bases[e(s)][d + 1] + f[s \ {e(s)}]
           H == [s \in D |-> [f \in F |-> Value(f, s)]]
           Body(f) == [s \in D |-> Value(f, s)]
<1>0. \A i \in A : bases[i][d + 1] \in Int
  BY DEF HasCoefficient
<1>1. ASSUME NEW s \in D, s # {}
      PROVE  e(s) \in s /\ e(s) \in A /\ s \ {e(s)} \in D /\ mu[s \ {e(s)}] < mu[s]
  <2>1. e(s) \in s
    BY <1>1 DEF Picked
  <2> HIDE DEF e
  <2>2. IsFiniteSet(s)
    BY FS_Subset
  <2>3. /\ Cardinality(s \ {e(s)}) = Cardinality(s) - 1
        /\ Cardinality(s) \in Nat
    BY <2>1, <2>2, FS_RemoveElement, FS_CardinalityType
  <2>4. s \ {e(s)} \in D
    OBVIOUS
  <2> QED BY <2>1, <2>3, <2>4
<1> HIDE DEF e
<1>2. LooksBack(D, Int, mu, H)
  <2>1. mu \in [D -> Nat]
    <3>1. ASSUME NEW s \in D PROVE Cardinality(s) \in Nat
      BY FS_Subset, FS_CardinalityType
    <3> QED BY <3>1
  <2>2. ASSUME NEW s \in D, NEW f \in F PROVE H[s][f] \in Int
    <3>1. H[s][f] = Value(f, s)
      OBVIOUS
    <3>2. s # {} => f[s \ {e(s)}] \in Int /\ bases[e(s)][d + 1] \in Int
      BY <1>0, <1>1
    <3> QED BY <3>1, <3>2
  <2>3. ASSUME NEW s \in D, NEW f \in F, NEW g \in F,
               \A y \in D : mu[y] < mu[s] => f[y] = g[y]
        PROVE  H[s][f] = H[s][g]
    <3>1. H[s][f] = Value(f, s) /\ H[s][g] = Value(g, s)
      OBVIOUS
    <3>2. s # {} => f[s \ {e(s)}] = g[s \ {e(s)}]
      BY <1>1, <2>3
    <3> QED BY <3>1, <3>2
  <2> HIDE DEF D, mu, H
  <2> QED BY <2>1, <2>2, <2>3 DEF LooksBack
<1>3. PICK f \in F : f = [s \in D |-> H[s][f]]
  <2>1. 0 \in Int
    OBVIOUS
  <2> HIDE DEF D, mu, H
  <2> QED BY <1>2, <2>1, MeasuredFunctionExists
<1>4. f = Body(f)
  <2>1. \A s \in D : H[s][f] = Value(f, s)
    OBVIOUS
  <2> HIDE DEF H, Value, D
  <2> QED BY <1>3, <2>1
<1> DEFINE T == Totals(bases, A, d)
<1>5. T = Body(T)
  <2>1. T = CHOOSE g : g = Body(g)
    BY DEF Totals, e
  <2> HIDE DEF Body, T
  <2> QED BY <1>4, <2>1
<1> HIDE DEF T
<1>6. \A s \in D : T[s] = Value(T, s)
  <2> HIDE DEF Value, D
  <2> QED BY <1>5
<1>7. DOMAIN T = D /\ T = [s \in D |-> T[s]]
  <2> HIDE DEF Value, D
  <2> QED BY <1>5
<1> DEFINE B == {s \in D : T[s] \notin Int}
<1>8. B = {}
  <2>1. mu \in [D -> Nat] /\ B \subseteq D
    BY <1>2 DEF LooksBack
  <2>2. ASSUME NEW s \in B PROVE \E y \in B : mu[y] < mu[s]
    <3>1. s \in D /\ T[s] \notin Int /\ T[s] = Value(T, s)
      BY <1>6
    <3>2. s # {} /\ bases[e(s)][d + 1] \in Int
      <4>1. s # {}
        BY <3>1
      <4>2. e(s) \in A
        <5> HIDE DEF D, mu
        <5> QED BY <1>1, <3>1, <4>1
      <4> QED BY <1>0, <4>1, <4>2
    <3>3. T[s \ {e(s)}] \notin Int
      BY <3>1, <3>2
    <3>4. s \ {e(s)} \in B /\ mu[s \ {e(s)}] < mu[s]
      <4>1. s \ {e(s)} \in D /\ mu[s \ {e(s)}] < mu[s]
        BY <1>1, <3>2
      <4> HIDE DEF mu, D
      <4> QED BY <3>3, <4>1
    <3> QED BY <3>4
  <2> HIDE DEF mu, B, D
  <2> QED BY <2>1, <2>2, NoLeastElement
<1>9. T \in [D -> Int]
  <2> HIDE DEF D
  <2> QED BY <1>7, <1>8
<1>10. T[{}] = 0
  BY <1>6
<1>11. ASSUME NEW s \in D, s # {}
       PROVE  e(s) \in s /\ T[s] = bases[e(s)][d + 1] + T[s \ {e(s)}]
  <2>1. e(s) \in s
    BY <1>1, <1>11
  <2> QED BY <1>6, <1>11, <2>1
<1>12. ASSUME NEW s \in D PROVE Peeled(bases, A, d, s)
  BY <1>11 DEF T, e, Peeled
<1> QED BY <1>9, <1>10, <1>12 DEF T

\* A polynomial's coefficients, those beyond its degree included.
Padded(f) == [d \in Nat |-> IF d <= inst.k THEN f[d] ELSE 0]

\* The sum of the basis polynomials of some accepted points, before the last reduction.
Bases == [i \in Accepting |-> Basis(i)]
Partial(s) == [d \in Nat |-> IF d <= inst.k THEN Totals(Bases, Accepting, d)[s] ELSE 0]

\* The accepted points are the numbers of matches from tau on.
LEMMA AcceptedPoints ==
    ASSUME PrimeAbove, inst.tau \in 0..(inst.k + 1)
    PROVE  /\ IsFiniteSet(Accepting) /\ Accepting \subseteq 0..inst.k
           /\ \A x \in 0..inst.k : x \in Accepting <=> x >= inst.tau
           /\ \A i \in Accepting : Bases[i] = Basis(i)
           /\ \A i \in Accepting : \A d \in 0..inst.k : Bases[i][d + 1] \in Int
<1>1. inst.k \in Nat /\ inst.tau \in Int /\ inst.k \in Int /\ inst.tau >= 0
  BY DEF PrimeAbove
<1>2. IsFiniteSet(Accepting)
  <2>1. IsFiniteSet(inst.tau..inst.k)
    BY <1>1, FS_Interval, ZenonT(40)
  <2> QED BY <2>1 DEF Accepting
<1>3. Accepting \subseteq 0..inst.k
  BY <1>1 DEF Accepting
<1>4. \A x \in 0..inst.k : x \in Accepting <=> x >= inst.tau
  BY <1>1 DEF Accepting
<1>5. \A i \in Accepting : Bases[i] = Basis(i)
  BY DEF Bases
<1>6. ASSUME NEW i \in Accepting, NEW d \in 0..inst.k PROVE Bases[i][d + 1] \in Int
  <2>1. Basis(i) \in Seq(Int) /\ Len(Basis(i)) = inst.k + 1
    BY <1>3, BasisInterpolates
  <2>2. d + 1 \in 1..(inst.k + 1)
    BY <1>1
  <2> QED BY <1>5, <2>1, <2>2
<1> QED BY <1>2, <1>3, <1>4, <1>5, <1>6

\* With the points of s summed, the value at x says whether x is one of them.
LEMMA PartialDecides ==
    ASSUME PrimeAbove, inst.tau \in 0..(inst.k + 1), NEW x \in 0..inst.k
    PROVE  \A s \in SUBSET Accepting :
               /\ Partial(s) \in [Nat -> Int]
               /\ Same(Run(Partial(s), 0, x)[inst.k + 1], IF x \in s THEN 1 ELSE 0, plaintext_mod)
<1> DEFINE q == plaintext_mod
           k == inst.k
           A == Accepting
           D == SUBSET A
           V(s) == Run(Partial(s), 0, x)[k + 1]
           One(s) == IF x \in s THEN 1 ELSE 0
           mu == [s \in D |-> Cardinality(s)]
           B == {s \in D : ~Same(V(s), One(s), q)}
<1>1. q \in Nat /\ q # 0 /\ k \in Nat /\ x \in Int /\ x \in Nat /\ k + 1 \in Nat /\ 0 \in Nat
  BY DEF PrimeAbove
<1>2. /\ IsFiniteSet(A) /\ A \subseteq 0..k
      /\ \A i \in A : Bases[i] = Basis(i)
      /\ \A i \in A : \A d \in 0..k : Bases[i][d + 1] \in Int
  BY AcceptedPoints
<1> HIDE DEF A, q, k
<1>3. ASSUME NEW d \in 0..k
      PROVE  /\ Totals(Bases, A, d) \in [D -> Int]
             /\ Totals(Bases, A, d)[{}] = 0
             /\ \A s \in D : Peeled(Bases, A, d, s)
  <2>0. PICK b : b = Bases
    OBVIOUS
  <2>1. d \in Nat /\ HasCoefficient(b, A, d)
    BY <1>1, <1>2, <2>0 DEF HasCoefficient
  <2> HIDE DEF D
  <2>2. /\ Totals(b, A, d) \in [D -> Int]
        /\ Totals(b, A, d)[{}] = 0
        /\ \A s \in D : Peeled(b, A, d, s)
    BY <1>2, <2>1, TotalsUnfold DEF D
  <2> QED BY <2>0, <2>2
<1>4. ASSUME NEW s \in D PROVE Partial(s) \in [Nat -> Int]
  <2>1. \A d \in Nat : d <= k => Totals(Bases, A, d)[s] \in Int
    <3>1. \A d \in Nat : d <= k => d \in 0..k
      BY <1>1
    <3> QED BY <1>3, <3>1
  <2> QED BY <2>1 DEF Partial, A, k
<1>5. ASSUME NEW s \in D PROVE V(s) \in Int
  <2>1. Partial(s) \in [Nat -> Int]
    BY <1>4
  <2>2. Run(Partial(s), 0, x) \in [Nat -> Int]
    BY <1>1, <2>1, RunUnfolds
  <2> QED BY <1>1, <2>2
<1>6. B = {}
  <2>1. mu \in [D -> Nat] /\ B \subseteq D
    <3>1. ASSUME NEW s \in D PROVE Cardinality(s) \in Nat
      BY <1>2, FS_Subset, FS_CardinalityType
    <3> QED BY <3>1
  <2>2. ASSUME NEW s \in B PROVE \E y \in B : mu[y] < mu[s]
    <3>1. s \in D /\ ~Same(V(s), One(s), q)
      OBVIOUS
    <3>2. s # {}
      <4>1. SUFFICES ASSUME s = {} PROVE FALSE
        OBVIOUS
      <4>2. ASSUME NEW d \in Nat PROVE Partial(s)[d] = 0
        <5>1. d <= k => d \in 0..k
          BY <1>1
        <5>2. d <= k => Totals(Bases, A, d)[s] = 0
          BY <1>3, <4>1, <5>1
        <5> QED BY <5>2 DEF Partial, A, k
      <4>3. V(s) = 0
        <5>1. Partial(s) \in [Nat -> Int]
          BY <1>4
        <5> DEFINE c == Partial(s)
        <5>2. c \in [Nat -> Int] /\ \A d \in Nat : d >= 0 => c[d] = 0
          BY <4>2, <5>1
        <5> HIDE DEF c
        <5>3. Run(c, 0, x)[k + 1] = 0
          BY <1>1, <5>2, RunZero
        <5> QED BY <5>3 DEF c
      <4>4. Same(0, 0, q) /\ One(s) = 0
        BY <1>1, <4>1, SameOrder
      <4> HIDE DEF V, One
      <4> QED BY <3>1, <4>3, <4>4
    <3> DEFINE e == Picked(s)
               r == s \ {e}
    <3>3. e \in s /\ e \in A /\ e \in 0..k /\ r \in D
      <4>1. 0 \in 0..k
        BY <1>1
      <4>2. Peeled(Bases, A, 0, s)
        BY <1>3, <3>1, <4>1
      <4>3. e \in s
        BY <3>2, <4>2 DEF Peeled
      <4> QED BY <1>2, <3>1, <4>3
    <3>4. \A d \in 0..k :
              Totals(Bases, A, d)[s] = Bases[e][d + 1] + Totals(Bases, A, d)[r]
      BY <1>3, <3>1, <3>2 DEF Peeled
    <3> HIDE DEF e
    <3>5. mu[r] < mu[s]
      <4>1. IsFiniteSet(s)
        BY <1>2, FS_Subset
      <4>2. Cardinality(r) = Cardinality(s) - 1 /\ Cardinality(s) \in Nat
        BY <3>3, <4>1, FS_RemoveElement, FS_CardinalityType
      <4> QED BY <3>1, <3>3, <4>2
    <3>6. ~Same(V(r), One(r), q)
      <4>1. SUFFICES ASSUME Same(V(r), One(r), q) PROVE FALSE
        OBVIOUS
      <4> DEFINE b == Basis(e)
                 u == Coefficients(b)
                 v == Partial(r)
                 w == Partial(s)
      <4>2. /\ b \in Seq(Int) /\ Len(b) = k + 1
            /\ ValueAt(b, x) \in Int
            /\ Same(ValueAt(b, x), IF x = e THEN 1 ELSE 0, q)
        BY <3>3, BasisInterpolates DEF k, q
      <4>3. u \in [Nat -> Int] /\ v \in [Nat -> Int] /\ w \in [Nat -> Int]
        <5> HIDE DEF b, V, One, r
        <5> QED BY <1>4, <3>1, <3>3, <4>2, CoefficientsTyped
      <4>4. ASSUME NEW d \in Nat PROVE Same(w[d], u[d] + v[d], q)
        <5>1. u[d] \in Int /\ v[d] \in Int /\ w[d] \in Int
          BY <4>3
        <5>2. w[d] = u[d] + v[d]
          <6>1. CASE d <= k
            <7>1. d \in 0..k /\ d < k + 1
              BY <1>1, <6>1
            <7>2. u[d] = b[d + 1]
              BY <4>2, <7>1 DEF Coefficients
            <7>3. Bases[e] = b
              BY <1>2, <3>3
            <7>4. /\ w[d] = Totals(Bases, A, d)[s]
                  /\ v[d] = Totals(Bases, A, d)[r]
              BY <6>1 DEF Partial, A, k
            <7> HIDE DEF b, u, v, w, r
            <7> QED BY <3>4, <7>1, <7>2, <7>3, <7>4
          <6>2. CASE ~(d <= k)
            <7>1. u[d] = 0
              BY <1>1, <4>2, <6>2 DEF Coefficients
            <7>2. v[d] = 0 /\ w[d] = 0
              BY <6>2 DEF Partial, k
            <7> QED BY <7>1, <7>2
          <6> QED BY <6>1, <6>2
        <5> HIDE DEF u, v, w
        <5> QED BY <1>1, <5>1, <5>2, SameOrder
      <4>5. Same(V(s), ValueAt(b, x) + V(r), q)
        <5> DEFINE n == k + 1
        <5>1. Same(Run(w, 0, x)[n], Run(u, 0, x)[n] + Run(v, 0, x)[n], q)
          <6> HIDE DEF u, v, w, n
          <6>1. n \in Nat
            BY <1>1 DEF n
          <6> QED BY <1>1, <4>3, <4>4, <6>1, RunSum
        <5>2. ValueAt(b, x) = Run(u, 0, x)[n]
          BY <4>2 DEF ValueAt
        <5> HIDE DEF b, u
        <5> QED BY <5>1, <5>2
      <4> DEFINE f == ValueAt(b, x)
                 g == V(r)
                 h == V(s)
                 i == IF x = e THEN 1 ELSE 0
                 j == One(r)
                 l == One(s)
      <4>6. /\ f \in Int /\ g \in Int /\ h \in Int
            /\ Same(h, f + g, q) /\ Same(f, i, q) /\ Same(g, j, q) /\ ~Same(h, l, q)
        <5> HIDE DEF V, One, b, r
        <5> QED BY <1>5, <3>1, <3>3, <4>1, <4>2, <4>5
      <4>7. i \in Int /\ j \in Int /\ l \in Int /\ l = i + j
        BY <3>3
      <4> HIDE DEF f, g, h, i, j, l
      <4> DEFINE y == f + g
                 z == i + j
      <4>8. y \in Int /\ z \in Int /\ Same(y, z, q) /\ Same(h, y, q) /\ z = l
        BY <1>1, <4>6, <4>7, SameSum
      <4> HIDE DEF y, z
      <4> QED BY <1>1, <4>6, <4>8, SameOrder
    <3>7. r \in B
      <4> HIDE DEF V, One, r
      <4> QED BY <3>3, <3>6
    <3> HIDE DEF B, mu, r
    <3> QED BY <3>5, <3>7
  <2> HIDE DEF B, mu, D
  <2> QED BY <2>1, <2>2, NoLeastElement
<1>7. ASSUME NEW s \in D PROVE Same(V(s), One(s), q)
  <2> HIDE DEF V, One
  <2> QED BY <1>6
<1> QED BY <1>4, <1>7 DEF A, k, q

\* The polynomial is 1 at the accepted counts and 0 at the others.
LEMMA PolynomialDecides ==
    ASSUME PrimeAbove, inst.tau \in 0..(inst.k + 1)
    PROVE  /\ BuildThresholdPoly \in [0..inst.k -> 0..(plaintext_mod - 1)]
           /\ Padded(BuildThresholdPoly) \in [Nat -> Int]
           /\ \A x \in 0..inst.k :
                  Same(Run(Padded(BuildThresholdPoly), 0, x)[inst.k + 1],
                       IF x >= inst.tau THEN 1 ELSE 0, plaintext_mod)
<1> DEFINE q == plaintext_mod
           k == inst.k
           A == Accepting
           P == BuildThresholdPoly
           w == Padded(P)
           u == Partial(A)
           zero == [d \in Nat |-> 0]
<1>1. q \in Nat /\ q # 0 /\ k \in Nat /\ k + 1 \in Nat /\ 0 \in Nat
  BY DEF PrimeAbove
<1>2. /\ IsFiniteSet(A) /\ A \subseteq 0..k
      /\ \A i \in A : \A d \in 0..k : Bases[i][d + 1] \in Int
      /\ \A x \in 0..k : x \in A <=> x >= inst.tau
  BY AcceptedPoints
<1>3. \A d \in 0..k : P[d] = PosMod(Totals(Bases, A, d)[A], q)
  <2> DEFINE b == Bases
             Sum(d) == MapThenSumSet(LAMBDA i : b[i][d + 1], A)
  <2>1. P = [d \in 0..k |-> PosMod(Sum(d), q)]
    BY DEF BuildThresholdPoly, Bases
  <2>2. ASSUME NEW d \in 0..k PROVE Sum(d) = Totals(b, A, d)[A]
    <3> HIDE DEF b, A
    <3> QED BY SumIsTotal
  <2> HIDE DEF Sum, P, A, b
  <2> QED BY <2>1, <2>2 DEF b
<1>4. DOMAIN P = 0..k /\ P = [d \in 0..k |-> P[d]]
  BY DEF BuildThresholdPoly
<1> HIDE DEF A, q, k, P
<1>5. ASSUME NEW d \in 0..k PROVE Totals(Bases, A, d) \in [SUBSET A -> Int]
  <2> DEFINE b == Bases
  <2>1. d \in Nat /\ HasCoefficient(b, A, d)
    BY <1>1, <1>2 DEF HasCoefficient
  <2> HIDE DEF b
  <2>2. Totals(b, A, d) \in [SUBSET A -> Int]
    BY <1>2, <2>1, TotalsUnfold
  <2> QED BY <2>2 DEF b
<1>6. ASSUME NEW d \in 0..k
      PROVE  P[d] \in 0..(q - 1) /\ P[d] \in Int /\ Same(P[d], Totals(Bases, A, d)[A], q)
  <2> DEFINE t == Totals(Bases, A, d)[A]
  <2>1. t \in Int
    BY <1>5
  <2> HIDE DEF t
  <2>2. PosMod(t, q) \in 0..(q - 1) /\ PosMod(t, q) \in Int /\ Same(PosMod(t, q), t, q)
    BY <1>1, <2>1, PosModSame
  <2> QED BY <1>3, <2>2 DEF t
<1>7. P \in [0..k -> 0..(q - 1)]
  <2>1. \A d \in 0..k : P[d] \in 0..(q - 1)
    BY <1>6
  <2> QED BY <1>4, <2>1
<1>8. \A d \in Nat : d <= k => d \in 0..k
  BY <1>1
<1>9. w \in [Nat -> Int] /\ u \in [Nat -> Int] /\ zero \in [Nat -> Int]
  <2>1. \A d \in Nat : d <= k => P[d] \in Int
    BY <1>6, <1>8
  <2>2. \A d \in Nat : d <= k => Totals(Bases, A, d)[A] \in Int
    BY <1>5, <1>8
  <2> QED BY <2>1, <2>2 DEF Padded, Partial, A, k
<1>10. ASSUME NEW d \in Nat PROVE Same(w[d], u[d] + zero[d], q)
  <2>1. u[d] + zero[d] = u[d]
    BY <1>9
  <2>2. CASE d <= k
    <3>1. w[d] = P[d] /\ u[d] = Totals(Bases, A, d)[A]
      BY <2>2 DEF Padded, Partial, A, k
    <3> HIDE DEF w, u, zero
    <3> QED BY <1>6, <1>8, <2>1, <2>2, <3>1
  <2>3. CASE ~(d <= k)
    <3>1. w[d] = 0 /\ u[d] = 0
      BY <2>3 DEF Padded, Partial, k
    <3>2. Same(0, 0, q)
      BY <1>1, SameOrder
    <3> HIDE DEF w, u, zero
    <3> QED BY <2>1, <3>1, <3>2
  <2> QED BY <2>2, <2>3
<1>11. ASSUME NEW x \in 0..k
       PROVE  Same(Run(w, 0, x)[k + 1], IF x >= inst.tau THEN 1 ELSE 0, q)
  <2> DEFINE n == k + 1
             one == IF x >= inst.tau THEN 1 ELSE 0
             f == Run(w, 0, x)[n]
             g == Run(u, 0, x)[n]
             z == Run(zero, 0, x)[n]
  <2>1. x \in Int /\ n \in Nat
    BY <1>1
  <2>2. z = 0
    <3>1. \A d \in Nat : d >= 0 => zero[d] = 0
      OBVIOUS
    <3> HIDE DEF zero, n
    <3> QED BY <1>1, <1>9, <2>1, <3>1, RunZero
  <2>3. f \in Int /\ g \in Int /\ z \in Int
    <3> HIDE DEF w, u, zero, n
    <3>1. /\ Run(w, 0, x) \in [Nat -> Int] /\ Run(u, 0, x) \in [Nat -> Int]
          /\ Run(zero, 0, x) \in [Nat -> Int]
      BY <1>1, <1>9, <2>1, RunUnfolds
    <3> QED BY <2>1, <3>1
  <2>4. Same(f, g + z, q)
    <3> HIDE DEF w, u, zero, n
    <3> QED BY <1>1, <1>9, <1>10, <2>1, RunSum
  <2>5. Same(g, one, q)
    <3>1. Same(Run(Partial(A), 0, x)[k + 1], IF x \in A THEN 1 ELSE 0, q)
      <4>1. A \in SUBSET A
        OBVIOUS
      <4> QED BY <4>1, PartialDecides DEF A, k, q
    <3> QED BY <1>2, <3>1
  <2> HIDE DEF f, g, z, one
  <2>6. g + z = g
    BY <2>2, <2>3
  <2>7. one \in Int
    BY DEF one
  <2>8. Same(f, g, q)
    BY <2>4, <2>6
  <2>9. Same(f, one, q)
    BY <1>1, <2>3, <2>5, <2>7, <2>8, SameOrder
  <2> QED BY <2>9 DEF f, one
<1> QED BY <1>7, <1>9, <1>11 DEF P, k, q

------------------------------------------------------------------------------
(* Ciphertexts, slot by slot *)

Ciphertexts == [slots : [Slots -> 0..(plaintext_mod - 1)], depth : Nat]

\* Slot i of c holds v.
Holds(c, i, v) == c \in Ciphertexts /\ v \in Int /\ Same(c.slots[i], v, plaintext_mod)

\* The slots of a ciphertext are residues.
LEMMA SlotsTyped ==
    ASSUME plaintext_mod \in Nat, NEW c \in Ciphertexts
    PROVE  /\ c.slots \in [Slots -> 0..(plaintext_mod - 1)] /\ c.depth \in Nat
           /\ \A i \in Slots : c.slots[i] \in Int /\ c.slots[i] \in 0..(plaintext_mod - 1)
<1>1. c.slots \in [Slots -> 0..(plaintext_mod - 1)] /\ c.depth \in Nat
  BY DEF Ciphertexts
<1>2. ASSUME NEW i \in Slots PROVE c.slots[i] \in 0..(plaintext_mod - 1)
  BY <1>1
<1>3. \A z \in 0..(plaintext_mod - 1) : z \in Int
  OBVIOUS
<1> QED BY <1>1, <1>2, <1>3

\* Larger is one of its arguments and at least both.
LEMMA LargerIs ==
    ASSUME NEW x \in Nat, NEW y \in Nat
    PROVE  Larger(x, y) \in Nat /\ Larger(x, y) >= x /\ Larger(x, y) >= y
           /\ (Larger(x, y) = x \/ Larger(x, y) = y)
BY DEF Larger

\* What each operation does to a slot and to the depth.
LEMMA Products ==
    ASSUME plaintext_mod \in Nat, plaintext_mod # 0, NEW c \in Ciphertexts, NEW d \in Ciphertexts
    PROVE  /\ Multiply(c, d) \in Ciphertexts
           /\ Multiply(c, d).depth = Larger(c.depth, d.depth) + 1
           /\ \A i \in Slots : Multiply(c, d).slots[i] = (c.slots[i] * d.slots[i]) % plaintext_mod
<1> DEFINE q == plaintext_mod
           t == [i \in Slots |-> (c.slots[i] * d.slots[i]) % q]
           e == Larger(c.depth, d.depth) + 1
<1>1. Multiply(c, d) = [slots |-> t, depth |-> e]
  BY DEF Multiply
<1>2. e \in Nat
  <2>1. Larger(c.depth, d.depth) \in Nat
    BY SlotsTyped, LargerIs
  <2> QED BY <2>1
<1>3. t \in [Slots -> 0..(q - 1)]
  <2>1. ASSUME NEW i \in Slots PROVE (c.slots[i] * d.slots[i]) % q \in 0..(q - 1)
    <3> DEFINE u == c.slots[i]
               v == d.slots[i]
               w == u * v
    <3>1. u \in Int /\ v \in Int
      BY SlotsTyped
    <3> HIDE DEF u, v
    <3>2. w \in Int
      BY <3>1
    <3> HIDE DEF w
    <3>3. w % q \in 0..(q - 1)
      BY <3>2, SameRemainder
    <3> QED BY <3>3 DEF w, u, v
  <2> QED BY <2>1
<1>4. \A i \in Slots : t[i] = (c.slots[i] * d.slots[i]) % q
  OBVIOUS
<1> HIDE DEF t, e
<1>5. Multiply(c, d) \in Ciphertexts
  BY <1>1, <1>2, <1>3 DEF Ciphertexts
<1> QED BY <1>1, <1>4, <1>5 DEF e

\* A sum takes no level,
LEMMA Sums ==
    ASSUME plaintext_mod \in Nat, plaintext_mod # 0, NEW c \in Ciphertexts, NEW d \in Ciphertexts
    PROVE  /\ Add(c, d) \in Ciphertexts
           /\ Add(c, d).depth = Larger(c.depth, d.depth)
           /\ \A i \in Slots : Add(c, d).slots[i] = (c.slots[i] + d.slots[i]) % plaintext_mod
<1> DEFINE q == plaintext_mod
           t == [i \in Slots |-> (c.slots[i] + d.slots[i]) % q]
           e == Larger(c.depth, d.depth)
<1>1. Add(c, d) = [slots |-> t, depth |-> e]
  BY DEF Add
<1>2. e \in Nat
  BY SlotsTyped, LargerIs
<1>3. t \in [Slots -> 0..(q - 1)]
  <2>1. ASSUME NEW i \in Slots PROVE (c.slots[i] + d.slots[i]) % q \in 0..(q - 1)
    <3> DEFINE w == c.slots[i] + d.slots[i]
    <3>1. c.slots[i] \in Int /\ d.slots[i] \in Int
      BY SlotsTyped
    <3>2. w \in Int
      BY <3>1
    <3> HIDE DEF w
    <3>3. w % q \in 0..(q - 1)
      BY <3>2, SameRemainder
    <3> QED BY <3>3 DEF w
  <2> QED BY <2>1
<1>4. \A i \in Slots : t[i] = (c.slots[i] + d.slots[i]) % q
  OBVIOUS
<1> HIDE DEF t, e
<1>5. Add(c, d) \in Ciphertexts
  BY <1>1, <1>2, <1>3 DEF Ciphertexts
<1> QED BY <1>1, <1>4, <1>5 DEF e

\* and neither does a product with a plaintext,
LEMMA PlainProducts ==
    ASSUME plaintext_mod \in Nat, plaintext_mod # 0, NEW c \in Ciphertexts,
           NEW f, \A i \in Slots : f[i] \in Int
    PROVE  /\ MultiplyPlain(c, f) \in Ciphertexts
           /\ MultiplyPlain(c, f).depth = c.depth
           /\ \A i \in Slots : MultiplyPlain(c, f).slots[i] = (c.slots[i] * f[i]) % plaintext_mod
<1> DEFINE q == plaintext_mod
           t == [i \in Slots |-> (c.slots[i] * f[i]) % q]
<1>1. MultiplyPlain(c, f) = [slots |-> t, depth |-> c.depth]
  BY DEF MultiplyPlain, Ciphertexts
<1>2. c.depth \in Nat
  BY SlotsTyped
<1>3. t \in [Slots -> 0..(q - 1)]
  <2>1. ASSUME NEW i \in Slots PROVE (c.slots[i] * f[i]) % q \in 0..(q - 1)
    <3> DEFINE u == c.slots[i]
               v == f[i]
               w == u * v
    <3>1. u \in Int /\ v \in Int
      BY SlotsTyped
    <3> HIDE DEF u, v
    <3>2. w \in Int
      BY <3>1
    <3> HIDE DEF w
    <3>3. w % q \in 0..(q - 1)
      BY <3>2, SameRemainder
    <3> QED BY <3>3 DEF w, u, v
  <2> QED BY <2>1
<1>4. \A i \in Slots : t[i] = (c.slots[i] * f[i]) % q
  OBVIOUS
<1> HIDE DEF t
<1>5. MultiplyPlain(c, f) \in Ciphertexts
  BY <1>1, <1>2, <1>3 DEF Ciphertexts
<1> QED BY <1>1, <1>4, <1>5

\* nor a sum with a scalar.
LEMMA ScalarSums ==
    ASSUME plaintext_mod \in Nat, plaintext_mod # 0, NEW c \in Ciphertexts, NEW v \in Int
    PROVE  /\ AddScalar(c, v) \in Ciphertexts
           /\ AddScalar(c, v).depth = c.depth
           /\ \A i \in Slots : AddScalar(c, v).slots[i] = (c.slots[i] + v) % plaintext_mod
<1> DEFINE q == plaintext_mod
           t == [i \in Slots |-> (c.slots[i] + v) % q]
<1>1. AddScalar(c, v) = [slots |-> t, depth |-> c.depth]
  BY DEF AddScalar, Ciphertexts
<1>2. c.depth \in Nat
  BY SlotsTyped
<1>3. t \in [Slots -> 0..(q - 1)]
  <2>1. ASSUME NEW i \in Slots PROVE (c.slots[i] + v) % q \in 0..(q - 1)
    <3> DEFINE w == c.slots[i] + v
    <3>1. c.slots[i] \in Int
      BY SlotsTyped
    <3>2. w \in Int
      BY <3>1
    <3> HIDE DEF w
    <3>3. w % q \in 0..(q - 1)
      BY <3>2, SameRemainder
    <3> QED BY <3>3 DEF w
  <2> QED BY <2>1
<1>4. \A i \in Slots : t[i] = (c.slots[i] + v) % q
  OBVIOUS
<1> HIDE DEF t
<1>5. AddScalar(c, v) \in Ciphertexts
  BY <1>1, <1>2, <1>3 DEF Ciphertexts
<1> QED BY <1>1, <1>4, <1>5

\* What the slot holds afterwards.
LEMMA ProductHolds ==
    ASSUME plaintext_mod \in Nat, plaintext_mod # 0, NEW i \in Slots,
           NEW c, NEW v, Holds(c, i, v), NEW d, NEW w, Holds(d, i, w)
    PROVE  Holds(Multiply(c, d), i, v * w)
<1> DEFINE q == plaintext_mod
           x == c.slots[i]
           y == d.slots[i]
           m == Multiply(c, d)
           z == m.slots[i]
<1>1. /\ c \in Ciphertexts /\ v \in Int /\ Same(x, v, q)
      /\ d \in Ciphertexts /\ w \in Int /\ Same(y, w, q)
  BY DEF Holds
<1>2. x \in Int /\ y \in Int
  BY <1>1, SlotsTyped
<1>3. m \in Ciphertexts /\ z = (x * y) % q
  BY <1>1, Products
<1> HIDE DEF m, x, y, z
<1> DEFINE u == x * y
           t == v * w
<1>4. u \in Int /\ t \in Int
  BY <1>1, <1>2
<1>5. Same(u, t, q)
  BY <1>1, <1>2, SameProduct
<1>6. z = u % q
  BY <1>3
<1> HIDE DEF u, t
<1>7. Same(z, u, q) /\ z \in Int
  BY <1>4, <1>6, SameRemainder
<1>8. Same(z, t, q)
  BY <1>4, <1>5, <1>7, SameOrder
<1> QED BY <1>3, <1>4, <1>8 DEF Holds, z, t, m

\* Slot i of a sum holds the sum of what is in slot i,
LEMMA SumHolds ==
    ASSUME plaintext_mod \in Nat, plaintext_mod # 0, NEW i \in Slots,
           NEW c, NEW v, Holds(c, i, v), NEW d, NEW w, Holds(d, i, w)
    PROVE  Holds(Add(c, d), i, v + w)
<1> DEFINE q == plaintext_mod
           x == c.slots[i]
           y == d.slots[i]
           m == Add(c, d)
           z == m.slots[i]
<1>1. /\ c \in Ciphertexts /\ v \in Int /\ Same(x, v, q)
      /\ d \in Ciphertexts /\ w \in Int /\ Same(y, w, q)
  BY DEF Holds
<1>2. x \in Int /\ y \in Int
  BY <1>1, SlotsTyped
<1>3. m \in Ciphertexts /\ z = (x + y) % q
  BY <1>1, Sums
<1> HIDE DEF m, x, y, z
<1> DEFINE u == x + y
           t == v + w
<1>4. u \in Int /\ t \in Int
  BY <1>1, <1>2
<1>5. Same(u, t, q)
  BY <1>1, <1>2, SameSum
<1>6. z = u % q
  BY <1>3
<1> HIDE DEF u, t
<1>7. Same(z, u, q) /\ z \in Int
  BY <1>4, <1>6, SameRemainder
<1>8. Same(z, t, q)
  BY <1>4, <1>5, <1>7, SameOrder
<1> QED BY <1>3, <1>4, <1>8 DEF Holds, z, t, m

\* and a scalar is multiplied or added in every slot.
LEMMA ScalarHolds ==
    ASSUME plaintext_mod \in Nat, plaintext_mod # 0, NEW i \in Slots,
           NEW c, NEW v, Holds(c, i, v), NEW w \in Int
    PROVE  /\ Holds(MultiplyScalar(c, w), i, v * w)
           /\ MultiplyScalar(c, w).depth = c.depth
           /\ Holds(AddScalar(c, w), i, v + w)
           /\ AddScalar(c, w).depth = c.depth
<1> DEFINE q == plaintext_mod
           x == c.slots[i]
           f == [j \in Slots |-> w]
           m == MultiplyScalar(c, w)
           n == AddScalar(c, w)
           y == m.slots[i]
           z == n.slots[i]
<1>1. /\ c \in Ciphertexts /\ v \in Int /\ Same(x, v, q) /\ Same(w, w, q)
  BY SameOrder DEF Holds
<1>2. x \in Int
  BY <1>1, SlotsTyped
<1>3. m \in Ciphertexts /\ m.depth = c.depth /\ y = (x * w) % q
  <2>1. m = MultiplyPlain(c, f)
    BY DEF MultiplyScalar
  <2>2. \A j \in Slots : f[j] \in Int
    OBVIOUS
  <2>3. f[i] = w
    OBVIOUS
  <2> HIDE DEF f
  <2>4. /\ MultiplyPlain(c, f) \in Ciphertexts
        /\ MultiplyPlain(c, f).depth = c.depth
        /\ \A j \in Slots : MultiplyPlain(c, f).slots[j] = (c.slots[j] * f[j]) % q
    BY <1>1, <2>2, PlainProducts
  <2> QED BY <2>1, <2>3, <2>4
<1>4. n \in Ciphertexts /\ n.depth = c.depth /\ z = (x + w) % q
  BY <1>1, ScalarSums
<1> HIDE DEF m, n, x, y, z
<1> DEFINE u == x * w
           t == v * w
           r == x + w
           s == v + w
<1>5. u \in Int /\ t \in Int /\ r \in Int /\ s \in Int
  BY <1>1, <1>2
<1>6. Same(u, t, q) /\ Same(r, s, q)
  BY <1>1, <1>2, SameProduct, SameSum
<1>7. y = u % q /\ z = r % q
  BY <1>3, <1>4
<1> HIDE DEF u, t, r, s
<1>8. Same(y, u, q) /\ y \in Int /\ Same(z, r, q) /\ z \in Int
  BY <1>5, <1>7, SameRemainder
<1>9. Same(y, t, q) /\ Same(z, s, q)
  BY <1>5, <1>6, <1>8, SameOrder
<1> QED BY <1>3, <1>4, <1>5, <1>9 DEF Holds, y, z, t, s, m, n

------------------------------------------------------------------------------
(* The shape of the evaluation *)

\* The chunks cover the polynomial, with at least two powers to a chunk.
LEMMA StepShape ==
    ASSUME inst.k \in Nat \ {0}
    PROVE  /\ BabyStep \in Nat /\ BabyStep >= 2 /\ BabyStep <= inst.k + 1
           /\ ChunkCount \in Nat /\ ChunkCount >= 1
           /\ ChunkCount * BabyStep \in Nat /\ ChunkCount * BabyStep >= inst.k + 1
           /\ inst.k > 1 => ChunkCount >= 2
           /\ inst.k = 1 => ChunkCount = 1
<1> DEFINE k == inst.k
           s == BabyStep
           C == ChunkCount
           S == {r \in 1..(k + 1) : r * r >= k + 1}
           Least(t) == t * t >= k + 1 /\ \A r \in 1..(t - 1) : r * r < k + 1
<1>1. k \in Nat /\ k >= 1
  OBVIOUS
<1> HIDE DEF k
<1>2. \E t \in 1..(k + 1) : Least(t)
  <2>1. k + 1 \in S
    <3>1. (k + 1) * (k + 1) >= k + 1
      BY <1>1
    <3> QED BY <1>1, <3>1
  <2>2. PICK t \in S : \A r \in S : t <= r
    <3>1. S \subseteq Nat /\ S # {}
      BY <2>1
    <3> QED BY <3>1, LeastNatural
  <2>3. t \in 1..(k + 1) /\ t * t >= k + 1
    OBVIOUS
  <2>4. ASSUME NEW r \in 1..(t - 1) PROVE r * r < k + 1
    <3>1. r \in 1..(k + 1) /\ ~(t <= r) /\ r \in Nat
      BY <1>1, <2>3
    <3>2. ~(r * r >= k + 1)
      BY <2>2, <3>1
    <3>3. r * r \in Nat
      BY <3>1
    <3> QED BY <1>1, <3>2, <3>3
  <2> QED BY <2>3, <2>4
<1>3. s \in 1..(k + 1) /\ Least(s)
  <2>1. s = CHOOSE t \in 1..(k + 1) : Least(t)
    BY DEF BabyStep, PsStep, k
  <2> HIDE DEF s, Least
  <2> QED BY <1>2, <2>1
<1>4. C = (k + s) \div s
  BY DEF ChunkCount, PsChunks, BabyStep, k
<1> HIDE DEF s, C
<1>5. s \in Nat /\ s >= 1 /\ s <= k + 1
  BY <1>1, <1>3
<1>6. s >= 2
  <2>1. SUFFICES ASSUME s = 1 PROVE FALSE
    BY <1>5
  <2> QED BY <1>1, <1>3, <2>1
<1>7. C \in Nat /\ C * s <= k + s /\ k + s < (C + 1) * s
  <2> DEFINE t == k + s
  <2>1. t \in Nat /\ s \in Nat /\ s # 0
    BY <1>1, <1>5
  <2> HIDE DEF t
  <2>2. (t \div s) \in Nat /\ (t \div s) * s <= t /\ t < ((t \div s) + 1) * s
    BY <2>1
  <2> QED BY <1>4, <2>2 DEF t
<1> DEFINE covered == C * s
<1>8. covered \in Nat /\ (C + 1) * s = covered + s
  BY <1>5, <1>7
<1>9. covered > k
  <2> HIDE DEF covered
  <2> QED BY <1>1, <1>5, <1>7, <1>8
<1>10. C >= 1
  <2>1. C = 0 => covered = 0
    BY <1>5
  <2> HIDE DEF covered
  <2> QED BY <1>1, <1>7, <1>9, <2>1
<1>11. k > 1 => C >= 2
  <2>1. SUFFICES ASSUME k > 1, C = 1 PROVE FALSE
    BY <1>7, <1>10
  <2>2. k < s
    BY <1>1, <1>5, <1>9, <2>1
  <2>3. k \in 1..(s - 1)
    BY <1>1, <1>5, <2>2
  <2>4. k * k < k + 1
    BY <1>3, <2>3
  <2>5. k * k >= 2 * k
    BY <1>1, <2>1
  <2> DEFINE y == k * k
  <2>6. y \in Nat
    BY <1>1
  <2> HIDE DEF y
  <2> QED BY <1>1, <2>1, <2>4, <2>5, <2>6 DEF y
<1>12. k = 1 => C = 1
  <2>1. SUFFICES ASSUME k = 1 PROVE C = 1
    OBVIOUS
  <2>2. s = 2
    BY <1>1, <1>5, <1>6, <2>1
  <2> QED BY <1>4, <2>1, <2>2
<1> QED BY <1>5, <1>6, <1>7, <1>8, <1>9, <1>10, <1>11, <1>12 DEF covered, s, C, k

------------------------------------------------------------------------------
(* x^1 .. x^s *)

\* PowerDepth is the function its recursion describes.
LEMMA PowerDepthUnfolds ==
    /\ PowerDepth \in [Nat -> Nat]
    /\ \A v \in Nat : v <= 1 => PowerDepth[v] = 0
    /\ \A v \in Nat : v > 1 /\ v % 2 = 1 => PowerDepth[v] = 1 + PowerDepth[v - 1]
    /\ \A v \in Nat : v > 1 /\ v % 2 # 1 => PowerDepth[v] = 1 + PowerDepth[v \div 2]
<1> DEFINE e(v) == IF v % 2 = 1 THEN v - 1 ELSE v \div 2
           prev == [n \in Nat |-> e(n)]
           next == [n \in Nat |-> [t \in Int |-> IF n <= 1 THEN 0 ELSE 1 + t]]
           Body(f) == [v \in Nat |->
               IF v <= 1 THEN 0 ELSE 1 + f[IF v % 2 = 1 THEN v - 1 ELSE v \div 2]]
<1>1. ASSUME NEW n \in Nat, n # 0 PROVE e(n) \in 0..(n - 1)
  BY <1>1
<1>2. Recursion(Nat, 0, prev, next)
  <2>1. \A n \in Nat \ {0} : prev[n] \in 0..(n - 1)
    <3> HIDE DEF e
    <3> QED BY <1>1
  <2>2. \A n \in Nat, t \in Nat : next[n][t] \in Nat
    OBVIOUS
  <2> HIDE DEF prev, next
  <2> QED BY <2>1, <2>2 DEF Recursion
<1>3. PICK f \in [Nat -> Nat] : f = [n \in Nat |-> IF n = 0 THEN 0 ELSE next[n][f[prev[n]]]]
  <2> HIDE DEF prev, next
  <2> QED BY <1>2, RecursiveFunctionExists
<1>4. f = Body(f)
  <2>1. ASSUME NEW n \in Nat
        PROVE  (IF n = 0 THEN 0 ELSE next[n][f[prev[n]]]) = (IF n <= 1 THEN 0 ELSE 1 + f[e(n)])
    <3>1. n # 0 => e(n) \in Nat /\ f[e(n)] \in Int /\ prev[n] = e(n)
      BY <1>1
    <3> HIDE DEF e, prev
    <3> QED BY <3>1
  <2> HIDE DEF prev, next
  <2> QED BY <1>3, <2>1
<1>5. PowerDepth = Body(PowerDepth)
  <2>1. PowerDepth = CHOOSE g : g = Body(g)
    BY DEF PowerDepth
  <2> HIDE DEF Body
  <2> QED BY <1>4, <2>1
<1>6. \A v \in Nat : PowerDepth[v] = IF v <= 1 THEN 0 ELSE 1 + PowerDepth[e(v)]
  BY <1>5
<1>7. DOMAIN PowerDepth = Nat /\ PowerDepth = [n \in Nat |-> PowerDepth[n]]
  BY <1>5
<1> DEFINE S == {n \in Nat : PowerDepth[n] \notin Nat}
<1>8. S = {}
  <2>1. SUFFICES ASSUME S # {} PROVE FALSE
    OBVIOUS
  <2>2. PICK i \in S : \A j \in S : i <= j
    <3>1. S \subseteq Nat
      OBVIOUS
    <3> QED BY <2>1, <3>1, LeastNatural
  <2>3. i \in Nat /\ i > 1 /\ i # 0
    BY <1>6
  <2>4. e(i) \in Nat /\ ~(i <= e(i))
    <3>1. e(i) \in 0..(i - 1)
      BY <1>1, <2>3
    <3> HIDE DEF e
    <3> QED BY <2>3, <3>1
  <2> HIDE DEF e
  <2>5. PowerDepth[e(i)] \in Nat
    BY <2>2, <2>4
  <2> QED BY <1>6, <2>3, <2>5
<1>9. PowerDepth \in [Nat -> Nat]
  BY <1>7, <1>8
<1>10. ASSUME NEW v \in Nat, v > 1, v % 2 = 1 PROVE PowerDepth[v] = 1 + PowerDepth[v - 1]
  BY <1>6, <1>10
<1>11. ASSUME NEW v \in Nat, v > 1, v % 2 # 1 PROVE PowerDepth[v] = 1 + PowerDepth[v \div 2]
  BY <1>6, <1>11
<1> QED BY <1>6, <1>9, <1>10, <1>11

\* The powers are ciphertexts and obey their equation.
LEMMA PowersUnfold ==
    ASSUME plaintext_mod \in Nat, plaintext_mod # 0, inst.k \in Nat \ {0}, NEW a \in Ciphertexts
    PROVE  /\ Powers(a) \in [1..BabyStep -> Ciphertexts]
           /\ \A j \in 1..BabyStep :
                  Powers(a)[j] = IF j = 1 THEN a
                                 ELSE IF j % 2 = 0
                                      THEN Multiply(Powers(a)[j \div 2], Powers(a)[j \div 2])
                                 ELSE Multiply(Powers(a)[j - 1], a)
<1> DEFINE D == 1..BabyStep
           T == Ciphertexts
           F == [D -> T]
           mu == [j \in D |-> j]
           Value(f, j) == IF j = 1 THEN a
                          ELSE IF j % 2 = 0 THEN Multiply(f[j \div 2], f[j \div 2])
                          ELSE Multiply(f[j - 1], a)
           H == [j \in D |-> [f \in F |-> Value(f, j)]]
           Body(f) == [j \in D |-> Value(f, j)]
<1>1. BabyStep \in Nat
  BY StepShape
<1>2. ASSUME NEW j \in D
      PROVE  /\ j # 1 /\ j % 2 = 0 => j \div 2 \in D /\ mu[j \div 2] < mu[j]
             /\ j # 1 /\ j % 2 # 0 => j - 1 \in D /\ mu[j - 1] < mu[j]
  BY <1>1
<1>3. LooksBack(D, T, mu, H)
  <2>1. mu \in [D -> Nat]
    BY <1>1
  <2>2. ASSUME NEW j \in D, NEW f \in F PROVE H[j][f] \in T
    <3>1. H[j][f] = Value(f, j)
      OBVIOUS
    <3>2. j # 1 /\ j % 2 = 0 => Multiply(f[j \div 2], f[j \div 2]) \in T
      <4>1. j # 1 /\ j % 2 = 0 => f[j \div 2] \in T
        BY <1>2
      <4> HIDE DEF D, T
      <4> QED BY <4>1, Products DEF T
    <3>3. j # 1 /\ j % 2 # 0 => Multiply(f[j - 1], a) \in T
      <4>1. j # 1 /\ j % 2 # 0 => f[j - 1] \in T
        BY <1>2
      <4> HIDE DEF D, T
      <4> QED BY <4>1, Products DEF T
    <3> QED BY <3>1, <3>2, <3>3
  <2>3. ASSUME NEW j \in D, NEW f \in F, NEW g \in F,
               \A y \in D : mu[y] < mu[j] => f[y] = g[y]
        PROVE  H[j][f] = H[j][g]
    <3>1. H[j][f] = Value(f, j) /\ H[j][g] = Value(g, j)
      OBVIOUS
    <3>2. /\ j # 1 /\ j % 2 = 0 => f[j \div 2] = g[j \div 2]
          /\ j # 1 /\ j % 2 # 0 => f[j - 1] = g[j - 1]
      BY <1>2, <2>3
    <3> QED BY <3>1, <3>2
  <2> HIDE DEF D, T, mu, H
  <2> QED BY <2>1, <2>2, <2>3 DEF LooksBack
<1>4. PICK f \in F : f = [j \in D |-> H[j][f]]
  <2>1. a \in T
    OBVIOUS
  <2> HIDE DEF D, T, mu, H
  <2> QED BY <1>3, <2>1, MeasuredFunctionExists
<1>5. f = Body(f)
  <2>1. \A j \in D : H[j][f] = Value(f, j)
    OBVIOUS
  <2> HIDE DEF H, Value, D, T
  <2> QED BY <1>4, <2>1
<1> DEFINE P == Powers(a)
<1>6. P = Body(P)
  <2>1. P = CHOOSE g : g = Body(g)
    BY DEF Powers
  <2> HIDE DEF Body, P
  <2> QED BY <1>5, <2>1
<1> HIDE DEF P
<1>7. \A j \in D : P[j] = Value(P, j)
  <2> HIDE DEF Value, D
  <2> QED BY <1>6
<1>8. DOMAIN P = D /\ P = [j \in D |-> P[j]]
  <2> HIDE DEF Value, D
  <2> QED BY <1>6
<1> DEFINE B == {j \in D : P[j] \notin T}
<1>9. B = {}
  <2>1. mu \in [D -> Nat] /\ B \subseteq D
    BY <1>1
  <2>2. ASSUME NEW j \in B PROVE \E y \in B : mu[y] < mu[j]
    <3>1. j \in D /\ P[j] \notin T /\ P[j] = Value(P, j) /\ a \in T
      BY <1>7
    <3>2. j # 1
      BY <3>1
    <3>3. CASE j % 2 = 0
      <4>1. j \div 2 \in D /\ mu[j \div 2] < mu[j]
        BY <1>2, <3>1, <3>2, <3>3
      <4> DEFINE c == P[j \div 2]
      <4>2. P[j] = Multiply(c, c)
        BY <3>1, <3>2, <3>3
      <4> HIDE DEF c
      <4>3. c \notin T
        BY <3>1, <4>2, Products
      <4> HIDE DEF mu, D
      <4> QED BY <4>1, <4>3 DEF c
    <3>4. CASE j % 2 # 0
      <4>1. j - 1 \in D /\ mu[j - 1] < mu[j]
        BY <1>2, <3>1, <3>2, <3>4
      <4> DEFINE c == P[j - 1]
      <4>2. P[j] = Multiply(c, a)
        BY <3>1, <3>2, <3>4
      <4> HIDE DEF c
      <4>3. c \notin T
        BY <3>1, <4>2, Products
      <4> HIDE DEF mu, D
      <4> QED BY <4>1, <4>3 DEF c
    <3> QED BY <3>3, <3>4
  <2> HIDE DEF mu, B, D
  <2> QED BY <2>1, <2>2, NoLeastElement
<1>10. P \in [D -> T]
  <2> HIDE DEF D, T
  <2> QED BY <1>8, <1>9
<1> QED BY <1>7, <1>10 DEF P

\* The j-th is x^j, and as deep as PowerDepth says.
LEMMA PowersHold ==
    ASSUME plaintext_mod \in Nat, plaintext_mod # 0, inst.k \in Nat \ {0},
           NEW a \in Ciphertexts, NEW i \in Slots
    PROVE  \A j \in 1..BabyStep :
               /\ Holds(Powers(a)[j], i, Power(a.slots[i])[j])
               /\ Powers(a)[j].depth = a.depth + PowerDepth[j]
<1> DEFINE D == 1..BabyStep
           P == Powers(a)
           x == a.slots[i]
           E == Power(x)
           mu == [j \in D |-> j]
           Good == {j \in D : Holds(P[j], i, E[j]) /\ P[j].depth = a.depth + PowerDepth[j]}
<1>1. BabyStep \in Nat
  BY StepShape
<1>2. /\ P \in [D -> Ciphertexts]
      /\ \A j \in D : P[j] = IF j = 1 THEN a
                             ELSE IF j % 2 = 0 THEN Multiply(P[j \div 2], P[j \div 2])
                             ELSE Multiply(P[j - 1], a)
  BY PowersUnfold
<1>3. x \in Int /\ a.depth \in Nat
  BY SlotsTyped
<1>4. E \in [Nat -> Int] /\ E[0] = 1 /\ \A d \in Nat \ {0} : E[d] = x * E[d - 1]
  BY <1>3, PowerUnfolds
<1>5. Holds(a, i, x)
  <2>1. Same(x, x, plaintext_mod)
    BY <1>3, SameOrder
  <2> QED BY <1>3, <2>1 DEF Holds
<1> HIDE DEF P
<1>6. mu \in [D -> Nat]
  BY <1>1
<1>7. ASSUME NEW j \in D, \A h \in D : mu[h] < mu[j] => h \in Good PROVE j \in Good
  <2>1. CASE j = 1
    <3>1. P[j] = a
      BY <1>2, <2>1
    <3>2. E[1] = x
      <4> HIDE DEF E, x
      <4>1. 1 \in Nat \ {0} /\ 1 - 1 = 0
        OBVIOUS
      <4>2. E[1] = x * E[0]
        BY <1>4, <4>1
      <4> QED BY <1>3, <1>4, <4>2
    <3>3. PowerDepth[1] = 0
      BY PowerDepthUnfolds
    <3>4. a.depth = a.depth + 0
      BY <1>3
    <3> HIDE DEF E, x
    <3> QED BY <1>5, <2>1, <3>1, <3>2, <3>3, <3>4
  <2>2. CASE j # 1 /\ j % 2 = 0
    <3> DEFINE h == j \div 2
               c == P[h]
    <3>1. h \in D /\ h \in Nat /\ h + h = j /\ mu[h] < mu[j] /\ j > 1 /\ j \in Nat /\ j % 2 # 1
      BY <1>1, <2>2
    <3>2. P[j] = Multiply(c, c)
      BY <1>2, <2>2
    <3>3. Holds(c, i, E[h]) /\ c.depth = a.depth + PowerDepth[h]
      <4> HIDE DEF h, mu
      <4> QED BY <1>7, <3>1
    <3>4. E[j] = E[h] * E[h]
      <4>1. E[h + h] = E[h] * E[h]
        <5> HIDE DEF h, x
        <5> QED BY <1>3, <3>1, PowerSum
      <4> HIDE DEF h, E
      <4> QED BY <3>1, <4>1
    <3>5. PowerDepth[j] = 1 + PowerDepth[h] /\ PowerDepth[h] \in Nat
      BY <3>1, PowerDepthUnfolds
    <3> HIDE DEF c, E, h, mu
    <3>6. Holds(P[j], i, E[j])
      BY <3>2, <3>3, <3>4, ProductHolds
    <3>7. P[j].depth = a.depth + PowerDepth[j]
      <4>1. c \in Ciphertexts
        BY <3>3 DEF Holds
      <4>2. P[j].depth = Larger(c.depth, c.depth) + 1
        BY <3>2, <4>1, Products
      <4>3. Larger(c.depth, c.depth) = c.depth
        BY DEF Larger
      <4> QED BY <1>3, <3>3, <3>5, <4>2, <4>3
    <3> QED BY <3>6, <3>7
  <2>3. CASE j # 1 /\ j % 2 # 0
    <3> DEFINE h == j - 1
               c == P[h]
    <3>1. h \in D /\ h \in Nat /\ mu[h] < mu[j] /\ j > 1 /\ j \in Nat \ {0} /\ j % 2 = 1
      BY <1>1, <2>3
    <3>2. P[j] = Multiply(c, a)
      BY <1>2, <2>3
    <3>3. Holds(c, i, E[h]) /\ c.depth = a.depth + PowerDepth[h]
      <4> HIDE DEF h, mu
      <4> QED BY <1>7, <3>1
    <3>4. E[j] = E[h] * x
      <4>1. E[j] = x * E[h] /\ E[h] \in Int
        BY <1>4, <3>1
      <4> HIDE DEF E, x, h
      <4> QED BY <1>3, <4>1
    <3>5. PowerDepth[j] = 1 + PowerDepth[h] /\ PowerDepth[h] \in Nat
      BY <3>1, PowerDepthUnfolds
    <3> HIDE DEF c, E, h, mu, x
    <3>6. Holds(P[j], i, E[j])
      BY <1>5, <3>2, <3>3, <3>4, ProductHolds
    <3>7. P[j].depth = a.depth + PowerDepth[j]
      <4>1. c \in Ciphertexts
        BY <3>3 DEF Holds
      <4>2. P[j].depth = Larger(c.depth, a.depth) + 1
        BY <3>2, <4>1, Products
      <4>3. Larger(c.depth, a.depth) = c.depth
        BY <1>3, <3>3, <3>5 DEF Larger
      <4> QED BY <1>3, <3>3, <3>5, <4>2, <4>3
    <3> QED BY <3>6, <3>7
  <2> QED BY <2>1, <2>2, <2>3
<1>8. D \subseteq Good
  <2> HIDE DEF D, mu, Good
  <2> QED BY <1>6, <1>7, MeasuredInduction
<1> QED BY <1>8 DEF P

------------------------------------------------------------------------------
(* The chunks *)

Evaluable == /\ plaintext_mod \in Nat /\ plaintext_mod # 0
             /\ inst.k \in Nat \ {0}
             /\ Padded(threshold_poly) \in [Nat -> Int]

\* The coefficient of x^j in chunk i, and the sums of its terms.
Coefficient(i, j) ==
    IF i * BabyStep + j <= inst.k THEN threshold_poly[i * BabyStep + j] ELSE 0
ChunkSums(i, powers) == CHOOSE f : f = [j \in 0..(BabyStep - 1) |->
    IF j = 0 THEN MultiplyScalar(powers[1], 0)
    ELSE IF Coefficient(i, j) = 0 THEN f[j - 1]
    ELSE Add(f[j - 1], MultiplyScalar(powers[j], Coefficient(i, j)))]

\* A chunk is the last of its sums and its constant.
LEMMA ChunkIsSum ==
    ASSUME NEW i, NEW powers
    PROVE  Chunk(i, powers)
             = AddScalar(ChunkSums(i, powers)[BabyStep - 1], Coefficient(i, 0))
BY DEF Chunk, ChunkSums, Coefficient

\* The coefficients of a chunk are those of the polynomial from there on.
LEMMA CoefficientIs ==
    ASSUME Evaluable, NEW i \in Nat, NEW j \in Nat
    PROVE  /\ Coefficient(i, j) = Padded(threshold_poly)[i * BabyStep + j]
           /\ Coefficient(i, j) \in Int
           /\ i * BabyStep \in Nat /\ i * BabyStep + j \in Nat
<1>1. BabyStep \in Nat
  BY StepShape DEF Evaluable
<1> DEFINE n == i * BabyStep
           m == n + j
<1>2. n \in Nat
  BY <1>1
<1>3. Coefficient(i, j) = IF m <= inst.k THEN threshold_poly[m] ELSE 0
  BY DEF Coefficient
<1> HIDE DEF n
<1>4. m \in Nat
  BY <1>2
<1> HIDE DEF m
<1>5. Padded(threshold_poly)[m] = IF m <= inst.k THEN threshold_poly[m] ELSE 0
  BY <1>4 DEF Padded
<1>6. Padded(threshold_poly)[m] \in Int
  BY <1>4 DEF Evaluable
<1> QED BY <1>2, <1>3, <1>4, <1>5, <1>6 DEF m, n

\* A scalar's product and its type.
LEMMA ScalarTyped ==
    ASSUME plaintext_mod \in Nat, plaintext_mod # 0, NEW c \in Ciphertexts, NEW v \in Int
    PROVE  MultiplyScalar(c, v) \in Ciphertexts /\ MultiplyScalar(c, v).depth = c.depth
<1> DEFINE f == [j \in Slots |-> v]
<1>1. MultiplyScalar(c, v) = MultiplyPlain(c, f)
  BY DEF MultiplyScalar
<1>2. \A j \in Slots : f[j] \in Int
  OBVIOUS
<1> HIDE DEF f
<1> QED BY <1>1, <1>2, PlainProducts

\* The sums of a chunk are ciphertexts and obey their equation.
LEMMA ChunkSumsUnfold ==
    ASSUME Evaluable, NEW i \in Nat, NEW powers \in [1..BabyStep -> Ciphertexts]
    PROVE  /\ ChunkSums(i, powers) \in [0..(BabyStep - 1) -> Ciphertexts]
           /\ \A j \in 0..(BabyStep - 1) :
                  ChunkSums(i, powers)[j] =
                      IF j = 0 THEN MultiplyScalar(powers[1], 0)
                      ELSE IF Coefficient(i, j) = 0 THEN ChunkSums(i, powers)[j - 1]
                      ELSE Add(ChunkSums(i, powers)[j - 1],
                               MultiplyScalar(powers[j], Coefficient(i, j)))
<1> DEFINE D == 0..(BabyStep - 1)
           T == Ciphertexts
           F == [D -> T]
           mu == [j \in D |-> j]
           term(j) == MultiplyScalar(powers[j], Coefficient(i, j))
           Value(f, j) == IF j = 0 THEN MultiplyScalar(powers[1], 0)
                          ELSE IF Coefficient(i, j) = 0 THEN f[j - 1]
                          ELSE Add(f[j - 1], term(j))
           H == [j \in D |-> [f \in F |-> Value(f, j)]]
           Body(f) == [j \in D |-> Value(f, j)]
<1>1. BabyStep \in Nat /\ BabyStep >= 2 /\ plaintext_mod \in Nat /\ plaintext_mod # 0
  BY StepShape DEF Evaluable
<1>2. ASSUME NEW j \in D
      PROVE  /\ j # 0 => j - 1 \in D /\ mu[j - 1] < mu[j]
             /\ j # 0 => term(j) \in T
  <2>1. j # 0 => j - 1 \in D /\ mu[j - 1] < mu[j]
    BY <1>1
  <2>2. ASSUME j # 0 PROVE term(j) \in T
    <3> DEFINE v == Coefficient(i, j)
               c == powers[j]
    <3>1. j \in 1..BabyStep /\ j \in Nat
      BY <1>1, <2>2
    <3>2. c \in T /\ v \in Int
      BY <3>1, CoefficientIs
    <3> HIDE DEF v, c
    <3>3. MultiplyScalar(c, v) \in T
      BY <1>1, <3>2, ScalarTyped
    <3> QED BY <3>3 DEF v, c
  <2> QED BY <2>1, <2>2
<1>3. MultiplyScalar(powers[1], 0) \in T
  <2> DEFINE c == powers[1]
  <2>1. c \in T /\ 0 \in Int
    BY <1>1
  <2> HIDE DEF c
  <2>2. MultiplyScalar(c, 0) \in T
    BY <1>1, <2>1, ScalarTyped
  <2> QED BY <2>2 DEF c
<1> HIDE DEF term
<1>4. ASSUME NEW j \in D, NEW f, j # 0 => f[j - 1] \in T PROVE Value(f, j) \in T
  <2> DEFINE c == f[j - 1]
             d == term(j)
  <2>1. j # 0 => Add(c, d) \in T
    <3>1. j # 0 => c \in T /\ d \in T
      BY <1>2, <1>4
    <3> HIDE DEF c, d
    <3> QED BY <1>1, <3>1, Sums
  <2> QED BY <1>3, <1>4, <2>1
<1>5. mu \in [D -> Nat]
  BY <1>1
<1>6. LooksBack(D, T, mu, H)
  <2>1. ASSUME NEW j \in D, NEW f \in F PROVE H[j][f] \in T
    <3>1. H[j][f] = Value(f, j)
      OBVIOUS
    <3>2. j # 0 => f[j - 1] \in T
      BY <1>2
    <3> HIDE DEF Value, D, T
    <3> QED BY <1>4, <3>1, <3>2
  <2>2. ASSUME NEW j \in D, NEW f \in F, NEW g \in F,
               \A y \in D : mu[y] < mu[j] => f[y] = g[y]
        PROVE  H[j][f] = H[j][g]
    <3>1. H[j][f] = Value(f, j) /\ H[j][g] = Value(g, j)
      OBVIOUS
    <3>2. j # 0 => f[j - 1] = g[j - 1]
      BY <1>2, <2>2
    <3> QED BY <3>1, <3>2
  <2> HIDE DEF D, T, mu, H
  <2> QED BY <1>5, <2>1, <2>2 DEF LooksBack
<1>7. PICK f \in F : f = [j \in D |-> H[j][f]]
  <2> HIDE DEF D, T, mu, H
  <2> QED BY <1>3, <1>6, MeasuredFunctionExists
<1>8. f = Body(f)
  <2>1. \A j \in D : H[j][f] = Value(f, j)
    OBVIOUS
  <2> HIDE DEF H, Value, D, T
  <2> QED BY <1>7, <2>1
<1> DEFINE P == ChunkSums(i, powers)
<1>9. P = Body(P)
  <2>1. P = CHOOSE g : g = Body(g)
    BY DEF ChunkSums, term
  <2> HIDE DEF Body, P
  <2> QED BY <1>8, <2>1
<1> HIDE DEF P
<1>10. \A j \in D : P[j] = Value(P, j)
  <2> HIDE DEF Value, D
  <2> QED BY <1>9
<1>11. DOMAIN P = D /\ P = [j \in D |-> P[j]]
  <2> HIDE DEF Value, D
  <2> QED BY <1>9
<1> DEFINE Good == {j \in D : P[j] \in T}
<1>12. ASSUME NEW j \in D, \A h \in D : mu[h] < mu[j] => h \in Good PROVE j \in Good
  <2>1. j # 0 => P[j - 1] \in T
    BY <1>2, <1>12
  <2>2. Value(P, j) \in T
    <3> HIDE DEF Value, D, T, mu, Good
    <3> QED BY <1>4, <2>1
  <2> HIDE DEF Value, D, T, mu
  <2> QED BY <1>10, <2>2
<1>13. D \subseteq Good
  <2> HIDE DEF D, mu, Good
  <2> QED BY <1>5, <1>12, MeasuredInduction
<1>14. P \in [D -> T]
  <2> HIDE DEF D, T
  <2> QED BY <1>11, <1>13
<1> QED BY <1>10, <1>14 DEF P, term

\* Chunk c is the polynomial of its coefficients, no deeper than the powers it is made
\* of and no less deep than the least deep of them.
LEMMA ChunkHolds ==
    ASSUME Evaluable, NEW c \in Nat, NEW powers \in [1..BabyStep -> Ciphertexts],
           NEW i \in Slots, NEW x \in Int,
           \A j \in 1..BabyStep : Holds(powers[j], i, Power(x)[j]),
           NEW low \in Nat, NEW high \in Nat,
           \A j \in 1..BabyStep : low <= powers[j].depth /\ powers[j].depth <= high
    PROVE  /\ Holds(Chunk(c, powers), i, Run(Padded(threshold_poly), c * BabyStep, x)[BabyStep])
           /\ low <= Chunk(c, powers).depth /\ Chunk(c, powers).depth <= high
<1> DEFINE q == plaintext_mod
           s == BabyStep
           W == Padded(threshold_poly)
           lo == c * s
           R == Run(W, lo, x)
           E == Power(x)
           D == 0..(s - 1)
           P == ChunkSums(c, powers)
           e(j) == Coefficient(c, j)
           term(j) == MultiplyScalar(powers[j], e(j))
           mu == [j \in D |-> j]
           Good == {j \in D : /\ Holds(P[j], i, R[j + 1] - e(0))
                              /\ low <= P[j].depth /\ P[j].depth <= high}
<1>1. s \in Nat /\ s >= 2 /\ q \in Nat /\ q # 0
  BY StepShape DEF Evaluable
<1>2. /\ P \in [D -> Ciphertexts]
      /\ \A j \in D : P[j] = IF j = 0 THEN MultiplyScalar(powers[1], 0)
                             ELSE IF e(j) = 0 THEN P[j - 1]
                             ELSE Add(P[j - 1], term(j))
  BY ChunkSumsUnfold
<1>3. ASSUME NEW j \in Nat PROVE e(j) = W[lo + j] /\ e(j) \in Int /\ lo \in Nat
  BY CoefficientIs
<1>4. W \in [Nat -> Int] /\ lo \in Nat
  <2>1. 0 \in Nat
    OBVIOUS
  <2> QED BY <1>3, <2>1 DEF Evaluable
<1>5. E \in [Nat -> Int] /\ E[0] = 1
  BY PowerUnfolds
<1>6. R \in [Nat -> Int] /\ R[0] = 0 /\ \A n \in Nat : R[n + 1] = R[n] + W[lo + n] * E[n]
  <2> HIDE DEF W, lo
  <2> QED BY <1>4, RunUnfolds
<1>7. ASSUME NEW j \in 1..s
      PROVE  /\ powers[j] \in Ciphertexts /\ Holds(powers[j], i, E[j])
             /\ low <= powers[j].depth /\ powers[j].depth <= high
  OBVIOUS
<1> HIDE DEF P, E, R, W, e, lo
<1>8. ASSUME NEW j \in Nat PROVE R[j + 1] = R[j] + e(j) * E[j] /\ R[j] \in Int /\ R[j + 1] \in Int
  <2>1. e(j) = W[lo + j]
    BY <1>3
  <2>2. j + 1 \in Nat
    OBVIOUS
  <2> QED BY <1>6, <2>1, <2>2
<1>9. mu \in [D -> Nat]
  BY <1>1
<1>10. e(0) \in Int /\ R[1] = e(0)
  <2>1. e(0) \in Int
    BY <1>3
  <2>2. R[0 + 1] = R[0] + e(0) * E[0]
    BY <1>8
  <2> QED BY <1>5, <1>6, <2>1, <2>2
<1>11. ASSUME NEW j \in D, \A h \in D : mu[h] < mu[j] => h \in Good PROVE j \in Good
  <2>1. CASE j = 0
    <3> DEFINE prior == powers[1]
    <3>1. /\ prior \in Ciphertexts /\ Holds(prior, i, E[1])
          /\ low <= prior.depth /\ prior.depth <= high
      <4>1. 1 \in 1..s
        BY <1>1
      <4> QED BY <1>7, <4>1
    <3>2. P[0] = MultiplyScalar(prior, 0)
      BY <1>2, <2>1
    <3> HIDE DEF prior
    <3>3. Holds(P[0], i, E[1] * 0) /\ P[0].depth = prior.depth
      <4> DEFINE y == E[1]
                 z == 0
      <4>1. z \in Int /\ P[0] = MultiplyScalar(prior, z) /\ Holds(prior, i, y) /\ y \in Int
        BY <1>5, <3>1, <3>2
      <4> HIDE DEF y, z
      <4>2. /\ Holds(MultiplyScalar(prior, z), i, y * z)
            /\ MultiplyScalar(prior, z).depth = prior.depth
        BY <1>1, <4>1, ScalarHolds
      <4>3. Holds(P[0], i, y * z) /\ P[0].depth = prior.depth
        BY <4>1, <4>2
      <4> QED BY <4>3 DEF y, z
    <3>4. E[1] * 0 = R[0 + 1] - e(0)
      <4>1. E[1] \in Int /\ 0 + 1 = 1
        BY <1>5
      <4> QED BY <1>10, <4>1
    <3>5. Holds(P[0], i, R[0 + 1] - e(0))
      BY <3>3, <3>4
    <3> QED BY <2>1, <3>1, <3>3, <3>5
  <2>2. CASE j # 0
    <3> DEFINE h == j - 1
               prior == P[h]
               v == R[j] - e(0)
               t == e(j)
               y == E[j]
    <3>1. h \in D /\ mu[h] < mu[j] /\ j \in 1..s /\ j \in Nat /\ h + 1 = j
      BY <1>1, <2>2
    <3>2. Holds(prior, i, v) /\ low <= prior.depth /\ prior.depth <= high
      <4>1. h \in Good
        <5> HIDE DEF h, Good, mu
        <5> QED BY <1>11, <3>1
      <4>2. Holds(prior, i, R[h + 1] - e(0)) /\ low <= prior.depth /\ prior.depth <= high
        BY <4>1
      <4> HIDE DEF h, prior
      <4> QED BY <3>1, <4>2
    <3>3. P[j] = IF t = 0 THEN prior ELSE Add(prior, MultiplyScalar(powers[j], t))
      BY <1>2, <2>2
    <3>4. R[j + 1] = R[j] + t * y /\ t \in Int /\ y \in Int /\ R[j] \in Int /\ v \in Int
      <4>1. R[j + 1] = R[j] + e(j) * E[j] /\ R[j] \in Int
        BY <1>8, <3>1
      <4>2. e(j) \in Int /\ E[j] \in Int
        BY <1>3, <1>5, <3>1
      <4> QED BY <1>10, <4>1, <4>2
    <3>5. R[j + 1] - e(0) = v + t * y
      <4> DEFINE z == t * y
      <4>1. z \in Int
        BY <3>4
      <4> HIDE DEF z, t, y
      <4> QED BY <1>10, <3>4, <4>1 DEF z
    <3>6. CASE t = 0
      <4>1. v + t * y = v
        BY <3>4, <3>6
      <4>2. P[j] = prior
        BY <3>3, <3>6
      <4>3. Holds(P[j], i, R[j + 1] - e(0))
        <5> HIDE DEF prior, v, t, y
        <5> QED BY <3>2, <3>5, <4>1, <4>2
      <4> HIDE DEF prior
      <4> QED BY <3>2, <4>2, <4>3
    <3>7. CASE t # 0
      <4> DEFINE d == powers[j]
                 m == MultiplyScalar(d, t)
      <4>1. d \in Ciphertexts /\ Holds(d, i, y) /\ low <= d.depth /\ d.depth <= high
        BY <1>7, <3>1
      <4>2. P[j] = Add(prior, m)
        BY <3>3, <3>7
      <4> HIDE DEF d, prior, v, t, y
      <4>3. Holds(m, i, y * t) /\ m.depth = d.depth
        BY <1>1, <3>4, <4>1, ScalarHolds
      <4> HIDE DEF m
      <4>4. Holds(P[j], i, v + y * t)
        BY <1>1, <3>2, <4>2, <4>3, SumHolds
      <4>5. y * t = t * y
        BY <3>4
      <4>6. Holds(P[j], i, R[j + 1] - e(0))
        BY <3>5, <4>4, <4>5
      <4>7. prior \in Ciphertexts /\ m \in Ciphertexts
        BY <3>2, <4>3 DEF Holds
      <4>8. P[j].depth = Larger(prior.depth, m.depth)
        BY <1>1, <4>2, <4>7, Sums
      <4>9. low <= P[j].depth /\ P[j].depth <= high
        BY <3>2, <4>1, <4>3, <4>8 DEF Larger
      <4> QED BY <4>6, <4>9
    <3> QED BY <3>6, <3>7
  <2> QED BY <2>1, <2>2
<1>12. D \subseteq Good
  <2> HIDE DEF D, mu, Good
  <2> QED BY <1>9, <1>11, MeasuredInduction
<1> DEFINE prior == P[s - 1]
<1>13. Holds(prior, i, R[s] - e(0)) /\ low <= prior.depth /\ prior.depth <= high
  <2>1. s - 1 \in D /\ (s - 1) + 1 = s
    BY <1>1
  <2>2. s - 1 \in Good
    BY <1>12, <2>1
  <2>3. Holds(prior, i, R[(s - 1) + 1] - e(0)) /\ low <= prior.depth /\ prior.depth <= high
    BY <2>2
  <2> QED BY <2>1, <2>3
<1>14. Chunk(c, powers) = AddScalar(prior, e(0))
  BY ChunkIsSum DEF P, e
<1> HIDE DEF prior
<1>15. Holds(Chunk(c, powers), i, (R[s] - e(0)) + e(0)) /\ Chunk(c, powers).depth = prior.depth
  <2> DEFINE v == R[s] - e(0)
             w == e(0)
  <2>1. w \in Int /\ Holds(prior, i, v) /\ Chunk(c, powers) = AddScalar(prior, w)
    BY <1>10, <1>13, <1>14
  <2> HIDE DEF v, w
  <2>2. Holds(Chunk(c, powers), i, v + w) /\ Chunk(c, powers).depth = prior.depth
    BY <1>1, <2>1, ScalarHolds
  <2> QED BY <2>2 DEF v, w
<1>16. (R[s] - e(0)) + e(0) = R[s]
  <2>1. R[s] \in Int
    BY <1>1, <1>6
  <2> QED BY <1>10, <2>1
<1>17. Holds(Chunk(c, powers), i, R[s])
  BY <1>15, <1>16
<1> QED BY <1>13, <1>15, <1>17 DEF R, W, lo

------------------------------------------------------------------------------
(* Horner's combination *)

HornerFrom(chunk, xs) == CHOOSE f : f = [i \in 0..(ChunkCount - 1) |->
    IF i = ChunkCount - 1 THEN chunk[i] ELSE Add(Multiply(f[i + 1], xs), chunk[i])]

\* Horner is the last of its partial results, which obey their equation.
LEMMA HornerUnfolds ==
    ASSUME Evaluable, NEW chunk \in [0..(ChunkCount - 1) -> Ciphertexts], NEW xs \in Ciphertexts
    PROVE  /\ Horner(chunk, xs) = HornerFrom(chunk, xs)[0]
           /\ HornerFrom(chunk, xs) \in [0..(ChunkCount - 1) -> Ciphertexts]
           /\ \A i \in 0..(ChunkCount - 1) :
                  HornerFrom(chunk, xs)[i] =
                      IF i = ChunkCount - 1 THEN chunk[i]
                      ELSE Add(Multiply(HornerFrom(chunk, xs)[i + 1], xs), chunk[i])
<1> DEFINE D == 0..(ChunkCount - 1)
           T == Ciphertexts
           F == [D -> T]
           mu == [i \in D |-> ChunkCount - 1 - i]
           Value(f, i) == IF i = ChunkCount - 1 THEN chunk[i]
                          ELSE Add(Multiply(f[i + 1], xs), chunk[i])
           H == [i \in D |-> [f \in F |-> Value(f, i)]]
           Body(f) == [i \in D |-> Value(f, i)]
<1>1. ChunkCount \in Nat /\ ChunkCount >= 1 /\ plaintext_mod \in Nat /\ plaintext_mod # 0
  BY StepShape DEF Evaluable
<1>2. ASSUME NEW i \in D
      PROVE  i # ChunkCount - 1 => i + 1 \in D /\ mu[i + 1] < mu[i]
  BY <1>1
<1>3. ASSUME NEW i \in D, NEW f, i # ChunkCount - 1 => f[i + 1] \in T PROVE Value(f, i) \in T
  <2> DEFINE c == f[i + 1]
             d == chunk[i]
             m == Multiply(c, xs)
  <2>1. d \in T
    OBVIOUS
  <2>2. i # ChunkCount - 1 => Add(m, d) \in T
    <3>1. i # ChunkCount - 1 => c \in T
      BY <1>3
    <3> HIDE DEF c, d
    <3>2. i # ChunkCount - 1 => m \in T
      BY <1>1, <3>1, Products
    <3> HIDE DEF m
    <3> QED BY <1>1, <2>1, <3>2, Sums
  <2> QED BY <2>1, <2>2
<1>4. mu \in [D -> Nat]
  BY <1>1
<1>5. LooksBack(D, T, mu, H)
  <2>1. ASSUME NEW j \in D, NEW f \in F PROVE H[j][f] \in T
    <3>1. H[j][f] = Value(f, j)
      OBVIOUS
    <3>2. j # ChunkCount - 1 => f[j + 1] \in T
      BY <1>2
    <3> HIDE DEF Value, D, T
    <3> QED BY <1>3, <3>1, <3>2
  <2>2. ASSUME NEW j \in D, NEW f \in F, NEW g \in F,
               \A y \in D : mu[y] < mu[j] => f[y] = g[y]
        PROVE  H[j][f] = H[j][g]
    <3>1. H[j][f] = Value(f, j) /\ H[j][g] = Value(g, j)
      OBVIOUS
    <3>2. j # ChunkCount - 1 => f[j + 1] = g[j + 1]
      BY <1>2, <2>2
    <3> QED BY <3>1, <3>2
  <2> HIDE DEF D, T, mu, H
  <2> QED BY <1>4, <2>1, <2>2 DEF LooksBack
<1>6. PICK f \in F : f = [j \in D |-> H[j][f]]
  <2>1. xs \in T
    OBVIOUS
  <2> HIDE DEF D, T, mu, H
  <2> QED BY <1>5, <2>1, MeasuredFunctionExists
<1>7. f = Body(f)
  <2>1. \A j \in D : H[j][f] = Value(f, j)
    OBVIOUS
  <2> HIDE DEF H, Value, D, T
  <2> QED BY <1>6, <2>1
<1> DEFINE P == HornerFrom(chunk, xs)
<1>8. P = Body(P)
  <2>1. P = CHOOSE g : g = Body(g)
    BY DEF HornerFrom
  <2> HIDE DEF Body, P
  <2> QED BY <1>7, <2>1
<1>9. Horner(chunk, xs) = P[0]
  BY DEF Horner, HornerFrom
<1> HIDE DEF P
<1>10. \A j \in D : P[j] = Value(P, j)
  <2> HIDE DEF Value, D
  <2> QED BY <1>8
<1>11. DOMAIN P = D /\ P = [j \in D |-> P[j]]
  <2> HIDE DEF Value, D
  <2> QED BY <1>8
<1> DEFINE Good == {j \in D : P[j] \in T}
<1>12. ASSUME NEW j \in D, \A h \in D : mu[h] < mu[j] => h \in Good PROVE j \in Good
  <2>1. j # ChunkCount - 1 => P[j + 1] \in T
    BY <1>2, <1>12
  <2>2. Value(P, j) \in T
    <3> HIDE DEF Value, D, T, mu, Good
    <3> QED BY <1>3, <2>1
  <2> HIDE DEF Value, D, T, mu
  <2> QED BY <1>10, <2>2
<1>13. D \subseteq Good
  <2> HIDE DEF D, mu, Good
  <2> QED BY <1>4, <1>12, MeasuredInduction
<1>14. P \in [D -> T]
  <2> HIDE DEF D, T
  <2> QED BY <1>11, <1>13
<1> QED BY <1>9, <1>10, <1>14 DEF P

\* The i-th value is the polynomial of the coefficients from chunk i on.
LEMMA HornerHolds ==
    ASSUME Evaluable, NEW chunk \in [0..(ChunkCount - 1) -> Ciphertexts], NEW xs \in Ciphertexts,
           NEW i \in Slots, NEW x \in Int,
           \A c \in 0..(ChunkCount - 1) : Holds(chunk[c], i,
               Run(Padded(threshold_poly), c * BabyStep, x)[BabyStep]),
           Holds(xs, i, Power(x)[BabyStep]),
           NEW low \in Nat, NEW high \in Nat, xs.depth <= high,
           \A c \in 0..(ChunkCount - 1) : low <= chunk[c].depth /\ chunk[c].depth <= high
    PROVE  /\ Holds(Horner(chunk, xs), i,
                    Run(Padded(threshold_poly), 0, x)[ChunkCount * BabyStep])
           /\ Horner(chunk, xs).depth <= high + (ChunkCount - 1)
           /\ ChunkCount > 1 => Horner(chunk, xs).depth >= xs.depth + (ChunkCount - 1)
<1> DEFINE q == plaintext_mod
           s == BabyStep
           C == ChunkCount
           W == Padded(threshold_poly)
           V(c) == Run(W, c * s, x)[(C - c) * s]
           D == 0..(C - 1)
           P == HornerFrom(chunk, xs)
           mu == [c \in D |-> C - 1 - c]
           Good == {c \in D : /\ Holds(P[c], i, V(c))
                              /\ P[c].depth <= high + (C - 1 - c)
                              /\ c < C - 1 => P[c].depth >= xs.depth + (C - 1 - c)}
<1>1. s \in Nat /\ s >= 2 /\ q \in Nat /\ q # 0 /\ C \in Nat /\ C >= 1
  BY StepShape DEF Evaluable
<1>2. /\ P \in [D -> Ciphertexts] /\ Horner(chunk, xs) = P[0]
      /\ \A c \in D : P[c] = IF c = C - 1 THEN chunk[c]
                             ELSE Add(Multiply(P[c + 1], xs), chunk[c])
  BY HornerUnfolds
<1>3. W \in [Nat -> Int]
  BY DEF Evaluable
<1>4. ASSUME NEW c \in D
      PROVE  /\ chunk[c] \in Ciphertexts /\ Holds(chunk[c], i, Run(W, c * s, x)[s])
             /\ low <= chunk[c].depth /\ chunk[c].depth <= high
             /\ chunk[c].depth \in Nat
  <2>1. chunk[c] \in Ciphertexts
    OBVIOUS
  <2> QED BY <1>1, <2>1, SlotsTyped
<1>5. xs.depth \in Nat
  BY <1>1, SlotsTyped
<1> HIDE DEF P, W, C
<1>6. mu \in [D -> Nat]
  BY <1>1
<1>7. ASSUME NEW c \in D, \A h \in D : mu[h] < mu[c] => h \in Good PROVE c \in Good
  <2>1. CASE c = C - 1
    <3>1. P[c] = chunk[c]
      BY <1>2, <2>1
    <3>2. (C - c) * s = s
      BY <1>1, <2>1
    <3>3. Holds(P[c], i, V(c))
      BY <1>4, <3>1, <3>2
    <3>4. P[c].depth <= high + (C - 1 - c)
      BY <1>1, <1>4, <2>1, <3>1
    <3> QED BY <1>1, <2>1, <3>3, <3>4
  <2>2. CASE c # C - 1
    <3> DEFINE h == c + 1
               prior == P[h]
               d == chunk[c]
               m == Multiply(prior, xs)
               v == V(h)
               e == Power(x)[s]
               u == Run(W, c * s, x)[s]
    <3>1. h \in D /\ mu[h] < mu[c] /\ h \in Nat /\ c \in Nat /\ h = c + 1 /\ c < C - 1
      BY <1>1, <2>2
    <3>2. /\ Holds(prior, i, v) /\ prior.depth <= high + (C - 1 - h)
          /\ h < C - 1 => prior.depth >= xs.depth + (C - 1 - h)
      <4>1. h \in Good
        <5> HIDE DEF h, Good, mu
        <5> QED BY <1>7, <3>1
      <4> HIDE DEF h
      <4> QED BY <4>1
    <3>3. P[c] = Add(m, d)
      BY <1>2, <2>2
    <3>4. /\ d \in Ciphertexts /\ Holds(d, i, u) /\ d.depth <= high /\ d.depth \in Nat
      BY <1>4
    <3>5. Holds(xs, i, e)
      OBVIOUS
    <3>6. V(c) = v * e + u
      <4> DEFINE lo == c * s
                 mid == h * s
                 b == (C - h) * s
                 n == (C - c) * s
      <4>1. lo \in Nat /\ b \in Nat /\ mid \in Nat /\ n \in Nat
        BY <1>1, <3>1
      <4>2. mid = lo + s /\ n = s + b
        BY <1>1, <3>1
      <4>3. Run(W, lo, x)[n] = Run(W, lo, x)[s] + Power(x)[s] * Run(W, mid, x)[b]
        <5> HIDE DEF lo, b, mid, n
        <5>1. /\ W \in [Nat -> Int] /\ lo \in Nat /\ s \in Nat /\ b \in Nat /\ mid \in Nat
              /\ n \in Nat /\ x \in Int
          BY <1>1, <1>3, <4>1
        <5>2. mid = lo + s
          BY <4>2
        <5>3. n = s + b
          BY <4>2
        <5> HIDE DEF s
        <5> QED BY ONLY <5>1, <5>2, <5>3, RunSplitAt
      <4>4. v \in Int /\ e \in Int /\ u \in Int
        BY <3>2, <3>4, <3>5 DEF Holds
      <4>5. V(c) = u + e * v
        BY <4>3
      <4> HIDE DEF u, e, v
      <4> QED BY <4>4, <4>5
    <3> HIDE DEF d, prior, v, e, u, h
    <3>7. Holds(m, i, v * e)
      BY <1>1, <3>2, <3>5, ProductHolds
    <3>8. prior \in Ciphertexts /\ prior.depth \in Nat
      <4>1. prior \in Ciphertexts
        BY <3>2 DEF Holds
      <4> QED BY <1>1, <4>1, SlotsTyped
    <3>9. m \in Ciphertexts /\ m.depth = Larger(prior.depth, xs.depth) + 1
      BY <1>1, <3>8, Products
    <3> HIDE DEF m
    <3>10. Holds(P[c], i, v * e + u)
      BY <1>1, <3>3, <3>4, <3>7, SumHolds
    <3>11. Holds(P[c], i, V(c))
      <4> HIDE DEF V
      <4> QED BY <3>6, <3>10
    <3>12. P[c].depth = Larger(m.depth, d.depth)
      BY <1>1, <3>3, <3>4, <3>9, Sums
    <3> DEFINE g == Larger(prior.depth, xs.depth)
    <3>13. g \in Nat /\ g >= prior.depth /\ g >= xs.depth /\ (g = prior.depth \/ g = xs.depth)
      BY <1>5, <3>8, LargerIs
    <3>14. /\ Larger(m.depth, d.depth) >= m.depth /\ m.depth = g + 1
           /\ (Larger(m.depth, d.depth) = m.depth \/ Larger(m.depth, d.depth) = d.depth)
           /\ Larger(m.depth, d.depth) \in Nat
      <4>1. m.depth \in Nat
        BY <3>9, <3>13
      <4> QED BY <3>4, <3>9, <4>1, LargerIs
    <3> HIDE DEF g
    <3>15. P[c].depth <= high + (C - 1 - c)
      BY <1>1, <1>5, <3>1, <3>2, <3>4, <3>8, <3>12, <3>13, <3>14
    <3>16. P[c].depth >= xs.depth + (C - 1 - c)
      <4>1. CASE h < C - 1
        BY <1>1, <1>5, <3>1, <3>2, <3>4, <3>8, <3>12, <3>13, <3>14, <4>1
      <4>2. CASE h = C - 1
        BY <1>1, <1>5, <3>1, <3>4, <3>8, <3>12, <3>13, <3>14, <4>2
      <4> QED BY <1>1, <3>1, <4>1, <4>2
    <3> HIDE DEF V
    <3> QED BY <3>11, <3>15, <3>16
  <2> QED BY <2>1, <2>2
<1>8. D \subseteq Good
  <2> HIDE DEF D, mu, Good
  <2> QED BY <1>6, <1>7, MeasuredInduction
<1>9. 0 \in D /\ 0 * s = 0 /\ (C - 0) * s = C * s /\ C - 1 - 0 = C - 1
  BY <1>1
<1>10. 0 \in Good
  BY <1>8, <1>9
<1> QED BY <1>1, <1>2, <1>9, <1>10 DEF C, W

------------------------------------------------------------------------------
(* The tree's combination *)

\* Shifts counts no bit too many.
LEMMA ShiftsLeast == \A e \in Nat : \A x \in Nat : x < Pow2[e] => Shifts[x] <= e
<1> DEFINE S == {e \in Nat : \A x \in Nat : x < Pow2[e] => Shifts[x] <= e}
<1>1. 0 \in S
  <2>1. Pow2[0] = 1 /\ Shifts[0] = 0
    BY Pow2Unfolds, ShiftsUnfolds
  <2>2. \A x \in Nat : x < 1 => x = 0
    OBVIOUS
  <2> QED BY <2>1, <2>2
<1>2. ASSUME NEW e \in Nat, e \in S PROVE e + 1 \in S
  <2>1. ASSUME NEW x \in Nat, x < Pow2[e + 1] PROVE Shifts[x] <= e + 1
    <3>1. CASE x = 0
      BY <3>1, ShiftsUnfolds
    <3>2. CASE x # 0
      <4> DEFINE h == x \div 2
                 prior == Pow2[e]
      <4>1. e + 1 \in Nat \ {0} /\ (e + 1) - 1 = e
        OBVIOUS
      <4>2. Pow2[e + 1] = 2 * prior /\ prior \in Nat
        BY <4>1, Pow2Unfolds
      <4> HIDE DEF prior
      <4>3. h \in Nat /\ h < prior
        BY <2>1, <4>2
      <4>4. Shifts[x] = 1 + Shifts[h] /\ Shifts[h] \in Nat
        BY <3>2, <4>3, ShiftsUnfolds
      <4>5. Shifts[h] <= e
        <5> HIDE DEF h
        <5> QED BY <1>2, <4>3 DEF prior
      <4> QED BY <4>4, <4>5
    <3> QED BY <3>1, <3>2
  <2> QED BY <2>1
<1>3. Nat \subseteq S
  <2> HIDE DEF S
  <2> QED BY <1>1, <1>2, InductiveSet
<1> QED BY <1>3

\* A range of two chunks or more is cut at a power of two, and the part to the right is
\* no larger than the one to the left.
LEMMA LevelShape ==
    ASSUME NEW n \in Nat, n >= 2
    PROVE  /\ Level(n) \in Nat /\ CeilLog2(n) = Level(n) + 1
           /\ Pow2[Level(n)] \in Nat /\ Pow2[Level(n)] >= 1 /\ Pow2[Level(n)] < n
           /\ CeilLog2(Pow2[Level(n)]) = Level(n)
           /\ CeilLog2(n - Pow2[Level(n)]) \in Nat /\ CeilLog2(n - Pow2[Level(n)]) <= Level(n)
<1> DEFINE L == Level(n)
           c == CeilLog2(n)
           prior == Pow2[L]
<1>1. c \in Nat /\ n <= Pow2[c] /\ Pow2[c] \in Nat
  BY CeilLog2Bound
<1>2. c # 0
  <2>1. Pow2[0] = 1
    BY Pow2Unfolds
  <2> HIDE DEF c
  <2> QED BY <1>1, <2>1
<1>3. L = c - 1
  BY DEF Level
<1>4. c = Shifts[n - 1] /\ n - 1 \in Nat
  BY DEF CeilLog2
<1> HIDE DEF c, L
<1>5. L \in Nat /\ c = L + 1 /\ c \in Nat \ {0} /\ c - 1 = L
  BY <1>1, <1>2, <1>3
<1>6. prior \in Nat /\ prior # 0 /\ Pow2[c] = 2 * prior
  BY <1>5, Pow2Unfolds, Pow2Positive
<1>7. prior < n
  <2>1. SUFFICES ASSUME n - 1 < prior PROVE FALSE
    BY <1>6
  <2>2. Shifts[n - 1] <= L
    BY <1>4, <1>5, <2>1, ShiftsLeast
  <2> QED BY <1>4, <1>5, <2>2
<1>8. CeilLog2(prior) = L
  BY <1>5, CeilLog2OfPower
<1> HIDE DEF prior
<1> DEFINE r == n - prior
<1>9. r \in Nat \ {0} /\ r - 1 \in Nat /\ r - 1 < prior
  BY <1>1, <1>6, <1>7
<1> HIDE DEF r
<1>10. CeilLog2(r) \in Nat /\ CeilLog2(r) <= L
  <2>1. CeilLog2(r) \in Nat
    BY <1>9, CeilLog2Bound
  <2>2. Shifts[r - 1] <= L
    BY <1>5, <1>9, ShiftsLeast DEF prior
  <2> QED BY <2>1, <2>2 DEF CeilLog2
<1>11. prior >= 1
  BY <1>6
<1> QED BY <1>5, <1>6, <1>7, <1>8, <1>10, <1>11 DEF prior, L, c, r

Giants(xs) == CHOOSE f : f = [j \in Nat |-> IF j = 0 THEN xs ELSE Multiply(f[j - 1], f[j - 1])]

\* The j-th giant step is xs squared j times.
LEMMA GiantsHold ==
    ASSUME plaintext_mod \in Nat, plaintext_mod # 0, NEW xs \in Ciphertexts,
           NEW i \in Slots, NEW x \in Int, NEW s \in Nat, Holds(xs, i, Power(x)[s])
    PROVE  \A j \in Nat : /\ Holds(Giants(xs)[j], i, Power(x)[Pow2[j] * s])
                          /\ Giants(xs)[j].depth = xs.depth + j
<1> DEFINE T == Ciphertexts
           E == Power(x)
           prev == [n \in Nat |-> n - 1]
           next == [n \in Nat |-> [t \in T |-> Multiply(t, t)]]
           Body(f) == [j \in Nat |-> IF j = 0 THEN xs ELSE Multiply(f[j - 1], f[j - 1])]
           G == Giants(xs)
           Good == {j \in Nat : Holds(G[j], i, E[Pow2[j] * s]) /\ G[j].depth = xs.depth + j}
<1>1. ASSUME NEW t \in T PROVE Multiply(t, t) \in T /\ Multiply(t, t).depth = t.depth + 1
  <2>1. Multiply(t, t) \in T /\ Multiply(t, t).depth = Larger(t.depth, t.depth) + 1
    BY Products
  <2>2. Larger(t.depth, t.depth) = t.depth
    BY DEF Larger
  <2> QED BY <2>1, <2>2
<1>2. Recursion(T, xs, prev, next)
  <2>1. \A n \in Nat \ {0} : prev[n] \in 0..(n - 1)
    OBVIOUS
  <2>2. \A n \in Nat, t \in T : next[n][t] \in T
    BY <1>1
  <2> HIDE DEF prev, next
  <2> QED BY <2>1, <2>2 DEF Recursion
<1>3. PICK f \in [Nat -> T] : f = [n \in Nat |-> IF n = 0 THEN xs ELSE next[n][f[prev[n]]]]
  <2> HIDE DEF prev, next
  <2> QED BY <1>2, RecursiveFunctionExists
<1>4. f = Body(f)
  <2>1. ASSUME NEW n \in Nat, n # 0 PROVE next[n][f[prev[n]]] = Multiply(f[n - 1], f[n - 1])
    BY <2>1
  <2> QED BY <1>3, <2>1
<1>5. G = Body(G)
  <2>1. G = CHOOSE g : g = Body(g)
    BY DEF Giants
  <2> HIDE DEF Body, G
  <2> QED BY <1>4, <2>1
<1> HIDE DEF G
<1>6. \A j \in Nat : G[j] = IF j = 0 THEN xs ELSE Multiply(G[j - 1], G[j - 1])
  BY <1>5
<1>7. xs.depth \in Nat
  BY SlotsTyped
<1>8. 0 \in Good
  <2>1. G[0] = xs /\ Pow2[0] * s = s /\ xs.depth = xs.depth + 0
    BY <1>6, <1>7, Pow2Unfolds
  <2> QED BY <2>1
<1>9. ASSUME NEW j \in Nat, j \in Good PROVE j + 1 \in Good
  <2> DEFINE g == G[j]
             a == Pow2[j] * s
             b == Pow2[j + 1] * s
  <2>1. Holds(g, i, E[a]) /\ g.depth = xs.depth + j
    BY <1>9
  <2>2. G[j + 1] = Multiply(g, g)
    <3>1. j + 1 \in Nat /\ j + 1 # 0 /\ (j + 1) - 1 = j
      OBVIOUS
    <3> QED BY <1>6, <3>1
  <2>3. a \in Nat /\ b \in Nat /\ b = a + a
    <3>1. Pow2[j] \in Nat /\ Pow2[j + 1] = 2 * Pow2[j]
      <4>1. j + 1 \in Nat \ {0} /\ (j + 1) - 1 = j
        OBVIOUS
      <4> QED BY <4>1, Pow2Unfolds
    <3> QED BY <3>1
  <2> HIDE DEF a, b, g
  <2>4. E[b] = E[a] * E[a]
    <3>1. E[a + a] = E[a] * E[a]
      BY <2>3, PowerSum
    <3> HIDE DEF E
    <3> QED BY <2>3, <3>1
  <2>5. Holds(G[j + 1], i, E[b])
    <3> HIDE DEF E
    <3> QED BY <2>1, <2>2, <2>4, ProductHolds
  <2>6. G[j + 1].depth = xs.depth + (j + 1)
    <3>1. g \in T
      BY <2>1 DEF Holds
    <3>2. Multiply(g, g).depth = g.depth + 1
      BY <1>1, <3>1
    <3> QED BY <1>7, <2>1, <2>2, <3>2
  <2> QED BY <2>5, <2>6 DEF b
<1>10. Nat \subseteq Good
  <2> HIDE DEF Good
  <2> QED BY <1>8, <1>9, InductiveSet
<1> QED BY <1>10 DEF G

ChunkRanges == {r \in (0..ChunkCount) \X (0..ChunkCount) : r[1] < r[2]}
Cut(r) == r[1] + Pow2[Level(r[2] - r[1])]
Combined(chunk, G) == CHOOSE f : f = [r \in ChunkRanges |->
    IF r[2] - r[1] = 1 THEN chunk[r[1]]
    ELSE Add(f[<<r[1], Cut(r)>>], Multiply(f[<<Cut(r), r[2]>>], G[Level(r[2] - r[1])]))]

\* Tree combines all chunks.
LEMMA TreeIsCombined ==
    ASSUME NEW chunk, NEW xs
    PROVE  Tree(chunk, xs) = Combined(chunk, Giants(xs))[<<0, ChunkCount>>]
BY DEF Tree, Combined, Giants, ChunkRanges, Cut

\* The parts of a range are shorter ranges.
LEMMA CutShape ==
    ASSUME ChunkCount \in Nat, NEW r \in ChunkRanges
    PROVE  /\ r = <<r[1], r[2]>> /\ r[1] \in 0..ChunkCount /\ r[2] \in 0..ChunkCount
           /\ r[2] - r[1] \in Nat /\ r[2] - r[1] >= 1
           /\ r[2] - r[1] # 1 =>
                  /\ Cut(r) \in 0..ChunkCount /\ r[1] < Cut(r) /\ Cut(r) < r[2]
                  /\ <<r[1], Cut(r)>> \in ChunkRanges /\ <<Cut(r), r[2]>> \in ChunkRanges
<1>1. r \in (0..ChunkCount) \X (0..ChunkCount) /\ r[1] < r[2]
  BY DEF ChunkRanges
<1> DEFINE a == r[1]
           b == r[2]
           n == b - a
           h == Pow2[Level(n)]
           c == Cut(r)
<1>2. r = <<a, b>> /\ a \in 0..ChunkCount /\ b \in 0..ChunkCount /\ a < b
  BY <1>1
<1>3. n \in Nat /\ n >= 1
  BY <1>2
<1>4. c = a + h
  BY DEF Cut
<1> HIDE DEF c
<1>5. ASSUME n # 1
      PROVE  c \in 0..ChunkCount /\ a < c /\ c < b /\ <<a, c>> \in ChunkRanges
             /\ <<c, b>> \in ChunkRanges
  <2>1. n \in Nat /\ n >= 2
    BY <1>3, <1>5
  <2>2. h \in Nat /\ h >= 1 /\ h < n
    <3> HIDE DEF n
    <3> QED BY <2>1, LevelShape
  <2> HIDE DEF h
  <2>3. c \in 0..ChunkCount /\ a < c /\ c < b
    BY <1>2, <1>4, <2>2
  <2> HIDE DEF a, b
  <2>4. <<a, c>> \in ChunkRanges
    BY <1>2, <2>3 DEF ChunkRanges
  <2>5. <<c, b>> \in ChunkRanges
    BY <1>2, <2>3 DEF ChunkRanges
  <2> QED BY <2>3, <2>4, <2>5
<1> QED BY <1>2, <1>3, <1>5 DEF c

\* What is combined is a ciphertext and obeys its equation.
LEMMA CombinedUnfolds ==
    ASSUME Evaluable, NEW chunk \in [0..(ChunkCount - 1) -> Ciphertexts],
           NEW G, \A j \in Nat : G[j] \in Ciphertexts
    PROVE  /\ Combined(chunk, G) \in [ChunkRanges -> Ciphertexts]
           /\ \A r \in ChunkRanges :
                  Combined(chunk, G)[r] =
                      IF r[2] - r[1] = 1 THEN chunk[r[1]]
                      ELSE Add(Combined(chunk, G)[<<r[1], Cut(r)>>],
                               Multiply(Combined(chunk, G)[<<Cut(r), r[2]>>],
                                        G[Level(r[2] - r[1])]))
<1> DEFINE D == ChunkRanges
           T == Ciphertexts
           F == [D -> T]
           mu == [r \in D |-> r[2] - r[1]]
           left(r) == <<r[1], Cut(r)>>
           right(r) == <<Cut(r), r[2]>>
           giant(r) == G[Level(r[2] - r[1])]
           one(r) == r[2] - r[1] = 1
           Value(f, r) == IF one(r) THEN chunk[r[1]]
                          ELSE Add(f[left(r)], Multiply(f[right(r)], giant(r)))
           H == [r \in D |-> [f \in F |-> Value(f, r)]]
           Body(f) == [r \in D |-> Value(f, r)]
<1>1. ChunkCount \in Nat /\ ChunkCount >= 1 /\ plaintext_mod \in Nat /\ plaintext_mod # 0
  BY StepShape DEF Evaluable
<1>2. ASSUME NEW r \in D, ~one(r)
      PROVE  /\ left(r) \in D /\ right(r) \in D /\ giant(r) \in T
             /\ mu[left(r)] < mu[r] /\ mu[right(r)] < mu[r]
  <2> DEFINE a == r[1]
             b == r[2]
             c == Cut(r)
  <2>1. /\ c \in 0..ChunkCount /\ a < c /\ c < b /\ a \in 0..ChunkCount /\ b \in 0..ChunkCount
        /\ <<a, c>> \in D /\ <<c, b>> \in D
    BY <1>1, <1>2, CutShape
  <2>2. Level(b - a) \in Nat
    <3> DEFINE n == b - a
    <3>1. n \in Nat /\ n >= 2
      BY <1>2, <2>1
    <3> HIDE DEF n
    <3> QED BY <3>1, LevelShape DEF n
  <2>3. mu[r] = b - a
    OBVIOUS
  <2> HIDE DEF c, a, b
  <2>4. mu[<<a, c>>] = c - a /\ mu[<<c, b>>] = b - c
    BY <2>1
  <2>5. c - a < b - a /\ b - c < b - a
    BY <2>1
  <2> HIDE DEF mu, D
  <2> QED BY <2>1, <2>2, <2>3, <2>4, <2>5 DEF a, b, c
<1>3. ASSUME NEW r \in D, one(r) PROVE r[1] \in 0..(ChunkCount - 1) /\ chunk[r[1]] \in T
  <2>1. r[1] \in 0..ChunkCount /\ r[2] \in 0..ChunkCount
    BY <1>1, CutShape
  <2>2. r[1] \in 0..(ChunkCount - 1)
    BY <1>1, <1>3, <2>1
  <2> QED BY <2>2
<1> HIDE DEF left, right, giant, one
<1>4. ASSUME NEW r \in D, NEW f, ~one(r) => f[left(r)] \in T /\ f[right(r)] \in T
      PROVE  Value(f, r) \in T
  <2> DEFINE c == f[left(r)]
             d == f[right(r)]
             g == giant(r)
             m == Multiply(d, g)
  <2>1. ~one(r) => Add(c, m) \in T
    <3>1. SUFFICES ASSUME ~one(r) PROVE Add(c, m) \in T
      OBVIOUS
    <3>2. c \in T /\ d \in T /\ g \in T
      BY <1>2, <1>4, <3>1
    <3> HIDE DEF c, d, g
    <3>3. m \in T
      BY <1>1, <3>2, Products
    <3> HIDE DEF m
    <3> QED BY <1>1, <3>2, <3>3, Sums
  <2> QED BY <1>3, <2>1
<1>5. mu \in [D -> Nat]
  <2>1. ASSUME NEW r \in D PROVE r[2] - r[1] \in Nat
    BY <1>1, CutShape
  <2> QED BY <2>1
<1>6. LooksBack(D, T, mu, H)
  <2>1. ASSUME NEW j \in D, NEW f \in F PROVE H[j][f] \in T
    <3>1. H[j][f] = Value(f, j)
      OBVIOUS
    <3>2. ~one(j) => f[left(j)] \in T /\ f[right(j)] \in T
      <4> HIDE DEF D, T
      <4> QED BY <1>2
    <3> HIDE DEF Value, D, T
    <3> QED BY <1>4, <3>1, <3>2
  <2>2. ASSUME NEW j \in D, NEW f \in F, NEW g \in F,
               \A y \in D : mu[y] < mu[j] => f[y] = g[y]
        PROVE  H[j][f] = H[j][g]
    <3>1. H[j][f] = Value(f, j) /\ H[j][g] = Value(g, j)
      OBVIOUS
    <3>2. ~one(j) => f[left(j)] = g[left(j)] /\ f[right(j)] = g[right(j)]
      <4> HIDE DEF D, T, mu
      <4> QED BY <1>2, <2>2
    <3> QED BY <3>1, <3>2
  <2> HIDE DEF D, T, mu, H
  <2> QED BY <1>5, <2>1, <2>2 DEF LooksBack
<1>7. PICK f \in F : f = [j \in D |-> H[j][f]]
  <2>1. G[0] \in T
    OBVIOUS
  <2> HIDE DEF D, T, mu, H
  <2> QED BY <1>6, <2>1, MeasuredFunctionExists
<1>8. f = Body(f)
  <2>1. \A j \in D : H[j][f] = Value(f, j)
    OBVIOUS
  <2> HIDE DEF H, Value, D, T
  <2> QED BY <1>7, <2>1
<1> DEFINE P == Combined(chunk, G)
<1>9. P = Body(P)
  <2>1. P = CHOOSE g : g = Body(g)
    BY DEF Combined, left, right, giant, one
  <2> HIDE DEF Body, P
  <2> QED BY <1>8, <2>1
<1> HIDE DEF P
<1>10. \A j \in D : P[j] = Value(P, j)
  <2> HIDE DEF Value, D
  <2> QED BY <1>9
<1>11. DOMAIN P = D /\ P = [j \in D |-> P[j]]
  <2> HIDE DEF Value, D
  <2> QED BY <1>9
<1> DEFINE Good == {j \in D : P[j] \in T}
<1>12. ASSUME NEW j \in D, \A h \in D : mu[h] < mu[j] => h \in Good PROVE j \in Good
  <2>1. ~one(j) => P[left(j)] \in T /\ P[right(j)] \in T
    <3>1. ~one(j) => left(j) \in Good /\ right(j) \in Good
      <4> HIDE DEF D, T, mu, Good
      <4> QED BY <1>2, <1>12
    <3> QED BY <3>1
  <2>2. Value(P, j) \in T
    <3> HIDE DEF Value, D, T, mu, Good
    <3> QED BY <1>4, <2>1
  <2> HIDE DEF Value, D, T, mu
  <2> QED BY <1>10, <2>2
<1>13. D \subseteq Good
  <2> HIDE DEF D, mu, Good
  <2> QED BY <1>5, <1>12, MeasuredInduction
<1>14. P \in [D -> T]
  <2> HIDE DEF D, T
  <2> QED BY <1>11, <1>13
<1> QED BY <1>10, <1>14 DEF P, left, right, giant, one

\* What is combined for a range is the polynomial of its chunks' coefficients, one
\* product deeper for each doubling of its size.
LEMMA TreeHolds ==
    ASSUME Evaluable, NEW chunk \in [0..(ChunkCount - 1) -> Ciphertexts], NEW xs \in Ciphertexts,
           NEW i \in Slots, NEW x \in Int,
           \A c \in 0..(ChunkCount - 1) : Holds(chunk[c], i,
               Run(Padded(threshold_poly), c * BabyStep, x)[BabyStep]),
           Holds(xs, i, Power(x)[BabyStep]),
           NEW low \in Nat, NEW high \in Nat, xs.depth <= high,
           \A c \in 0..(ChunkCount - 1) : low <= chunk[c].depth /\ chunk[c].depth <= high
    PROVE  /\ Holds(Tree(chunk, xs), i,
                    Run(Padded(threshold_poly), 0, x)[ChunkCount * BabyStep])
           /\ Tree(chunk, xs).depth <= high + CeilLog2(ChunkCount)
           /\ ChunkCount > 1 => Tree(chunk, xs).depth >= xs.depth + CeilLog2(ChunkCount)
<1> DEFINE q == plaintext_mod
           s == BabyStep
           C == ChunkCount
           W == Padded(threshold_poly)
           E == Power(x)
           V(a, b) == Run(W, a * s, x)[(b - a) * s]
           G == Giants(xs)
           D == ChunkRanges
           P == Combined(chunk, G)
           mu == [r \in D |-> r[2] - r[1]]
           Sized2(r, c) == /\ c.depth <= high + CeilLog2(r[2] - r[1])
                           /\ r[2] - r[1] > 1 => c.depth >= xs.depth + CeilLog2(r[2] - r[1])
           Good == {r \in D : Holds(P[r], i, V(r[1], r[2])) /\ Sized2(r, P[r])}
<1>1. s \in Nat /\ s >= 2 /\ q \in Nat /\ q # 0 /\ C \in Nat /\ C >= 1
  BY StepShape DEF Evaluable
<1>2. ASSUME NEW j \in Nat
      PROVE  /\ Holds(G[j], i, E[Pow2[j] * s]) /\ G[j].depth = xs.depth + j
             /\ G[j] \in Ciphertexts
  <2>1. Holds(G[j], i, E[Pow2[j] * s]) /\ G[j].depth = xs.depth + j
    BY <1>1, GiantsHold
  <2> QED BY <2>1 DEF Holds
<1>3. W \in [Nat -> Int]
  BY DEF Evaluable
<1>4. ASSUME NEW c \in 0..(C - 1)
      PROVE  /\ chunk[c] \in Ciphertexts /\ Holds(chunk[c], i, Run(W, c * s, x)[s])
             /\ low <= chunk[c].depth /\ chunk[c].depth <= high
             /\ chunk[c].depth \in Nat
  <2>1. chunk[c] \in Ciphertexts
    OBVIOUS
  <2> QED BY <1>1, <2>1, SlotsTyped
<1>5. xs.depth \in Nat
  BY <1>1, SlotsTyped
<1>6. \A r \in D : P[r] = IF r[2] - r[1] = 1 THEN chunk[r[1]]
                          ELSE Add(P[<<r[1], Cut(r)>>],
                                   Multiply(P[<<Cut(r), r[2]>>], G[Level(r[2] - r[1])]))
  <2>1. \A j \in Nat : G[j] \in Ciphertexts
    BY <1>2
  <2> HIDE DEF G
  <2> QED BY <2>1, CombinedUnfolds
<1>7. Tree(chunk, xs) = P[<<0, C>>]
  BY TreeIsCombined
<1> HIDE DEF P, W, G, E
<1>8. mu \in [D -> Nat]
  <2>1. ASSUME NEW r \in D PROVE r[2] - r[1] \in Nat
    BY <1>1, CutShape
  <2> QED BY <2>1
<1>9. ASSUME NEW r \in D, \A h \in D : mu[h] < mu[r] => h \in Good PROVE r \in Good
  <2> DEFINE a == r[1]
             b == r[2]
             n == b - a
             f == P[r]
  <2>1. /\ a \in Nat /\ b \in Nat /\ a \in 0..C /\ b \in 0..C /\ n \in Nat /\ n >= 1
        /\ mu[r] = n
    <3>1. a \in 0..C /\ b \in 0..C /\ n \in Nat /\ n >= 1
      BY <1>1, CutShape
    <3>2. mu[r] = n
      OBVIOUS
    <3> HIDE DEF a, b, mu
    <3> QED BY <1>1, <3>1, <3>2
  <2>2. CASE n = 1
    <3>1. f = chunk[a]
      BY <1>6, <2>2
    <3>2. a \in 0..(C - 1)
      BY <1>1, <2>1, <2>2
    <3>3. (b - a) * s = s
      BY <1>1, <2>2
    <3>4. Holds(f, i, V(a, b))
      BY <1>4, <3>1, <3>2, <3>3
    <3>5. CeilLog2(1) = 0
      BY ShiftsUnfolds DEF CeilLog2
    <3>6. Sized2(r, f)
      <4>1. f.depth <= high /\ f.depth \in Nat
        BY <1>4, <3>1, <3>2
      <4> HIDE DEF f
      <4> QED BY <2>2, <3>5, <4>1
    <3> HIDE DEF Sized2, V
    <3> QED BY <3>4, <3>6
  <2>3. CASE n # 1
    <3> DEFINE c == Cut(r)
               L == Level(n)
               h == Pow2[L]
               t == P[<<a, c>>]
               w == P[<<c, b>>]
               g == G[L]
               m == Multiply(w, g)
               vt == V(a, c)
               vw == V(c, b)
               vg == E[h * s]
    <3>1. /\ c \in 0..C /\ c \in Nat /\ a < c /\ c < b
          /\ <<a, c>> \in D /\ <<c, b>> \in D
      BY <1>1, <2>1, <2>3, CutShape
    <3>2. c = a + h
      BY DEF Cut
    <3>3. /\ L \in Nat /\ CeilLog2(n) = L + 1 /\ h \in Nat /\ h >= 1 /\ h < n
          /\ CeilLog2(h) = L /\ CeilLog2(n - h) \in Nat /\ CeilLog2(n - h) <= L
      <4>1. n \in Nat /\ n >= 2
        BY <2>1, <2>3
      <4> HIDE DEF n
      <4> QED BY <4>1, LevelShape
    <3>4. f = Add(t, m)
      BY <1>6, <2>3
    <3>5. Holds(g, i, vg) /\ g.depth = xs.depth + L /\ g \in Ciphertexts
      <4> HIDE DEF L
      <4> QED BY <1>2, <3>3
    <3> HIDE DEF c, L, h
    <3>6. c - a = h /\ b - c = n - h
      BY <2>1, <3>1, <3>2, <3>3
    <3>7. <<a, c>> \in Good /\ <<c, b>> \in Good
      <4>1. mu[<<a, c>>] = c - a /\ mu[<<c, b>>] = b - c
        BY <3>1
      <4>2. c - a < n /\ b - c < n
        BY <2>1, <3>1
      <4> HIDE DEF a, b, n, D, mu, Good
      <4> QED BY <1>9, <2>1, <3>1, <4>1, <4>2
    <3>8. Holds(t, i, vt) /\ t.depth <= high + L
      <4>1. Holds(P[<<a, c>>], i, V(<<a, c>>[1], <<a, c>>[2])) /\ Sized2(<<a, c>>, P[<<a, c>>])
        <5> HIDE DEF V, Sized2, D
        <5> QED BY <3>7
      <4>2. <<a, c>>[1] = a /\ <<a, c>>[2] = c
        OBVIOUS
      <4> QED BY <3>3, <3>6, <4>1, <4>2
    <3>9. Holds(w, i, vw) /\ w.depth <= high + L
      <4>1. Holds(P[<<c, b>>], i, V(<<c, b>>[1], <<c, b>>[2])) /\ Sized2(<<c, b>>, P[<<c, b>>])
        <5> HIDE DEF V, Sized2, D
        <5> QED BY <3>7
      <4>2. <<c, b>>[1] = c /\ <<c, b>>[2] = b
        OBVIOUS
      <4>3. Holds(w, i, vw)
        BY <4>1, <4>2
      <4>4. w.depth <= high + CeilLog2(n - h)
        BY <3>6, <4>1, <4>2
      <4>5. w.depth \in Nat
        <5>1. w \in Ciphertexts
          BY <4>3 DEF Holds
        <5> HIDE DEF w
        <5> QED BY <1>1, <5>1, SlotsTyped
      <4> HIDE DEF w
      <4> QED BY <3>3, <4>3, <4>4, <4>5
    <3>10. V(a, b) = vt + vw * vg
      <4> DEFINE lo == a * s
                 mid == c * s
                 y == h * s
                 z == (b - c) * s
                 u == (b - a) * s
      <4>1. /\ lo \in Nat /\ mid \in Nat /\ y \in Nat /\ z \in Nat /\ u \in Nat /\ x \in Int
            /\ W \in [Nat -> Int]
        <5>1. a \in Nat /\ c \in Nat /\ h \in Nat /\ b - c \in Nat /\ b - a \in Nat /\ s \in Nat
          <6> HIDE DEF a, b
          <6> QED BY <1>1, <2>1, <3>1, <3>3 DEF n
        <5> DEFINE d1 == b - c
                   d2 == b - a
        <5>2. d1 \in Nat /\ d2 \in Nat
          BY <5>1
        <5> HIDE DEF a, d1, d2, s
        <5>3. a * s \in Nat /\ c * s \in Nat /\ h * s \in Nat /\ d1 * s \in Nat /\ d2 * s \in Nat
          BY <5>1, <5>2
        <5> QED BY <1>3, <5>3 DEF d1, d2
      <4>2. mid = lo + y
        BY <1>1, <2>1, <3>2, <3>3
      <4>3. u = y + z
        <5>1. b - a = h + (b - c) /\ h \in Int /\ b - c \in Int
          <6> HIDE DEF a, b
          <6> QED BY <2>1, <3>1, <3>2, <3>3
        <5> QED BY <1>1, <5>1
      <4>4. (c - a) * s = y
        BY <3>6
      <4>5. Run(W, lo, x)[u] = Run(W, lo, x)[y] + Power(x)[y] * Run(W, mid, x)[z]
        <5> HIDE DEF lo, mid, y, z, u
        <5> QED BY ONLY <4>1, <4>2, <4>3, RunSplitAt
      <4>6. /\ V(a, b) = Run(W, lo, x)[u] /\ vt = Run(W, lo, x)[y]
            /\ vw = Run(W, mid, x)[z] /\ vg = Power(x)[y]
        BY <4>4 DEF E
      <4>7. vt \in Int /\ vw \in Int /\ vg \in Int
        BY <3>5, <3>8, <3>9 DEF Holds
      <4>8. V(a, b) = vt + vg * vw
        BY <4>5, <4>6
      <4> HIDE DEF vt, vw, vg
      <4> QED BY <4>7, <4>8
    <3> HIDE DEF t, w, g, vt, vw, vg
    <3>11. Holds(m, i, vw * vg)
      BY <1>1, <3>5, <3>9, ProductHolds
    <3>12. t \in Ciphertexts /\ w \in Ciphertexts
      BY <3>8, <3>9 DEF Holds
    <3>13. t.depth \in Nat /\ w.depth \in Nat
      BY <1>1, <3>12, SlotsTyped
    <3>14. m \in Ciphertexts /\ m.depth = Larger(w.depth, g.depth) + 1
      BY <1>1, <3>5, <3>12, Products
    <3> HIDE DEF m, f
    <3>15. Holds(f, i, vt + vw * vg)
      BY <1>1, <3>4, <3>8, <3>11, SumHolds
    <3>16. Holds(f, i, V(a, b))
      <4> HIDE DEF V
      <4> QED BY <3>10, <3>15
    <3>17. f.depth = Larger(t.depth, m.depth)
      BY <1>1, <3>4, <3>12, <3>14, Sums
    <3> DEFINE e == Larger(w.depth, g.depth)
    <3>18. /\ g.depth \in Nat /\ e \in Nat /\ e >= g.depth /\ (e = w.depth \/ e = g.depth)
      <4>1. g.depth \in Nat
        BY <1>5, <3>3, <3>5
      <4> QED BY <3>13, <4>1, LargerIs
    <3>19. /\ f.depth >= m.depth /\ m.depth = e + 1
           /\ (f.depth = m.depth \/ f.depth = t.depth)
      <4>1. m.depth \in Nat
        BY <3>14, <3>18
      <4> QED BY <3>13, <3>14, <3>17, <4>1, LargerIs
    <3> HIDE DEF e
    <3>20. f.depth <= high + (L + 1) /\ f.depth >= xs.depth + (L + 1)
      <4> DEFINE dt == t.depth
                 dw == w.depth
                 dg == g.depth
                 dm == m.depth
                 df == f.depth
                 dx == xs.depth
      <4>1. /\ dt \in Nat /\ dw \in Nat /\ dg \in Nat /\ dx \in Nat /\ e \in Nat /\ L \in Nat
            /\ dt <= high + L /\ dw <= high + L /\ dg = dx + L /\ dx <= high
            /\ e >= dg /\ (e = dw \/ e = dg)
            /\ df >= dm /\ dm = e + 1 /\ (df = dm \/ df = dt)
        BY <1>5, <3>3, <3>5, <3>8, <3>9, <3>13, <3>18, <3>19
      <4> HIDE DEF dt, dw, dg, dm, df, dx
      <4>2. df <= high + (L + 1) /\ df >= dx + (L + 1)
        BY <4>1
      <4> QED BY <4>2 DEF df, dx
    <3>21. Sized2(r, f)
      BY <3>3, <3>20
    <3> HIDE DEF V, Sized2
    <3> QED BY <3>16, <3>21 DEF f
  <2> QED BY <2>2, <2>3
<1>10. D \subseteq Good
  <2> HIDE DEF D, mu, Good
  <2> QED BY <1>8, <1>9, MeasuredInduction
<1>11. <<0, C>> \in D
  BY <1>1 DEF ChunkRanges
<1>12. Holds(P[<<0, C>>], i, V(0, C)) /\ Sized2(<<0, C>>, P[<<0, C>>])
  <2> DEFINE r == <<0, C>>
  <2>1. r \in Good /\ r[1] = 0 /\ r[2] = C
    BY <1>10, <1>11
  <2> HIDE DEF r, V, Sized2
  <2>2. Holds(P[r], i, V(0, C)) /\ Sized2(r, P[r])
    BY <2>1
  <2> QED BY <2>2 DEF r
<1>13. V(0, C) = Run(W, 0, x)[C * s]
  <2>1. 0 * s = 0 /\ (C - 0) * s = C * s
    BY <1>1
  <2> QED BY <2>1
<1>14. C - 0 = C
  BY <1>1
<1>15. /\ P[<<0, C>>].depth <= high + CeilLog2(C)
       /\ C > 1 => P[<<0, C>>].depth >= xs.depth + CeilLog2(C)
  <2>1. <<0, C>>[2] - <<0, C>>[1] = C
    BY <1>14
  <2> QED BY <1>12, <2>1
<1> QED BY <1>7, <1>12, <1>13, <1>15 DEF W

------------------------------------------------------------------------------
(* The evaluation *)

\* The deepest of the powers.
MaxPower == Max({PowerDepth[j] : j \in 1..BabyStep})

\* No power is deeper.
LEMMA DeepestPower ==
    ASSUME inst.k \in Nat \ {0}
    PROVE  MaxPower \in Nat /\ \A j \in 1..BabyStep : PowerDepth[j] <= MaxPower
<1> DEFINE s == BabyStep
           S == {n \in Nat : \E m \in 1..(n + 1) : \A j \in 1..(n + 1) :
                                 PowerDepth[j] <= PowerDepth[m]}
           V == {PowerDepth[j] : j \in 1..s}
<1>1. s \in Nat /\ s >= 2
  BY StepShape
<1>2. 0 \in S
  <2>1. 1 \in 1..(0 + 1) /\ \A j \in 1..(0 + 1) : j = 1
    OBVIOUS
  <2>2. PowerDepth[1] \in Nat
    BY PowerDepthUnfolds
  <2>3. \A j \in 1..(0 + 1) : PowerDepth[j] <= PowerDepth[1]
    BY <2>1, <2>2
  <2> QED BY <2>1, <2>3
<1>3. ASSUME NEW n \in Nat, n \in S PROVE n + 1 \in S
  <2>1. PICK m \in 1..(n + 1) : \A j \in 1..(n + 1) : PowerDepth[j] <= PowerDepth[m]
    BY <1>3
  <2> DEFINE e == (n + 1) + 1
  <2>2. e \in Nat /\ e \in 1..e /\ m \in 1..e /\ \A j \in 1..e : j \in 1..(n + 1) \/ j = e
    OBVIOUS
  <2>3. PowerDepth[m] \in Nat /\ PowerDepth[e] \in Nat
    BY <2>2, PowerDepthUnfolds
  <2> HIDE DEF e
  <2>4. CASE PowerDepth[e] <= PowerDepth[m]
    <3>1. \A j \in 1..e : PowerDepth[j] <= PowerDepth[m]
      BY <2>1, <2>2, <2>4
    <3> QED BY <2>2, <3>1 DEF e
  <2>5. CASE ~(PowerDepth[e] <= PowerDepth[m])
    <3>1. ASSUME NEW j \in 1..e PROVE PowerDepth[j] <= PowerDepth[e]
      <4>1. CASE j = e
        BY <2>3, <4>1
      <4>2. CASE j # e
        <5>1. PowerDepth[j] <= PowerDepth[m]
          BY <2>1, <2>2, <4>2
        <5>2. PowerDepth[j] \in Nat
          <6>1. j \in Nat
            OBVIOUS
          <6> QED BY <6>1, PowerDepthUnfolds
        <5> QED BY <2>3, <2>5, <5>1, <5>2
      <4> QED BY <4>1, <4>2
    <3> QED BY <2>2, <3>1 DEF e
  <2> QED BY <2>4, <2>5
<1>4. Nat \subseteq S
  <2> HIDE DEF S
  <2> QED BY <1>2, <1>3, InductiveSet
<1>5. PICK m \in 1..s : \A j \in 1..s : PowerDepth[j] <= PowerDepth[m]
  <2> DEFINE n == s - 1
  <2>1. n \in Nat /\ n + 1 = s
    BY <1>1
  <2> HIDE DEF n
  <2>2. n \in S
    BY <1>4, <2>1
  <2> QED BY <2>1, <2>2
<1>6. PowerDepth[m] \in V /\ \A y \in V : PowerDepth[m] >= y
  BY <1>5
<1>7. MaxPower = CHOOSE x \in V : \A y \in V : x >= y
  BY DEF MaxPower, Max
<1>8. V \subseteq Nat
  <2>1. ASSUME NEW j \in 1..s PROVE PowerDepth[j] \in Nat
    <3>1. j \in Nat
      BY <1>1
    <3> QED BY <3>1, PowerDepthUnfolds
  <2> QED BY <2>1
<1>9. MaxPower \in V /\ \A y \in V : MaxPower >= y
  <2> HIDE DEF V
  <2> QED BY <1>6, <1>7
<1> HIDE DEF s
<1>10. ASSUME NEW j \in 1..s PROVE PowerDepth[j] <= MaxPower
  <2>1. PowerDepth[j] \in V
    OBVIOUS
  <2> HIDE DEF V
  <2>2. PowerDepth[j] \in Nat /\ MaxPower \in Nat /\ MaxPower >= PowerDepth[j]
    BY <1>8, <1>9, <2>1
  <2> QED BY <2>2
<1>11. MaxPower \in Nat
  <2> HIDE DEF V
  <2> QED BY <1>8, <1>9
<1> QED BY <1>10, <1>11 DEF s

\* Every slot of the result is the polynomial's value at what was in the slot, at a
\* depth of at least what the parameters provide and at most that and the excess of a
\* power over x^s.
LEMMA PolynomialEvaluates ==
    ASSUME Evaluable, NEW a \in Ciphertexts, NEW i \in Slots
    PROVE  LET giants == PsGiantDepth(inst.k, inst.giant)
               result == EvalPolyBFV(a)
           IN  /\ Holds(result, i, Run(Padded(threshold_poly), 0, a.slots[i])[inst.k + 1])
               /\ result.depth <= a.depth + MaxPower + giants
               /\ inst.k > 1 => result.depth >= a.depth + PowerDepth[BabyStep] + giants
<1> DEFINE s == BabyStep
           C == ChunkCount
           W == Padded(threshold_poly)
           x == a.slots[i]
           E == Power(x)
           powers == Powers(a)
           chunk == [c \in 0..(C - 1) |-> Chunk(c, powers)]
           xs == powers[s]
           low == a.depth
           high == a.depth + MaxPower
           result == EvalPolyBFV(a)
           giants == PsGiantDepth(inst.k, inst.giant)
           V(c) == Run(W, c * s, x)[s]
<1>1. /\ s \in Nat /\ s >= 2 /\ C \in Nat /\ C >= 1
      /\ C * s \in Nat /\ C * s >= inst.k + 1 /\ (inst.k > 1 => C > 1)
      /\ inst.k \in Nat \ {0} /\ plaintext_mod \in Nat /\ plaintext_mod # 0
      /\ W \in [Nat -> Int]
  <2>1. inst.k \in Nat \ {0}
    BY DEF Evaluable
  <2> QED BY <2>1, StepShape DEF Evaluable
<1>2. MaxPower \in Nat /\ \A j \in 1..s : PowerDepth[j] <= MaxPower
  BY <1>1, DeepestPower
<1>3. x \in Int /\ a.depth \in Nat
  BY <1>1, SlotsTyped
<1>4. powers \in [1..s -> Ciphertexts]
  BY <1>1, PowersUnfold
<1>5. ASSUME NEW j \in 1..s
      PROVE  /\ Holds(powers[j], i, E[j])
             /\ powers[j].depth = a.depth + PowerDepth[j]
             /\ low <= powers[j].depth /\ powers[j].depth <= high
  <2>1. Holds(powers[j], i, E[j]) /\ powers[j].depth = a.depth + PowerDepth[j]
    BY <1>1, PowersHold
  <2>2. PowerDepth[j] \in Nat /\ PowerDepth[j] <= MaxPower
    <3>1. j \in Nat
      BY <1>1
    <3> QED BY <1>2, <3>1, PowerDepthUnfolds
  <2> QED BY <1>2, <1>3, <2>1, <2>2
<1>6. s \in 1..s
  BY <1>1
<1>7. /\ xs \in Ciphertexts /\ Holds(xs, i, E[s]) /\ xs.depth = a.depth + PowerDepth[s]
      /\ xs.depth <= high
  BY <1>4, <1>5, <1>6
<1>8. low \in Nat /\ high \in Nat
  BY <1>2, <1>3
<1> HIDE DEF powers, x, low, high
<1>9. ASSUME NEW c \in 0..(C - 1)
      PROVE  /\ Holds(Chunk(c, powers), i, V(c))
             /\ low <= Chunk(c, powers).depth /\ Chunk(c, powers).depth <= high
  <2>1. c \in Nat
    BY <1>1
  <2> QED BY <1>3, <1>4, <1>5, <1>8, <2>1, ChunkHolds
<1>10. chunk \in [0..(C - 1) -> Ciphertexts]
  <2>1. \A c \in 0..(C - 1) : Chunk(c, powers) \in Ciphertexts
    BY <1>9 DEF Holds
  <2> QED BY <2>1
<1>11. ASSUME NEW c \in 0..(C - 1)
       PROVE  Holds(chunk[c], i, V(c)) /\ low <= chunk[c].depth /\ chunk[c].depth <= high
  <2>1. chunk[c] = Chunk(c, powers)
    OBVIOUS
  <2> HIDE DEF chunk, V
  <2> QED BY <1>9, <2>1
<1>12. result = IF inst.giant = "Tree" THEN Tree(chunk, xs) ELSE Horner(chunk, xs)
  BY DEF EvalPolyBFV, powers
<1>13. giants = IF inst.giant = "Tree" THEN CeilLog2(C) ELSE C - 1
  BY DEF PsGiantDepth, ChunkCount
<1> HIDE DEF chunk, xs, result, giants
<1>14. /\ Holds(Horner(chunk, xs), i, Run(W, 0, x)[C * s])
       /\ Horner(chunk, xs).depth <= high + (C - 1)
       /\ C > 1 => Horner(chunk, xs).depth >= xs.depth + (C - 1)
  BY <1>3, <1>7, <1>8, <1>10, <1>11, HornerHolds
<1>15. /\ Holds(Tree(chunk, xs), i, Run(W, 0, x)[C * s])
       /\ Tree(chunk, xs).depth <= high + CeilLog2(C)
       /\ C > 1 => Tree(chunk, xs).depth >= xs.depth + CeilLog2(C)
  BY <1>3, <1>7, <1>8, <1>10, <1>11, TreeHolds
<1>16. /\ Holds(result, i, Run(W, 0, x)[C * s])
       /\ result.depth <= high + giants
       /\ C > 1 => result.depth >= xs.depth + giants
  BY <1>12, <1>13, <1>14, <1>15
<1>17. Run(W, 0, x)[C * s] = Run(W, 0, x)[inst.k + 1]
  <2> DEFINE n == C * s
             m == inst.k + 1
             b == n - m
             zero == 0
  <2>1. n \in Nat /\ m \in Nat /\ b \in Nat /\ n = m + b /\ m = zero + m /\ zero \in Nat
    <3> HIDE DEF n
    <3> QED BY <1>1 DEF n
  <2> HIDE DEF n, m, b
  <2>2. Run(W, zero, x)[n] = Run(W, zero, x)[m] + Power(x)[m] * Run(W, m, x)[b]
    <3>1. W \in [Nat -> Int] /\ x \in Int
      BY <1>1, <1>3
    <3> HIDE DEF W, zero
    <3> QED BY ONLY <2>1, <3>1, RunSplitAt
  <2>3. Run(W, m, x)[b] = 0
    <3>1. \A d \in Nat : d >= m => W[d] = 0
      <4>1. \A d \in Nat : d >= m => ~(d <= inst.k)
        BY <1>1 DEF m
      <4> QED BY <4>1 DEF Padded
    <3> HIDE DEF W
    <3> QED BY <1>1, <1>3, <2>1, <3>1, RunZero
  <2>4. Power(x)[m] \in Int /\ Run(W, zero, x)[m] \in Int
    <3>1. Power(x) \in [Nat -> Int]
      BY <1>3, PowerUnfolds
    <3>2. Run(W, 0, x) \in [Nat -> Int]
      <4>1. 0 \in Nat
        OBVIOUS
      <4> HIDE DEF W
      <4> QED BY <1>1, <1>3, <4>1, RunUnfolds
    <3> QED BY <2>1, <3>1, <3>2
  <2> HIDE DEF W
  <2> QED BY <2>2, <2>3, <2>4 DEF n, m
<1>18. Holds(result, i, Run(W, 0, x)[inst.k + 1])
  BY <1>16, <1>17
<1>19. inst.k > 1 => result.depth >= a.depth + PowerDepth[s] + giants
  BY <1>1, <1>7, <1>16
<1>20. result.depth <= a.depth + MaxPower + giants
  BY <1>16 DEF high
<1> QED BY <1>18, <1>19, <1>20 DEF result, giants, x

------------------------------------------------------------------------------
(* What the threshold circuit decides, and at which depth *)

\* The polynomial is an indicator of the numbers of matches from tau on.
Decides ==
    inst.circuit = "Threshold" =>
        /\ Evaluable
        /\ \A x \in 0..inst.k : Same(Run(Padded(threshold_poly), 0, x)[inst.k + 1],
                                     IF x >= inst.tau THEN 1 ELSE 0, plaintext_mod)

\* Before the polynomial: a product of two fresh ciphertexts, and for the digits one more.
DepthOfStage ==
    /\ stage \in {"ready", "encrypted"} => ct.depth = 0
    /\ stage \in {"digits", "masked"} => ct.depth = 1
    /\ stage = "slots" => ct.depth = IF inst.circuit = "Sqrt" THEN 2 ELSE 1
    /\ stage = "evaluated" => /\ ct.depth <= MultDepth + Excess
                              /\ inst.k > 1 => ct.depth >= MultDepth
    /\ stage = "done" => ct.depth <= MultDepth + Excess

DecisionIInv ==
    /\ CircuitIInv
    /\ Decides
    /\ stage \in {"ready", "encrypted", "digits", "slots", "masked", "evaluated", "done"}
    /\ stage \in {"digits", "slots"} => ct \in Ciphertexts
    /\ stage = "masked" =>
           /\ ct \in Ciphertexts
           /\ ct.slots[0] = Matches /\ Matches \in 0..inst.k
           /\ \A i \in Slots \ {0} : ct.slots[i] = 0
    /\ stage = "evaluated" =>
           /\ ct.slots[0] = IF Matches >= inst.tau THEN 1 ELSE 0
           /\ OtherSlotsConstant
    /\ DepthOfStage
    /\ DecisionExact

\* The initial polynomial and modulus are the ones PolynomialDecides is about.
LEMMA InitiallyDecides == ASSUME CircuitInit PROVE Decides
<1> SUFFICES ASSUME inst.circuit = "Threshold"
             PROVE  /\ Evaluable
                    /\ \A x \in 0..inst.k :
                           Same(Run(Padded(threshold_poly), 0, x)[inst.k + 1],
                                IF x >= inst.tau THEN 1 ELSE 0, plaintext_mod)
  BY DEF Decides
<1>1. Sized
  BY InitiallySized
<1>2. inst.k \in Nat /\ inst.k # 0
  BY <1>1, InstanceShape DEF Sized
<1>5. PICK t \in 1..LastTried : /\ plaintext_mod = 1 + (2 * ring_dim) * t
                                /\ Suitable(t, inst.k, 2 * ring_dim)
  BY ModulusFound
<1>6. PrimeAbove
  <2>1. plaintext_mod \in Nat
    BY <1>1 DEF Sized
  <2>2. IsPrime(plaintext_mod) /\ plaintext_mod > inst.k
    BY <1>5 DEF Suitable
  <2>3. plaintext_mod > 1
    BY <2>2 DEF IsPrime
  <2> QED BY <1>2, <2>1, <2>2, <2>3 DEF PrimeAbove
<1>7. inst.tau \in 0..(inst.k + 1)
  <2>1. inst \in Instances
    BY <1>1 DEF Sized
  <2> QED BY <2>1, InstanceAssumption
<1>8. threshold_poly = BuildThresholdPoly
  BY DEF CircuitInit
<1> QED BY <1>2, <1>6, <1>7, <1>8, PolynomialDecides DEF Evaluable, PrimeAbove

\* Neither ever changes.
LEMMA DecidesKept == ASSUME Decides, UNCHANGED parameters PROVE Decides'
<1>1. inst' = inst /\ plaintext_mod' = plaintext_mod /\ threshold_poly' = threshold_poly
  BY DEF parameters
<1>2. Padded(threshold_poly)' = Padded(threshold_poly)
  BY <1>1 DEF Padded
<1> QED BY <1>1, <1>2 DEF Decides, Evaluable

\* The parameters provide at least one level, and an excess is never negative.
LEMMA DepthShape ==
    ASSUME Sized, Decides
    PROVE  /\ MultDepth \in Nat /\ MultDepth >= 1 /\ Excess \in Nat
           /\ inst.circuit = "OneHot" => MultDepth = 1
           /\ inst.circuit = "Sqrt" => MultDepth = 3
           /\ inst.circuit = "Threshold" =>
                  /\ PowerDepth[BabyStep] \in Nat /\ PsGiantDepth(inst.k, inst.giant) \in Nat
                  /\ MultDepth = 1 + PowerDepth[BabyStep] + PsGiantDepth(inst.k, inst.giant)
                  /\ MultDepth + Excess = 1 + MaxPower + PsGiantDepth(inst.k, inst.giant)
                  /\ MaxPower \in Nat
<1>1. CASE inst.circuit = "OneHot"
  BY <1>1 DEF MultDepth, Excess
<1>2. CASE inst.circuit = "Sqrt"
  BY <1>2 DEF MultDepth, Excess
<1>3. CASE inst.circuit = "Threshold"
  <2> DEFINE giants == PsGiantDepth(inst.k, inst.giant)
             deep == PowerDepth[BabyStep]
  <2>1. inst.k \in Nat \ {0}
    BY <1>3 DEF Decides, Evaluable
  <2>2. /\ BabyStep \in Nat /\ BabyStep >= 2
        /\ ChunkCount \in Nat /\ ChunkCount >= 1
    BY <2>1, StepShape
  <2>3. MaxPower \in Nat /\ deep <= MaxPower /\ deep \in Nat
    <3>1. BabyStep \in 1..BabyStep
      BY <2>2
    <3> QED BY <2>1, <2>2, <3>1, DeepestPower, PowerDepthUnfolds
  <2>4. giants \in Nat
    <3>1. CeilLog2(ChunkCount) \in Nat
      <4>1. ChunkCount - 1 \in Nat
        BY <2>2
      <4> QED BY <4>1, ShiftsUnfolds DEF CeilLog2
    <3>2. giants = IF inst.giant = "Tree" THEN CeilLog2(ChunkCount) ELSE ChunkCount - 1
      BY DEF PsGiantDepth, ChunkCount
    <3> HIDE DEF giants
    <3> QED BY <2>2, <3>1, <3>2
  <2>5. MultDepth = 1 + deep + giants
    BY <1>3 DEF MultDepth, PatersonStockmeyerNaturalDepth, PsBabyDepth, BabyStep
  <2>6. Excess = MaxPower - deep
    BY <1>3 DEF Excess, MaxPower
  <2> HIDE DEF giants, deep
  <2> QED BY <1>3, <2>3, <2>4, <2>5, <2>6 DEF giants, deep
<1>4. inst.circuit \in {"OneHot", "Sqrt", "Threshold"}
  BY InstanceAssumption DEF Sized
<1> QED BY <1>1, <1>2, <1>3, <1>4

\* A rotation takes no level.
LEMMA RotatedTyped ==
    ASSUME Sized, NEW c \in Ciphertexts, NEW s \in 0..(ring_dim - 1)
    PROVE  Rotate(c, s) \in Ciphertexts /\ Rotate(c, s).depth = c.depth
<1>1. EvenRing
  BY ShiftInRing DEF Sized
<1>2. \A i \in Slots : RotatedFrom(i, s) \in Slots
  BY <1>1, RotatedType
<1>3. c = [slots |-> c.slots, depth |-> c.depth]
      /\ c.slots \in [Slots -> 0..(plaintext_mod - 1)] /\ c.depth \in Nat
  BY DEF Ciphertexts
<1> DEFINE f == [i \in Slots |-> c.slots[RotatedFrom(i, s)]]
<1>4. f \in [Slots -> 0..(plaintext_mod - 1)]
  BY <1>2, <1>3
<1>5. Rotate(c, s) = [c EXCEPT !.slots = f]
  BY DEF Rotate
<1> HIDE DEF f
<1>6. [c EXCEPT !.slots = f] = [slots |-> f, depth |-> c.depth]
  BY <1>3
<1> QED BY <1>3, <1>4, <1>5, <1>6 DEF Ciphertexts

\* A fresh ciphertext has taken none.
LEMMA EncryptedTyped ==
    ASSUME plaintext_mod \in Nat, plaintext_mod > 1, NEW sig
    PROVE  Encrypt(sig) \in Ciphertexts /\ Encrypt(sig).depth = 0
<1> DEFINE ones == IF inst.circuit = "Sqrt" THEN SqrtSlots(sig) ELSE OneHotSlots(sig)
           f == [i \in Slots |-> IF i \in ones THEN 1 ELSE 0]
<1>1. Encrypt(sig) = [slots |-> f, depth |-> 0]
  BY DEF Encrypt
<1>2. f \in [Slots -> 0..(plaintext_mod - 1)]
  <2> HIDE DEF ones
  <2> QED OBVIOUS
<1> HIDE DEF f
<1> QED BY <1>1, <1>2 DEF Ciphertexts

\* The count is at most k,
LEMMA MatchesTyped ==
    ASSUME inst.k \in Nat
    PROVE  Matches \in 0..inst.k
<1> DEFINE S == 0..(inst.k - 1)
<1>1. IsFiniteSet(S) /\ Cardinality(S) = inst.k
  <2>1. 0 \in Int /\ inst.k - 1 \in Int
    OBVIOUS
  <2>2. IsFiniteSet(S) /\ Cardinality(S) = IF 0 > inst.k - 1 THEN 0 ELSE (inst.k - 1) - 0 + 1
    BY <2>1, FS_Interval, ZenonT(40)
  <2> HIDE DEF S
  <2> QED BY <2>2
<1>2. Agreeing(sig_x, sig_y) \subseteq S
  BY DEF Agreeing
<1> HIDE DEF S
<1>3. Cardinality(Agreeing(sig_x, sig_y)) \in Nat /\ Cardinality(Agreeing(sig_x, sig_y)) <= inst.k
  BY <1>1, <1>2, FS_Subset, FS_CardinalityType
<1> QED BY <1>3 DEF Matches, Agreeing

\* and the mask keeps it alone.
LEMMA MaskKeepsCount ==
    ASSUME Sized, ct \in Ciphertexts, Mask
    PROVE  /\ ct' \in Ciphertexts /\ ct'.depth = ct.depth
           /\ ct'.slots[0] = ct.slots[0]
           /\ \A i \in Slots \ {0} : ct'.slots[i] = 0
<1> DEFINE f == [i \in Slots |-> IF i = 0 THEN 1 ELSE 0]
<1>1. ct' = MultiplyPlain(ct, f)
  BY DEF Mask
<1>2. plaintext_mod \in Nat /\ plaintext_mod # 0 /\ ring_dim \in Nat /\ ring_dim # 0
  BY PowersOfTwo DEF Sized
<1>3. \A i \in Slots : f[i] = IF i = 0 THEN 1 ELSE 0
  OBVIOUS
<1> HIDE DEF f
<1>4. /\ ct' \in Ciphertexts /\ ct'.depth = ct.depth
      /\ \A i \in Slots : ct'.slots[i] = (ct.slots[i] * f[i]) % plaintext_mod
  BY <1>1, <1>2, <1>3, PlainProducts
<1>5. 0 \in Slots
  BY <1>2 DEF Slots
<1>6. ct'.slots[0] = ct.slots[0]
  <2>1. ct.slots[0] \in 0..(plaintext_mod - 1)
    BY <1>2, <1>5, SlotsTyped
  <2>2. f[0] = 1
    BY <1>3, <1>5
  <2>3. ct'.slots[0] = (ct.slots[0] * 1) % plaintext_mod
    BY <1>4, <1>5, <2>2
  <2> DEFINE v == ct.slots[0]
  <2>4. v \in 0..(plaintext_mod - 1) /\ ct'.slots[0] = (v * 1) % plaintext_mod
    BY <2>1, <2>3
  <2> HIDE DEF v
  <2>5. ct'.slots[0] = v
    BY <1>2, <2>4
  <2> QED BY <2>5 DEF v
<1>7. ASSUME NEW i \in Slots, i # 0 PROVE ct'.slots[i] = 0
  <2>1. ct.slots[i] \in Int /\ f[i] = 0
    BY <1>2, <1>3, <1>7, SlotsTyped
  <2>2. ct'.slots[i] = (ct.slots[i] * 0) % plaintext_mod
    BY <1>4, <2>1
  <2> DEFINE v == ct.slots[i]
  <2>3. v \in Int /\ ct'.slots[i] = (v * 0) % plaintext_mod
    BY <2>1, <2>2
  <2> HIDE DEF v
  <2> QED BY <1>2, <2>3
<1> QED BY <1>4, <1>6, <1>7

\* What is evaluated of a slot that holds a number of matches is the decision on it.
LEMMA EvaluatedDecides ==
    ASSUME Sized, Decides, inst.circuit = "Threshold", NEW a \in Ciphertexts, NEW i \in Slots,
           a.slots[i] \in 0..inst.k
    PROVE  EvalPolyBFV(a).slots[i] = IF a.slots[i] >= inst.tau THEN 1 ELSE 0
<1> DEFINE x == a.slots[i]
           result == EvalPolyBFV(a)
           v == Run(Padded(threshold_poly), 0, x)[inst.k + 1]
           u == IF x >= inst.tau THEN 1 ELSE 0
<1>1. Evaluable /\ x \in 0..inst.k /\ Same(v, u, plaintext_mod)
  BY DEF Decides
<1>2. Holds(result, i, v)
  BY <1>1, PolynomialEvaluates
<1>3. plaintext_mod \in Nat /\ plaintext_mod > 1
  <2>1. ring_dim \in Nat /\ ring_dim # 0
    BY PowersOfTwo DEF Sized
  <2> QED BY <2>1 DEF Sized
<1>4. u \in 0..(plaintext_mod - 1) /\ u \in Int
  <2> HIDE DEF x
  <2> QED BY <1>3
<1> HIDE DEF x, v, u, result
<1>5. /\ result \in Ciphertexts /\ v \in Int /\ Same(result.slots[i], v, plaintext_mod)
      /\ result.slots[i] \in 0..(plaintext_mod - 1) /\ result.slots[i] \in Int
  BY <1>2, <1>3, SlotsTyped DEF Holds
<1>6. Same(result.slots[i], u, plaintext_mod)
  BY <1>1, <1>3, <1>4, <1>5, SameOrder
<1>7. result.slots[i] = u
  BY <1>3, <1>4, <1>5, <1>6, SameEqual
<1> QED BY <1>7 DEF result, u, x

\* Nothing an earlier part of the invariant is about changes with the parameters fixed.
LEMMA MeaningKept ==
    ASSUME UNCHANGED parameters
    PROVE  /\ Slots' = Slots /\ Ciphertexts' = Ciphertexts
           /\ MultDepth' = MultDepth /\ Excess' = Excess
           /\ inst' = inst /\ plaintext_mod' = plaintext_mod /\ ring_dim' = ring_dim
           /\ UNCHANGED inputs => Matches' = Matches
<1>1. inst' = inst /\ plaintext_mod' = plaintext_mod /\ ring_dim' = ring_dim
  BY DEF parameters
<1>2. Slots' = Slots
  BY <1>1 DEF Slots
<1>3. Ciphertexts' = Ciphertexts
  BY <1>1, <1>2 DEF Ciphertexts
<1>4. MultDepth' = MultDepth
  BY <1>1 DEF MultDepth
<1>5. BabyStep' = BabyStep
  BY <1>1 DEF BabyStep
<1>6. Excess' = Excess
  BY <1>1, <1>5 DEF Excess
<1>7. UNCHANGED inputs => Matches' = Matches
  BY <1>1 DEF inputs, Matches
<1> QED BY <1>1, <1>2, <1>3, <1>4, <1>6, <1>7

\* The invariant holds initially,
LEMMA DecisionInitially == CircuitInit => DecisionIInv
<1> SUFFICES ASSUME CircuitInit PROVE DecisionIInv
  OBVIOUS
<1>1. CircuitIInv /\ Decides
  BY CircuitInitIInv, InitiallyDecides
<1>2. stage = "ready" /\ ct.depth = 0
  BY DEF CircuitInit, NoInput
<1> QED BY <1>1, <1>2 DEF DecisionIInv, DepthOfStage, DecisionExact

\* A pass of rotate-and-add needs no depth.
LEMMA PassTyped ==
    ASSUME Sized, ct \in Ciphertexts, NEW s \in 0..(ring_dim - 1)
    PROVE  /\ Add(ct, Rotate(ct, s)) \in Ciphertexts
           /\ Add(ct, Rotate(ct, s)).depth = ct.depth
<1>1. plaintext_mod \in Nat /\ plaintext_mod # 0
  BY DEF Sized
<1>2. Rotate(ct, s) \in Ciphertexts /\ Rotate(ct, s).depth = ct.depth
  BY RotatedTyped
<1>3. ct.depth \in Nat
  BY <1>1, SlotsTyped
<1> QED BY <1>1, <1>2, <1>3, Sums, LargerIs

\* and every step keeps it.
LEMMA DecisionStep == DecisionIInv /\ [CircuitNext]_circuitVars => DecisionIInv'
<1> SUFFICES ASSUME DecisionIInv, [CircuitNext]_circuitVars PROVE DecisionIInv'
  OBVIOUS
<1>1. CircuitIInv /\ CircuitIInv' /\ Sized /\ Decides
  BY CircuitStepIInv DEF DecisionIInv, CircuitIInv
<1>2. /\ plaintext_mod \in Nat /\ plaintext_mod # 0 /\ plaintext_mod > 2
      /\ ring_dim \in Nat /\ ring_dim # 0 /\ 0 \in Slots
  <2>1. ring_dim \in Nat /\ ring_dim # 0
    BY <1>1, PowersOfTwo DEF Sized
  <2> QED BY <1>1, <2>1 DEF Sized, Slots
<1>3. /\ MultDepth \in Nat /\ MultDepth >= 1 /\ Excess \in Nat
      /\ inst.circuit = "Sqrt" => MultDepth = 3
  BY <1>1, DepthShape
<1>4. ASSUME UNCHANGED parameters
      PROVE  /\ Decides'
             /\ Slots' = Slots /\ Ciphertexts' = Ciphertexts
             /\ MultDepth' = MultDepth /\ Excess' = Excess /\ inst' = inst
             /\ UNCHANGED inputs => Matches' = Matches
  BY <1>1, <1>4, DecidesKept, MeaningKept
<1>5. CASE EncryptInputs
  <2>1. /\ stage' = "encrypted" /\ ct' = Encrypt(sig_x') /\ UNCHANGED parameters
    BY <1>5 DEF EncryptInputs
  <2>2. ct'.depth = 0
    <3>1. Encrypt(sig_x').depth = 0
      <4>1. plaintext_mod \in Nat /\ plaintext_mod > 1
        BY <1>2
      <4> DEFINE sig == sig_x'
      <4> HIDE DEF sig
      <4>2. Encrypt(sig).depth = 0
        BY <4>1, EncryptedTyped
      <4> QED BY <4>2 DEF sig
    <3> QED BY <2>1, <3>1
  <2> QED BY <1>1, <1>4, <2>1, <2>2 DEF DecisionIInv, DepthOfStage, DecisionExact
<1>6. CASE MultiplyInputs
  <2>1. /\ stage = "encrypted" /\ ct' = Multiply(ct, ct_y)
        /\ stage' = IF inst.circuit = "Sqrt" THEN "digits" ELSE "slots"
        /\ UNCHANGED parameters /\ UNCHANGED inputs
    BY <1>6 DEF MultiplyInputs, Fixed
  <2>2. ct = Encrypt(sig_x) /\ ct_y = Encrypt(sig_y)
    BY <1>1, <2>1 DEF CircuitIInv
  <2>3. ct \in Ciphertexts /\ ct_y \in Ciphertexts /\ ct.depth = 0 /\ ct_y.depth = 0
    BY <1>2, <2>2, EncryptedTyped
  <2>4. ct' \in Ciphertexts /\ ct'.depth = 1
    <3>1. Larger(0, 0) = 0
      BY DEF Larger
    <3> QED BY <1>2, <2>1, <2>3, <3>1, Products
  <2> QED BY <1>1, <1>4, <2>1, <2>4 DEF DecisionIInv, DepthOfStage, DecisionExact
<1>7. CASE SumDigits
  <2>1. /\ stage = "digits" /\ stage' = "digits" /\ shift < Base
        /\ ct' = Add(ct, Rotate(ct, shift))
        /\ UNCHANGED parameters /\ UNCHANGED inputs
    BY <1>7 DEF SumDigits, RotateAndAdd, Fixed
  <2>2. ct \in Ciphertexts /\ ct.depth = 1 /\ inst.circuit = "Sqrt" /\ shift \in Nat
    BY <1>1, <2>1 DEF DecisionIInv, DepthOfStage, CircuitIInv
  <2>3. shift \in 0..(ring_dim - 1)
    <3>1. Base \in Nat /\ 2 * Base <= ring_dim
      BY <1>1, <2>2, InstanceShape, StrideShape DEF Sized, Stride
    <3> QED BY <1>2, <2>1, <2>2, <3>1
  <2>4. ct' \in Ciphertexts /\ ct'.depth = 1
    BY <1>1, <2>1, <2>2, <2>3, PassTyped
  <2> QED BY <1>1, <1>4, <2>1, <2>4 DEF DecisionIInv, DepthOfStage, DecisionExact
<1>8. CASE AndDigits
  <2>1. /\ stage = "digits" /\ stage' = "slots"
        /\ ct' = Multiply(ct, Rotate(ct, Base))
        /\ UNCHANGED parameters /\ UNCHANGED inputs
    BY <1>8 DEF AndDigits, Fixed
  <2>2. ct \in Ciphertexts /\ ct.depth = 1 /\ inst.circuit = "Sqrt"
    BY <1>1, <2>1 DEF DecisionIInv, DepthOfStage, CircuitIInv
  <2>3. Base \in 0..(ring_dim - 1)
    <3>1. Base \in Nat /\ Base > 1 /\ 2 * Base <= ring_dim
      BY <1>1, <2>2, InstanceShape, StrideShape DEF Sized, Stride
    <3> QED BY <1>2, <3>1
  <2>4. Rotate(ct, Base) \in Ciphertexts /\ Rotate(ct, Base).depth = 1
    BY <1>1, <2>2, <2>3, RotatedTyped
  <2>5. ct' \in Ciphertexts /\ ct'.depth = 2
    <3>1. Larger(1, 1) = 1
      BY DEF Larger
    <3> QED BY <1>2, <2>1, <2>2, <2>4, <3>1, Products
  <2> QED BY <1>1, <1>4, <2>1, <2>2, <2>5 DEF DecisionIInv, DepthOfStage, DecisionExact
<1>9. CASE SumSlots
  <2>1. /\ stage = "slots" /\ stage' = "slots" /\ shift < ring_dim
        /\ ct' = Add(ct, Rotate(ct, shift))
        /\ UNCHANGED parameters /\ UNCHANGED inputs
    BY <1>9 DEF SumSlots, RotateAndAdd, Fixed
  <2>2. ct \in Ciphertexts /\ shift \in Nat
        /\ ct.depth = IF inst.circuit = "Sqrt" THEN 2 ELSE 1
    BY <1>1, <2>1 DEF DecisionIInv, DepthOfStage, CircuitIInv
  <2>3. shift \in 0..(ring_dim - 1)
    BY <1>2, <2>1, <2>2
  <2>4. ct' \in Ciphertexts /\ ct'.depth = ct.depth
    BY <1>1, <2>1, <2>2, <2>3, PassTyped
  <2> QED BY <1>1, <1>4, <2>1, <2>2, <2>4 DEF DecisionIInv, DepthOfStage, DecisionExact
<1>10. CASE Mask
  <2>1. /\ stage = "slots" /\ stage' = "masked" /\ inst.circuit = "Threshold" /\ Summed
        /\ UNCHANGED parameters /\ UNCHANGED inputs
    BY <1>10 DEF Mask, Summed, Fixed
  <2>2. ct \in Ciphertexts /\ ct.depth = 1
    BY <2>1 DEF DecisionIInv, DepthOfStage
  <2>3. ct.slots[0] = Matches
    BY <1>1, <2>1, SummedExact
  <2>4. Matches \in 0..inst.k
    BY <1>1, <2>1, MatchesTyped DEF Decides, Evaluable
  <2>5. /\ ct' \in Ciphertexts /\ ct'.depth = 1
        /\ ct'.slots[0] = Matches
        /\ \A i \in Slots \ {0} : ct'.slots[i] = 0
    BY <1>1, <1>10, <2>2, <2>3, MaskKeepsCount
  <2> QED BY <1>1, <1>4, <2>1, <2>4, <2>5 DEF DecisionIInv, DepthOfStage, DecisionExact
<1>11. CASE EvaluatePolynomial
  <2>1. /\ stage = "masked" /\ stage' = "evaluated" /\ ct' = EvalPolyBFV(ct)
        /\ inst.circuit = "Threshold"
        /\ UNCHANGED parameters /\ UNCHANGED inputs
    BY <1>1, <1>11 DEF EvaluatePolynomial, Fixed, CircuitIInv
  <2>2. /\ ct \in Ciphertexts /\ ct.depth = 1
        /\ ct.slots[0] = Matches /\ Matches \in 0..inst.k
        /\ \A i \in Slots \ {0} : ct.slots[i] = 0
    BY <2>1 DEF DecisionIInv, DepthOfStage
  <2>3. Evaluable /\ inst.k \in Nat /\ inst.tau \in Nat
    <3>1. Evaluable
      BY <1>1, <2>1 DEF Decides
    <3>2. inst.k \in Nat
      BY <3>1 DEF Evaluable
    <3>3. inst.tau \in 0..(inst.k + 1)
      BY <1>1, InstanceAssumption DEF Sized
    <3> QED BY <3>1, <3>2, <3>3
  <2>4. ct'.slots[0] = IF Matches >= inst.tau THEN 1 ELSE 0
    BY <1>1, <1>2, <2>1, <2>2, EvaluatedDecides
  <2>5. ASSUME NEW i \in Slots, i # 0
        PROVE  ct'.slots[i] = (IF inst.tau = 0 THEN 1 ELSE 0)
    <3>1. ct.slots[i] = 0 /\ 0 \in 0..inst.k
      BY <2>2, <2>3, <2>5
    <3>2. ct'.slots[i] = IF 0 >= inst.tau THEN 1 ELSE 0
      BY <1>1, <2>1, <2>2, <3>1, EvaluatedDecides
    <3>3. 0 >= inst.tau <=> inst.tau = 0
      BY <2>3
    <3> QED BY <3>2, <3>3
  <2>6. ct'.depth <= MultDepth + Excess /\ (inst.k > 1 => ct'.depth >= MultDepth)
    <3> DEFINE giants == PsGiantDepth(inst.k, inst.giant)
               deep == PowerDepth[BabyStep]
               used == EvalPolyBFV(ct).depth
               before == ct.depth
    <3>1. /\ giants \in Nat /\ deep \in Nat /\ MaxPower \in Nat
          /\ MultDepth = 1 + deep + giants /\ MultDepth + Excess = 1 + MaxPower + giants
      BY <1>1, <2>1, DepthShape
    <3>2. /\ used <= before + MaxPower + giants
          /\ inst.k > 1 => used >= before + deep + giants
      BY <1>2, <2>2, <2>3, PolynomialEvaluates
    <3>3. before = 1 /\ ct'.depth = used
      BY <2>1, <2>2
    <3> HIDE DEF giants, deep, used, before
    <3> QED BY <3>1, <3>2, <3>3
  <2>7. OtherSlotsConstant'
    BY <1>4, <2>1, <2>5 DEF OtherSlotsConstant
  <2> QED BY <1>1, <1>4, <2>1, <2>4, <2>6, <2>7 DEF DecisionIInv, DepthOfStage, DecisionExact
<1>12. CASE DecryptCount
  <2>1. /\ stage = "slots" /\ stage' = "done" /\ inst.circuit # "Threshold" /\ ct' = ct
        /\ UNCHANGED parameters /\ UNCHANGED inputs
    BY <1>12 DEF DecryptCount, Summed, Fixed
  <2>2. ct.depth = IF inst.circuit = "Sqrt" THEN 2 ELSE 1
    BY <2>1 DEF DecisionIInv, DepthOfStage
  <2>3. ct'.depth <= MultDepth + Excess
    <3>1. ct'.depth \in Nat /\ ct'.depth <= MultDepth
      BY <1>3, <2>1, <2>2
    <3> DEFINE used == ct'.depth
    <3>2. used \in Nat /\ used <= MultDepth
      BY <3>1
    <3> HIDE DEF used
    <3>3. used <= MultDepth + Excess
      BY <1>3, <3>2
    <3> QED BY <3>3 DEF used
  <2> QED BY <1>1, <1>4, <2>1, <2>3 DEF DecisionIInv, DepthOfStage, DecisionExact
<1>13. CASE DecryptDecision
  <2>1. /\ stage = "evaluated" /\ stage' = "done" /\ answer' = (Decrypted >= 1) /\ ct' = ct
        /\ UNCHANGED parameters /\ UNCHANGED inputs
    BY <1>13 DEF DecryptDecision, Fixed
  <2>2. /\ ct.slots[0] = IF Matches >= inst.tau THEN 1 ELSE 0
        /\ ct.depth <= MultDepth + Excess
    BY <2>1 DEF DecisionIInv, DepthOfStage
  <2>3. Decrypted = ct.slots[0]
    BY <1>2, <2>2 DEF Decrypted
  <2>4. (Decrypted >= 1) = (Matches >= inst.tau)
    BY <2>2, <2>3
  <2> QED BY <1>1, <1>4, <2>1, <2>2, <2>4 DEF DecisionIInv, DepthOfStage, DecisionExact
<1>14. CASE UNCHANGED circuitVars
  <2>1. /\ UNCHANGED parameters /\ UNCHANGED inputs
        /\ stage' = stage /\ ct' = ct /\ answer' = answer
    BY <1>14 DEF circuitVars
  <2> QED
    BY <1>1, <1>4, <2>1 DEF DecisionIInv, DepthOfStage, DecisionExact, OtherSlotsConstant
<1> QED
  BY <1>5, <1>6, <1>7, <1>8, <1>9, <1>10, <1>11, <1>12, <1>13, <1>14 DEF CircuitNext

\* The inductive invariant holds: the masked count is evaluated by a polynomial that
\* is an indicator of tau .. k, and each stage has taken the levels it says.
THEOREM DecisionInvariant == CircuitSpec => []DecisionIInv
BY DecisionInitially, DecisionStep, PTL DEF CircuitSpec

\* For every instance, ring, layout, k and tau, and whichever way the chunks are
\* combined: what DecryptDecision answers is whether the signatures agree in at least
\* tau coordinates.
THEOREM DecisionAlwaysExact == CircuitSpec => []DecisionExact
<1>1. DecisionIInv => DecisionExact
  BY DEF DecisionIInv
<1> QED BY <1>1, DecisionInvariant, PTL

\* For every threshold instance: after EvalPolyBFV no slot but the first tells
\* anything of the signatures.
THEOREM OtherSlotsAlwaysConstant == CircuitSpec => []OtherSlotsConstant
<1>1. DecisionIInv => OtherSlotsConstant
  BY DEF DecisionIInv, OtherSlotsConstant
<1> QED BY <1>1, DecisionInvariant, PTL

\* For every instance: the levels used stay within those the parameters provide and
\* the excess of a power over x^s, and the threshold and one-hot circuits use all they
\* provide.
THEOREM DepthAlwaysProvisioned == CircuitSpec => []DepthProvisioned
<1>1. ASSUME DecisionIInv PROVE DepthProvisioned
  <2>1. /\ MultDepth \in Nat /\ MultDepth >= 1 /\ Excess \in Nat
        /\ inst.circuit = "Sqrt" => MultDepth = 3
        /\ inst.circuit = "OneHot" => MultDepth = 1
    BY <1>1, DepthShape DEF DecisionIInv, CircuitIInv
  <2>2. stage \in {"ready", "encrypted", "digits", "slots", "masked", "evaluated", "done"}
        /\ DepthOfStage /\ (stage = "digits" => inst.circuit = "Sqrt")
    BY <1>1 DEF DecisionIInv, CircuitIInv
  <2>3. ct.depth <= MultDepth + Excess
    BY <2>1, <2>2 DEF DepthOfStage
  <2>4. stage = "evaluated" /\ inst.k > 1 => ct.depth >= MultDepth
    BY <2>2 DEF DepthOfStage
  <2>5. Summed /\ inst.circuit = "OneHot" => ct.depth >= MultDepth
    BY <2>1, <2>2 DEF DepthOfStage, Summed
  <2> QED BY <2>3, <2>4, <2>5 DEF DepthProvisioned
<1> QED BY <1>1, DecisionInvariant, PTL
==============================================================================
