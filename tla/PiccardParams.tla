---------------------------- MODULE PiccardParams ----------------------------
(***************************************************************************)
(* One PiccardParams object over its life: a caller sets public fields,    *)
(* Validate or ValidateSqrt derives ring dimension and depth and then      *)
(* sizes the flooding noise from the table of measured rows, the           *)
(* calibration harness takes its own entry points, the context adopts the  *)
(* realized ring dimension, and FloodNoiseBits answers only while the      *)
(* snapshot taken at selection still equals the object.                    *)
(*                                                                         *)
(* Fields that no check tells apart are left out: plaintext_mod and        *)
(* feature_dim are functions of the shape, hash_range, hash_seed and tau   *)
(* are outside the snapshot.  log2(q/t) and log q are whole numbers.  A    *)
(* call that throws before it assigns anything changes nothing and is not  *)
(* an action; one that throws later is.                                    *)
(***************************************************************************)
EXTENDS CalibrationArithmetic, Sequences

CONSTANTS
    Shapes,      \* [k, m, security] a caller may ask for
    MinRing,     \* MinRingDimForSecurity
    Targets,     \* [stat, queries, margin] a caller may ask for
    Supported,   \* transcript targets DeriveSanitizerProfile accepts
    MaxQueries,  \* 2^63 in the code
    MaxBits,     \* UINT32_MAX in the code
    LegacyBits,  \* kThresholdLegacyCoefficientBits
    Table,       \* kNoiseCalibration, in the order it was emitted
    Modes,       \* [threshold, giant, override] a caller may ask for
    Overrides,   \* rows the harness passes to ArmThresholdProbe
    Candidates,  \* rows the harness passes to SelectSanitizerCandidate
    Profiles,    \* profile_id -> [target, growth]
    Contracts,   \* lists of rows passed to SelectPreThresholdCalibration
    Pokes,       \* [ring, eval] written into the public derived fields
    None

Rows == Candidates \cup {Table[i] : i \in DOMAIN Table}

ASSUME TableAssumption ==
    /\ DOMAIN Table = 1..Len(Table)
    /\ \A r \in Rows : r.eval \in Nat /\ r.capacity \in Int
ASSUME NoneAssumption ==
    /\ None \notin Overrides
    /\ \A w \in Modes : /\ w.override \in Overrides \cup {None}
                        /\ w.threshold \in BOOLEAN
                        /\ w.giant \in {"Horner", "Tree"}
    /\ \A list \in Contracts : \A i \in DOMAIN list : list[i] # None
    /\ LegacyBits \in Nat

\* A row is never measured at a smaller ring than it was asked for; the selector
\* checks it of every row but the threshold rows of the table.
ASSUME RingAssumption ==
    /\ \A r \in Rows : {r.requested, r.ringNatural, r.calibrated} \subseteq Nat
    /\ \A i \in DOMAIN Table : Table[i].circuit = "Threshold" => Table[i].ringNatural >= Table[i].requested
    /\ \A list \in Contracts : \A i \in DOMAIN list :
           {list[i].key.requested, list[i].ringNatural, list[i].calibrated} \subseteq Nat

\* What the callers pass is unsigned, and the profile sizes noise for few targets.
ASSUME InputAssumption ==
    /\ Shapes \subseteq [k : Nat, m : Nat, security : DOMAIN MinRing]
    /\ Targets \subseteq [stat : Nat, queries : Nat, margin : Nat]
    /\ Supported \subseteq Nat /\ MaxQueries \in Nat /\ MaxBits \in Nat
    /\ \A o \in Overrides : o.eval \in Nat /\ o.ringNatural \in Nat
    /\ \A w \in Pokes : w.eval \in Nat
    /\ \A list \in Contracts : \A i \in DOMAIN list : list[i].eval \in Nat

\* The rows of the table that the selector checks again are good, and their bits
\* are far below MaxBits.
ASSUME GeneratedTableAssumption ==
    LET Checked == {i \in DOMAIN Table : Table[i].circuit # "Threshold"}
    IN  \A i \in Checked :
            /\ Table[i].ringNatural >= Table[i].requested
            /\ Table[i].calibrated >= Table[i].ringNatural
            /\ IsPowerOfTwo(Table[i].calibrated)
            /\ Table[i].depth >= Table[i].natural
            /\ Table[i].capacity > 0
            /\ \A j \in Checked :
                   Table[j].capacity + Table[i].eval + CeilLog2(Table[i].calibrated) <= MaxBits

VARIABLES
    p,         \* the fields the snapshot covers
    sized,     \* flooding_sized_
    valid,     \* validation_snapshot_valid_
    snapshot,  \* validation_snapshot_
    via        \* history: which selector sized the object

vars == <<p, sized, valid, snapshot, via>>

------------------------------------------------------------------------------
(* Derivation *)

CircuitFor(threshold) == IF threshold THEN "Threshold" ELSE "OneHot"

DerivedCircuit(d) ==
    IF d.threshold THEN "Threshold" ELSE IF d.sqrtBase = 0 THEN "OneHot" ELSE "Sqrt"

RingFor(features, security) ==
    IF NextPowerOf2(features) < MinRing[security] THEN MinRing[security]
    ELSE NextPowerOf2(features)

PlainDepth(d) ==
    IF d.threshold THEN PatersonStockmeyerNaturalDepth(d.shape.k, d.giant) ELSE 1

SqrtBase(m) == Pow2[CeilLog2(m) \div 2]

PlainShape(s) == s.k # 0 /\ s.m >= 2
SqrtShape(s) == s.k # 0 /\ s.m >= 4 /\ IsPowerOfTwo(s.m) /\ CeilLog2(s.m) % 2 = 0

ClearFloodingSelection(d) ==
    [d EXCEPT !.requested = 0, !.calibrated = 0, !.coefficient = 0, !.flood = 0,
              !.capacity = 0, !.circuit = "OneHot", !.contract = None,
              !.adopted = FALSE, !.limb = 0, !.eval = 0, !.ringNatural = 0]

DeriveWithoutFlooding(d) ==
    [ClearFloodingSelection(d) EXCEPT
        !.ring = RingFor(d.shape.k * d.shape.m, d.shape.security),
        !.depth = PlainDepth(d), !.natural = PlainDepth(d)]

DeriveSqrtWithoutFlooding(d) ==
    [ClearFloodingSelection(d) EXCEPT
        !.sqrtBase = SqrtBase(d.shape.m),
        !.ring = RingFor(d.shape.k * 2 * SqrtBase(d.shape.m), d.shape.security),
        !.depth = 3, !.natural = 3]

------------------------------------------------------------------------------
(* Which measured row a derived object d takes                             *)

\* A sum of naturals: no partial sum overflows unless the last one does.
Derivable(target, N, eval) ==
    /\ target.stat \in Supported
    /\ target.queries \in 1..MaxQueries
    /\ IsPowerOfTwo(N)
    /\ FloodBits(target, N, eval) + 2 <= MaxBits

LegacyFlood(d, r) == r.eval + LegacyBits + d.target.margin

OverrideValid(d) ==
    /\ d.override.depth >= d.natural
    /\ IsPowerOfTwo(d.override.ringNatural)
    /\ d.override.ringNatural >= d.ring
    /\ d.override.eval # 0
    /\ d.override.capacity > 0

OverrideRow(d) ==
    [circuit |-> "Threshold", security |-> d.shape.security, requested |-> d.ring,
     natural |-> d.natural, ringNatural |-> d.override.ringNatural,
     calibrated |-> d.override.ringNatural, depth |-> d.override.depth,
     limb |-> d.override.limb, eval |-> d.override.eval,
     capacity |-> d.override.capacity]

\* The invalid_argument exits of SelectFloodingParams before it reads a row.
ArmingRefused(c, d) == d.armed /\ (c # "Threshold" \/ d.override = None)
PairingRefused(c, d) ==
    /\ c = "Threshold"
    /\ \/ d.giant = "Horner" /\ d.override # None /\ ~d.armed
       \/ d.giant = "Tree" /\ d.override = None
       \/ d.override # None /\ ~OverrideValid(d)

Source(c, d) ==
    IF c = "Threshold" /\ d.override # None THEN <<OverrideRow(d)>> ELSE Table

KeyMatches(r, c, d) ==
    /\ r.circuit = c
    /\ r.security = d.shape.security
    /\ r.requested = d.ring
    /\ r.natural = d.natural

CandidateWellFormed(d, r) ==
    /\ r.circuit # "Threshold"
    /\ KeyMatches(r, DerivedCircuit(d), d)
    /\ r.ringNatural >= r.requested /\ r.calibrated >= r.ringNatural
    /\ r.depth >= r.natural
    /\ r.capacity > 0

CandidateVerdict(d, r) ==
    IF ~CandidateWellFormed(d, r) \/ ~Derivable(d.target, r.calibrated, r.eval)
        THEN "throws"
    ELSE IF FloodBits(d.target, r.calibrated, r.eval) + 2 <= r.capacity
        THEN "feasible" ELSE "infeasible"

ThresholdVerdict(d, r) ==
    IF LegacyFlood(d, r) + 2 > MaxBits THEN "throws"
    ELSE IF LegacyFlood(d, r) + 2 <= r.capacity THEN "feasible" ELSE "infeasible"

Verdict(c, d, r) ==
    IF c = "Threshold" THEN ThresholdVerdict(d, r) ELSE CandidateVerdict(d, r)

\* The loop over the rows of the key goes on past an infeasible row only.
\* Mutant: the loop ends at the first row of the key, feasible or not.
StopsAtFirst(c, d) == {i \in DOMAIN Source(c, d) : KeyMatches(Source(c, d)[i], c, d)}

Stops(c, d) == {i \in DOMAIN Source(c, d) :
                  /\ KeyMatches(Source(c, d)[i], c, d)
                  /\ Verdict(c, d, Source(c, d)[i]) # "infeasible"}

Chosen(c, d) == {i \in Stops(c, d) :
                   /\ \A j \in Stops(c, d) : i <= j
                   /\ Verdict(c, d, Source(c, d)[i]) = "feasible"}

WithThresholdRow(d, r) ==
    [d EXCEPT !.requested = r.requested, !.calibrated = r.ringNatural,
              !.coefficient = LegacyBits, !.flood = LegacyFlood(d, r),
              !.capacity = r.capacity, !.circuit = "Threshold", !.adopted = FALSE,
              !.depth = r.depth, !.limb = r.limb, !.eval = r.eval,
              !.ringNatural = r.ringNatural]

WithCandidate(d, r) ==
    [d EXCEPT !.requested = r.requested, !.calibrated = r.calibrated,
              !.coefficient = CoefficientStatBits(d.target, r.calibrated),
              !.flood = FloodBits(d.target, r.calibrated, r.eval),
              !.capacity = r.capacity, !.circuit = r.circuit, !.contract = None,
              !.adopted = FALSE, !.depth = r.depth, !.limb = r.limb,
              !.eval = r.eval, !.ringNatural = r.ringNatural]

WithRow(c, d, r) ==
    IF c = "Threshold" THEN WithThresholdRow(d, r) ELSE WithCandidate(d, r)

------------------------------------------------------------------------------
(* Pre-threshold contracts                                                 *)

\* ValidatePreThresholdRequest; the digest and version strings are taken to be good.
RequestValid(d, q) ==
    /\ q.profile \in DOMAIN Profiles
    /\ Profiles[q.profile].target = d.target
    /\ d.ring # 0 /\ d.natural # 0
    /\ q.circuit \in {"OneHot", "Sqrt"}
    /\ q.circuit = DerivedCircuit(d)
    /\ q.security = d.shape.security
    /\ q.requested = d.ring /\ q.natural = d.natural
    /\ q.base = IF q.circuit = "Sqrt" THEN d.sqrtBase ELSE 0

\* IsCompleteMatchingFeasibleRow; "complete" stands for the limb, modulus and
\* size fields being present and consistent.
ContractMatches(d, q, r) ==
    /\ r.key = q
    /\ IsPowerOfTwo(r.ringNatural) /\ IsPowerOfTwo(r.calibrated)
    /\ r.ringNatural >= q.requested
    /\ r.calibrated >= r.ringNatural
    /\ r.calibrated % r.ringNatural = 0
    /\ r.calibrated \div r.ringNatural <= Profiles[q.profile].growth
    /\ r.depth >= q.natural
    /\ r.complete
    /\ r.target = d.target
    /\ Derivable(d.target, r.calibrated, r.eval)
    /\ r.coefficient = CoefficientStatBits(d.target, r.calibrated)
    /\ r.flood = FloodBits(d.target, r.calibrated, r.eval)
    /\ r.flood + 2 <= r.capacity

Cost(r) == <<r.calibrated, r.logq, r.bytes, r.depth, r.limb>>

\* Lexicographic order of the std::map key.
Cheaper(a, b) == \E i \in 1..5 : /\ Cost(a)[i] < Cost(b)[i]
                                 /\ \A j \in 1..(i - 1) : Cost(a)[j] = Cost(b)[j]

Matching(d, q, list) == {i \in DOMAIN list : ContractMatches(d, q, list[i])}

\* emplace finds another row under the same cost.
Conflicting(d, q, list) ==
    \E i, j \in Matching(d, q, list) :
        Cost(list[i]) = Cost(list[j]) /\ list[i] # list[j]

\* rows_by_cost.begin(): the row emplace kept for the least cost.
CheapestContract(d, q, list) ==
    {i \in Matching(d, q, list) :
        \A j \in Matching(d, q, list) :
            /\ ~Cheaper(list[j], list[i])
            /\ Cost(list[j]) = Cost(list[i]) => i <= j}

SelectedContract(d, q, list) ==
    IF RequestValid(d, q) /\ ~Conflicting(d, q, list)
    THEN {list[i] : i \in CheapestContract(d, q, list)} ELSE {}

WithContract(d, q, r) ==
    [d EXCEPT !.requested = q.requested, !.calibrated = r.calibrated,
              !.coefficient = r.coefficient, !.flood = r.flood,
              !.capacity = r.capacity, !.circuit = q.circuit, !.contract = r,
              !.adopted = FALSE, !.depth = r.depth, !.limb = r.limb,
              !.eval = r.eval, !.ringNatural = r.ringNatural]

------------------------------------------------------------------------------
(* Actions *)

Init ==
    /\ \E s \in Shapes, t \in Targets :
         p = [shape |-> s, threshold |-> FALSE, giant |-> "Horner", override |-> None,
              armed |-> FALSE, target |-> t, ring |-> 0, natural |-> 0, sqrtBase |-> 0,
              depth |-> 1, limb |-> 0, eval |-> 0, ringNatural |-> 0, requested |-> 0,
              calibrated |-> 0, coefficient |-> 0, flood |-> 0, capacity |-> 0,
              circuit |-> "OneHot", contract |-> None, adopted |-> FALSE]
    /\ sized = FALSE
    /\ valid = FALSE
    /\ snapshot = None
    /\ via = "none"

\* The caller writes a public input field; nothing notices.
SetShape == \E s \in Shapes : p' = [p EXCEPT !.shape = s]
SetTarget == \E t \in Targets : p' = [p EXCEPT !.target = t]
SetMode == \E w \in Modes :
    p' = [p EXCEPT !.threshold = w.threshold, !.giant = w.giant, !.override = w.override]

\* ... or a public derived field.
Poke == \E w \in Pokes : p' = [p EXCEPT !.ring = w.ring, !.eval = w.eval]

Write ==
    /\ SetShape \/ SetTarget \/ SetMode \/ Poke
    /\ UNCHANGED <<sized, valid, snapshot, via>>

Unsized(d) == /\ p' = d
              /\ sized' = FALSE
              /\ valid' = FALSE
              /\ snapshot' = None
              /\ via' = "none"

SizedBy(how, d) == /\ p' = d
                   /\ sized' = TRUE
                   /\ valid' = TRUE
                   /\ snapshot' = d
                   /\ via' = how

SelectFloodingParams(c, d) ==
    /\ ~ArmingRefused(c, d) /\ ~PairingRefused(c, d)
    /\ \E i \in Chosen(c, d) : SizedBy("Validate", WithRow(c, d, Source(c, d)[i]))

SelectionRefused(c, d) ==
    /\ ArmingRefused(c, d) \/ PairingRefused(c, d) \/ Chosen(c, d) = {}
    /\ Unsized(d)

ValidateOf(d) ==
    \/ ~PlainShape(d.shape) /\ Unsized(ClearFloodingSelection(d))
    \/ /\ PlainShape(d.shape)
       /\ LET c == CircuitFor(d.threshold)
              e == DeriveWithoutFlooding(d)
          IN  SelectFloodingParams(c, e) \/ SelectionRefused(c, e)

Validate == ValidateOf(p)

ValidateSqrt ==
    \/ ~SqrtShape(p.shape) /\ Unsized(ClearFloodingSelection(p))
    \/ /\ SqrtShape(p.shape)
       /\ LET e == DeriveSqrtWithoutFlooding(p)
          IN  SelectFloodingParams("Sqrt", e) \/ SelectionRefused("Sqrt", e)

\* CalibrationAccess::Derive and DeriveSqrt
Derive == IF PlainShape(p.shape) THEN Unsized(DeriveWithoutFlooding(p))
          ELSE Unsized(ClearFloodingSelection(p))
DeriveSqrt == IF SqrtShape(p.shape) THEN Unsized(DeriveSqrtWithoutFlooding(p))
              ELSE Unsized(ClearFloodingSelection(p))

\* The waiver and the row stay behind when Validate throws.
ArmThresholdProbe == \E o \in Overrides :
    /\ p.threshold
    /\ ValidateOf([p EXCEPT !.override = o, !.armed = TRUE])

SelectSanitizerCandidate == \E r \in Candidates :
    /\ ~sized /\ p.ring # 0 /\ p.natural # 0
    /\ CandidateVerdict(p, r) = "feasible"
    /\ SizedBy("Candidate", WithCandidate(p, r))

SelectPreThresholdCalibration == \E list \in Contracts : \E i \in DOMAIN list :
    LET q == list[i].key
    IN  /\ ~sized
        /\ \E r \in SelectedContract(p, q, list) :
             SizedBy("Contract", WithContract(p, q, r))

\* What VerifyValidationSnapshot recomputes.
Rederives(d) ==
    /\ d.flood + 2 <= d.capacity
    /\ IF d.circuit = "Threshold"
       THEN /\ d.coefficient = LegacyBits
            /\ d.flood = d.eval + LegacyBits + d.target.margin
       ELSE /\ Derivable(d.target, d.calibrated, d.eval)
            /\ d.coefficient = CoefficientStatBits(d.target, d.calibrated)
            /\ d.flood = FloodBits(d.target, d.calibrated, d.eval)

\* Mutant: recomputes without comparing the fields.
VerifyRecomputedOnly == valid /\ Rederives(p)

VerifyValidationSnapshot == valid /\ snapshot = p /\ Rederives(p)

\* FloodNoiseBits() returns p.flood; otherwise it throws.
FloodNoiseBitsReturns == sized /\ (valid => VerifyValidationSnapshot)

\* Mutant: takes whatever dimension the context reports.
AdoptAnyRingDim == \E n \in {p.calibrated, p.requested, p.ring} :
    /\ sized
    /\ VerifyValidationSnapshot
    /\ ~p.adopted
    /\ LET d == [p EXCEPT !.ring = n, !.adopted = TRUE]
       IN  p' = d /\ snapshot' = d
    /\ UNCHANGED <<sized, valid, via>>

AdoptVerifiedRuntimeRingDim == \E n \in {p.calibrated, p.requested, p.ring} :
    /\ sized
    /\ VerifyValidationSnapshot
    /\ ~p.adopted
    /\ n = p.calibrated
    /\ LET d == [p EXCEPT !.ring = n, !.adopted = TRUE]
       IN  p' = d /\ snapshot' = d
    /\ UNCHANGED <<sized, valid, via>>

Next ==
    \/ Write
    \/ Validate
    \/ ValidateSqrt
    \/ Derive
    \/ DeriveSqrt
    \/ ArmThresholdProbe
    \/ SelectSanitizerCandidate
    \/ SelectPreThresholdCalibration
    \/ AdoptVerifiedRuntimeRingDim

Spec == Init /\ [][Next]_vars

------------------------------------------------------------------------------
(* Properties *)

\* The fields have their types, and the object is sized exactly while it has a
\* valid snapshot, by whichever selector.
TypeOK ==
    /\ p \in [shape : Shapes, threshold : BOOLEAN, giant : {"Horner", "Tree"},
              override : Overrides \cup {None}, armed : BOOLEAN, target : Targets,
              ring : Nat, natural : Nat, sqrtBase : Nat, depth : Nat, limb : Nat,
              eval : Nat, ringNatural : Nat, requested : Nat, calibrated : Nat,
              coefficient : Nat, flood : Nat, capacity : Nat,
              circuit : {"OneHot", "Sqrt", "Threshold"},
              contract : {None} \cup
                  UNION {{list[i] : i \in DOMAIN list} : list \in Contracts},
              adopted : BOOLEAN]
    /\ sized \in BOOLEAN
    /\ sized <=> valid
    /\ sized <=> via \in {"Validate", "Candidate", "Contract"}

\* The key the current input fields call for, whatever happened before.
KeyRing(d) == RingFor(IF d.circuit = "Sqrt" THEN d.shape.k * 2 * SqrtBase(d.shape.m)
                      ELSE d.shape.k * d.shape.m, d.shape.security)
KeyDepth(d) == IF d.circuit = "Sqrt" THEN 3 ELSE PlainDepth(d)

\* Rows that were measured on the circuit d evaluates: the tree evaluation has
\* its override only, Horner the table unless the probe is armed.
MeasuredFor(d) ==
    IF d.circuit # "Threshold" THEN {Table[i] : i \in DOMAIN Table}
    ELSE IF d.override # None /\ (d.giant = "Tree" \/ d.armed)
         THEN {OverrideRow([d EXCEPT !.ring = KeyRing(d)])}
    ELSE IF d.override = None /\ d.giant = "Horner" THEN {Table[i] : i \in DOMAIN Table}
    ELSE {}

\* The selection in d is the one of a row measured for the inputs in d.
CoveredBy(d) ==
    /\ d.threshold <=> d.circuit = "Threshold"
    /\ \E r \in MeasuredFor(d) :
         /\ r.circuit = d.circuit /\ r.security = d.shape.security
         /\ r.requested = KeyRing(d) /\ r.natural = KeyDepth(d)
         /\ <<d.eval, d.depth, d.limb, d.capacity, d.ringNatural>> =
            <<r.eval, r.depth, r.limb, r.capacity, r.ringNatural>>
         /\ d.flood = r.eval + d.coefficient + d.target.margin
         /\ d.flood + 2 <= r.capacity

\* FloodNoiseBits answers after Validate or ValidateSqrt only with the bound of
\* a row measured for the key of the input fields as they are now, which leaves
\* the two bits of room the circuit needs: no write to a public field, and no
\* earlier call on the object, can make it answer for another configuration.
FloodingCovered ==
    FloodNoiseBitsReturns /\ via = "Validate" => CoveredBy(p)

\* The answer covers the transcript target as it is now by its meaning: the
\* noise is at least 2^stat times queries times N times the evaluation noise
\* with its margin, without wrapping around in 32 bits.
SmudgingDominates ==
    FloodNoiseBitsReturns /\ p.circuit # "Threshold" =>
        /\ p.flood <= MaxBits
        /\ p.flood >= p.eval + p.target.margin + p.target.stat
        /\ Pow2[p.flood - p.eval - p.target.margin - p.target.stat] >=
              p.target.queries * p.calibrated

\* While FloodNoiseBits answers on an adopted object, its ring dimension is the
\* calibrated one of the row it was sized with, and never smaller than the
\* dimension the shape needs.
AdoptionExact ==
    FloodNoiseBitsReturns /\ p.adopted =>
        /\ p.ring = p.calibrated /\ p.ring >= p.requested
        /\ via = "Contract" => p.ring = p.contract.calibrated
        /\ via = "Validate" => p.ring >= KeyRing(p)

\* A row of the table that is feasible for a one-hot or sqrt object with the
\* input fields of d.
FeasibleRow(c, d) == \E i \in DOMAIN Table :
    LET r == Table[i]
        e == [d EXCEPT !.circuit = c]
    IN  /\ r.circuit = c /\ r.security = d.shape.security
        /\ r.requested = KeyRing(e) /\ r.natural = KeyDepth(e)
        /\ d.target.stat \in Supported /\ d.target.queries \in 1..MaxQueries
        /\ r.eval + d.target.stat + CeilLog2(d.target.queries) + CeilLog2(r.calibrated)
              + d.target.margin + 2 <= r.capacity

\* Validate on an object that was never derived for sqrt, and ValidateSqrt on
\* one that is not in threshold mode, size it whenever a feasible row exists: an
\* infeasible cheaper row, a failed call before, an earlier selection or an
\* adopted ring dimension does not stop them.
LookupComplete ==
    [][/\ ~p.threshold /\ ~p.armed
       /\ \/ Validate /\ p.sqrtBase = 0 /\ PlainShape(p.shape) /\ FeasibleRow("OneHot", p)
          \/ ValidateSqrt /\ SqrtShape(p.shape) /\ FeasibleRow("Sqrt", p)
       => sized']_vars

==============================================================================
