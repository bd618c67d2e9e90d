# PICCARD: specifications, model checking and proofs

PICCARD computes the Jaccard similarity of two private sets. Each owner turns
its set into a MinHash signature of `k` coordinates, encodes it one-hot (or in
two digits) into the slots of a BFV plaintext and encrypts it. A cloud
multiplies the two ciphertexts, sums the slots by rotations and returns the
number of matching coordinates, or, in the threshold variant, only whether it
reaches `tau`. Around the C++ library stand Python programs that run the
benchmark matrices for hours and have to leave evidence that survives crashes,
retries and rebuilds.

This directory holds TLA+ modules of the parts that carry the logic, the TLC
configurations that check them on small instances, and TLAPS proofs of the
properties that matter most for every value of the constants. Paths below are
relative to the repository (`src/` of a path in `PROJECT.json` is the repository
root).

1. [The system](#1-the-system)
2. [Modules](#2-modules)
3. [Runs](#3-runs)
4. [What the runs found](#4-what-the-runs-found)
5. [Fairness and liveness](#5-fairness-and-liveness)
6. [Proofs](#6-proofs)
7. [What is not modelled](#7-what-is-not-modelled)
8. [Plan](#8-plan)

## 1. The system

### Components

| component | state it keeps | operations | what makes it correct |
|---|---|---|---|
| bottom structure (`src/core/bottom_structure.cpp`, `minhash.cpp`) | `k` sorted arrays of the `d` smallest ranks, `requires_rebuild_` | Initialize, Insert, Delete, GetSignature | no rank of an element that left; the signature is the MinHash of the set while fewer than `d` members were deleted; rebuild is asked for before an empty array is read |
| dynamic ciphertext store (`src/protocol/dynamic_ciphertext_store.cpp`) | two envelopes, a mutex | TryReplace, ReadPair | every epoch won once, pairs read whole and evaluable, rejections truthful; one versioned register per owner |
| encoders and circuits (`onehot_encoder`, `sqrt_encoder`, `piccard`, `sqrt_piccard`, `threshold_piccard`, `bfv_context`) | ciphertext slots and depth | encode, multiply, rotate and add, mask, evaluate the polynomial, decrypt | the count and the decision are exact, within the depth and the rotation keys provided, and other slots tell nothing |
| parameters (`src/util/params.cpp`, `params_calibration.cpp`, `security_profile.cpp`) | one object with public fields, a selection and a snapshot of it | field writes, Validate, ValidateSqrt, derive-only entry points, the harness's arming calls, two pure selectors, ring adoption, FloodNoiseBits | the flooding bound is only answered for the configuration it was measured for; it dominates the transcript target; a feasible row is found |
| protocol objects (`piccard`, `sqrt_piccard`, `dynamic_piccard`, `threshold_piccard`, `piccard_engine`, `bfv_context`) | parameters, hasher, context, encoder, polynomial, keys | SetHashSeed, InitializeContextOnly, KeyGen, Initialize | after any failed and repeated calls, an object that can encrypt has a context that passed every check |
| Table IX sweep (`scripts/run_table9_sweep.py`) | run.json, planned_argv.jsonl, matrix.json, receipts | dry run, fresh run, resume, accepted change of provenance | finished runs have their receipts, say when they are mixed, name who measured what |
| revision orchestrator, verifier, seal (`scripts/run_revision_benchmarks.py`, `verify_...`, `seal_...`) | run.json, phases.jsonl, events.jsonl, receipts, superseded/, seal | run, resume with repair, verify, seal | what a resumed run verifies is what an uninterrupted one would; nothing recorded is destroyed |
| refresh of an owner's upload (`benchmarks/dynamic_refresh_benchmark.cpp`, `dynamic_piccard.cpp`, `public_ciphertext_codec.cpp`) | a structure per owner, an envelope on its way, the store's slots, the engine's hash seed | InitSet, Insert, Delete, encrypt and wrap, upload, read, evaluate, decrypt | signatures of two hash seeds never meet; a decrypted count is that of the sets it was made from |
| SJ16 (`src/baselines/sj16.cpp`, `paillier.cpp`, `csprng.h`) | key, universe, a pool of randomizers and its atomic index | Setup, SetUniverse, PrepareRandomizerPool, RunProtocol from several threads | a randomizer goes into one ciphertext; a query answers its own two sets or throws, and ends |
| BCG12 over DGT12 (`src/baselines/bcg12.cpp`, `dgt12_psica.cpp`, `group_ff.cpp`, `group_ec.cpp`) | hasher, group, a pool of BN_CTX and an overflow flag | Setup, SetHashSeed, RunQuery with six parallel loops | no BN_CTX in two threads; an overflow is told; answers are exact, queries end |
| real datasets (`scripts/prepare_real_datasets.py`, `src/data/real_dataset.cpp`, `real_dataset_metrics.cpp`) | a directory of four files, replaced by renames | publish, LoadRealDataset, ExactJaccard | a loaded dataset is one preparation's; every pair in it can be measured |
| deletion-survival analysis, exact truth, benchmark drivers, invocation plan, verifiers and summarizers | see section 7 | | |

### How they interact

* An owner holds a `BottomStructure`; its `GetSignature` feeds an encoder and
  `Piccard::Encrypt`. `DynamicPiccard` refuses a structure of another hash seed.
* The ciphertext, packed into an envelope with its public bindings, goes to the
  cloud's `DynamicCiphertextStore`. Several cloud threads may call it; this is
  the only object of the protocol that guards its state with a mutex.
* A protocol object copies a `PiccardParams` in its constructor. The object's
  `BFVContext` copies it again, adopts the realized ring dimension in its own
  copy, and the protocol object adopts it in its copy afterwards: two snapshots
  of one selection, in two objects, updated one after the other.
* A benchmark that compares PICCARD with SJ16 and BCG12 sees both through one
  interface (`include/baselines/pjs_baseline.h`) and compares their answers with
  the exact similarity of the plain sets, some of which come from the real
  datasets.
* The Python runners start the C++ benchmarks as processes and know of them
  only what they find on disk.

### Hard behaviours

The hazards are listed one by one, each at its line, in `PROJECT.json`. Their
kinds: long legal histories (a structure or a parameter object that has lived
through many calls), exceptions between two assignments of a member function,
threads at one mutex, one atomic index or one pool of contexts, a directory that
is replaced while it is read, boundaries of rings, polynomial degrees and 32- and
64-bit counters, values checked at one time and used at another, and processes
that end between two writes of a protocol of files.

## 2. Modules

Each module has one action per operation or handler; its header comment names
the abstractions made. `PROJECT.json` maps every definition to its lines.

### BottomStructure

`bottom_` is modelled as a function from coordinates to *sets* of ranks: the
vector is sorted and without duplicates, so the set carries the same
information, `front()` is its minimum and `back()` its maximum. MinHash ranks
are an arbitrary member of `RankFunctions`; ranks of two elements may be equal,
as a finite `hash_range` allows. `Initialize` is a loop with one step per
element, because `HashRank` can throw between two of them and then leaves a half
filled structure whose rebuild flag is as before the call. `Insert` and `Delete`
compute all hashes first, so a throw changes nothing. History variables (`given`,
`complete`, `deletes`) say which set the structure stands for; no guard reads
them. The same history lets the properties speak of the *owner's* set.

### CiphertextStore, OwnerRegisters

Every caller is a program counter with locals. `TryReplace` validates its
arguments before it takes the lock (the code does), then looks up, compares and
assigns under it; `ReadPair` copies the slots one after the other. Lock,
decision, assignment and the copies are separate steps, so mutual exclusion is
what makes the properties true and not the shape of the model: the mutant
`LockAnyway` breaks two of them. `MaxEpoch` is `UINT64_MAX`, and the instance
reaches it. An envelope keeps what the checks tell apart; the payload either
decodes or is `Corrupt`.
`OwnerRegisters` is the promise in four lines: one versioned register per owner
whose version never skips or repeats.

### DynamicRefresh

The composition of `BottomStructure`, encoder, codec and store, for two owners
in any order and with the engine's hash seed changing between calls. The arrays
are those of `BottomStructure` (`INSTANCE`, so `InsertIntoSorted` and `EraseRank`
are the same operators); an operation of the store is one step, which
`CiphertextStore` justifies. The ciphertext is the feature vector and whether it
is normalized: the codec serializes and demands the normal form. The history in a
structure (`members`, `lost`) lets the answer be compared with the plain sets.

### PjsBaseline, ComparatorArithmetic, Sj16, Bcg12

`PjsBaseline` is the promise of a comparator in five actions: a query on two
sets is answered with their similarity or refused, whatever runs beside it.
`ComparatorArithmetic` has the modular power both use. The names of `Sj16`'s
specification begin with `Sj`, those of `CiphertextStore` with `Store` and those of
`RealDatasetLoad` with `Load`, because one proof module extends it together with
another specification.

`Sj16` keeps Paillier as numbers modulo a small `n`, so that the answer really
is the decryption of a product. `RunProtocol` is a program per caller: load the
index, compare and swap, one step per loop iteration in any order, mask,
decrypt. Each iteration may throw (no entropy); the first exception is kept and
the others run on, as in the code. Set-up calls happen while no query is open,
because they assign members without synchronization; each may be cut short by
an exception at the points where the code may throw, and what it leaves is used
by later queries.

`Bcg12` keeps the groups as the subgroup of order `Q` of `Z_P*`. The six loops of
`RunDgt12` are OpenMP regions: a thread owns a static chunk of iterations and
each iteration's call into the group is two steps, entering it with a context
and leaving it, so that calls of different threads overlap. A thread beyond the
pool takes the fallback under its mutex and raises the flag. An exception that
leaves a region ends the process (`aborted`).
The constants are numbers like those of the code: `P` and `Q` are primes and `Q` divides
`P - 1`, as `FFGroup::ValidateParams` requires (`GroupAssumption`); some retry of the
hash is accepted and the hash has no collision among the items that may occur
(`HashAssumption`); elements, seeds and ranks are unsigned (`InputAssumption`).

### RealDatasetLoad

Publisher and loader of one directory. The publisher writes a staged directory,
renames the old one away and the new one in, and may fail or be killed between.
The loader opens the directory by name once per file, each a step; what it
checks (manifest, checksums, record and pair rows) is `ManifestAccepted`,
`RecordsAccepted` and `PairsAccepted`. `ExactJaccard` is the merge loop of the code,
pass by pass (`Passes`), so that the property about it is one about the loop. File
contents are parsed values; a checksum is the content it is of. Integer tokens are
narrowed to `int` as the code does.

### CalibrationArithmetic, PiccardParams

`CalibrationArithmetic` is shared by `PiccardParams` and `SlotCircuits`: powers of
two, the shape of the Paterson-Stockmeyer evaluation (step, chunks, baby and
giant depth for the Horner and the tree mode), the bits of flooding noise. It is
written with recursive functions, not RECURSIVE operators, so that it can be
used in modules with proofs.

`PiccardParams` is one object: `p` holds the fields the snapshot covers, `sized`
and `valid` the two flags, `snapshot` the copy. `via` remembers which selector
made the selection. Actions are the calls that assign something before they
return or throw: `Validate` is derivation, then selection, and when the selection
throws the derived fields stay. Writes to public fields between calls are the
actions `SetShape`, `SetMode`, `Poke` and so on. The selection from the table
goes through the rows in table order, skips those that are infeasible, and stops
at any other failure, as `SelectFloodingParams` does. The schema-v2 row source
of `SelectFloodingParams` is off in the default build and not modelled; the
selection from pre-threshold contracts is.

### PiccardLifecycle

One protocol object. What OpenFHE and the calibration contribute is drawn once
as `config`: the ring dimension OpenFHE picks, the largest one that packs, how
the contract compares with the library version and the live context, whether
the budget fits. A call is one step, but where it can throw there is an outcome
for each point it can throw at, with exactly the members assigned before it:
`Rejected` is the set of contexts an exception in
`BFVContext::InitializeContextOnly` can leave. `PiccardEngine` is a separate
kind because it replaces hasher and context on every `Initialize` and writes
`ring_dim` after selection.

### SlotCircuits

A ciphertext is its `ring_dim` plaintext slots modulo `plaintext_mod` and its
multiplicative depth. `Rotate` has both layouts an implementation can give (one
cycle of slots, or two rows of half the ring), since the code asks only for
rotations by powers of two below the ring dimension. The ring is the one
`PiccardParams` derives, the modulus the first prime `FindPlaintextModulus` finds
(its search ends after 999 999 candidates, and `CircuitInit` asks that it found
one), the polynomial the one `BuildThresholdPoly` builds with modular inverses.
Each pass of a loop of rotations is a step. `EvaluatePolynomial` follows
`EvalPolyBFV` product by product, so that depth is counted where it is spent.
Noise is left out here: that its budget fits is `PiccardParams`' and
`PiccardLifecycle`'s subject.

### Table9Sweep

The sweep runner as a sequence of invocations on one results root. Every write
of run.json, the plan, the matrix copy and a receipt is a step; the process may
end before any of them (`Interrupted`), and between invocations a receipt may be
lost or run.json become unreadable (`Damage`), for which the script has code.
A provenance is a model value with the commands it plans and the matrix it
hashes. An invocation may accept a changed provenance. The script replaces
run.json by a rename, so a crash does not tear it; the plan, the copies and the
receipts can be torn. A dry run writes its plan to the same root, over the plan
that a resume compares with, and may be cut short after `open` has emptied the
file. History variables, which no guard reads, remember what the properties
compare with: the provenances used, the cells an invocation found finished
(`done`), the cells whose receipt was lost and that were not recorded since
(`lost`), and whether the plan is what a dry run cut short left (`cut`).

### RevisionRun

The orchestrator of the revision matrix: phases with their STARTED and COMPLETED
records, events and receipts per cell, `--resume` with its whole repair (archive,
cut phases, cut and renumber events, correct receipts, move stale directories,
rewrite run.json), the structural checks of the verifier, and the seal from the
runner or by hand. Every write is a step and may be cut short, which leaves the
file `Torn`. Identity and provenance of a resume equal those of the run: any
other is refused before the root is touched.

### MC modules

`MC<Module>` extends its module with the definitions its `.cfg` needs (small
sets, a table, symmetry). They replace no definition. Two of them put two
systems that share nothing side by side, so that one run checks both: a behaviour
of `MCDynamicParts` is one of the bottom structure or one of the store, a behaviour
of `MCBenchmarks` one of the sweep runner or one of the dataset's publisher and
loader. Their next-state relations list the actions of both systems.

## 3. Runs

All passing runs are exhaustive on their instance. Numbers are distinct states.

| run | states | shows |
|---|---|---|
| `dynamic_parts` | 29 434 (symmetry) | the structure: four elements, two coordinates, depth two, every order of ranks, two colliding rank functions; every sequence of rebuilds (also cut short), inserts and deletes. The store: two threads, two owners and a stranger, epochs up to the largest, two parameter sets and two crypto bindings, one corrupt payload |
| `refresh` | 1 074 412 | two owners, three elements, two seeds whose ranks disagree; the first pair, one replacement by each owner, and five calls besides |
| `sj16` | 65 176 | two callers, a pool of four randomizers, universes of one and two, five set-up calls and queries, entropy failing anywhere |
| `bcg12` | 344 606 | up to three threads against pools of one to three contexts, both groups and modes, sets with and without repetitions, fixed and random exponents |
| `circuits` | 34 172 | all pairs of small signatures for the one-hot and sqrt circuits in both layouts; for polynomials of degree 1 to 9 every number of matches against every tau from 0 to k+1 in both giant-step modes; polynomials of degree 55 and 63 |
| `lifecycle` | 15 352 | three kinds of objects, all consistent configurations with ring dimensions 4, 8, 16; two seeds, two key pairs |
| `params` | 39 552 | one object against a seven-row table with four shapes, four targets, five modes, two overrides, two harness rows, contract lists of up to three rows |
| `benchmarks` | 1 912 719 | the sweep: four invocations with four provenances, dry runs among them, two cells, two damaged files. The datasets: two prepared directories and two dozen others that differ from them in one respect, replaced or removed between any two reads |
| `revision` | 224 820 | three invocations, three cells in two phases (one not spawned), one lost receipt, torn writes everywhere |

Three more runs, `bottom_signature`, `circuit_depth` and `table9_receipts`, expect a
violation (section 4).

**Properties.**

* `dynamic_parts`, structure: `NoForeignRank` (arrays only hold ranks of present elements, even
  with colliding ranks), `MissingBehindPrefix` (each deletion eats at most one
  position of the exact prefix), `SignatureExact` (with fewer than `D` deletions
  the signature is the MinHash), `InsertOnlyCanonical` (insertion order and
  batching leave no trace), `SignatureDefined` (no empty array is read).
* `dynamic_parts`, store: `EpochCountsApplied` (no lost or double win), `PairEvaluable`,
  `NoTornRead`, `RejectionTruthful` (a repeated upload is told the truth and
  can never succeed later), `ImplementsRegisters` (refinement).
* `refresh`: `OneSeedMeets` (signatures of two hash seeds are never stored, read
  or evaluated together), `AnswerOfSets` (a decrypted count is that of the plain
  sets, for owners that deleted fewer than `D` elements).
* `sj16`: `RandomizerOnce` (no pool entry in two ciphertexts), `SjAnswersExactly`
  (refinement of `PjsBaseline`), `SjQueriesEnd` (liveness).
* `bcg12`: `ContextExclusive`, `OverflowSurfaces` (a query that used the fallback
  context is not answered), `AnswersExactly` (refinement), `QueriesEnd` (liveness).
* `benchmarks`, datasets: `OneGeneration` (what is returned under the manifest of a
  preparation is that preparation's files), `PairsMeasurable` (ends of a pair
  name one record each, the merge gives the Jaccard similarity, buckets fit the
  universe).
* `circuits`: `MatchesExact`, `DecisionExact`, `OtherSlotsConstant` (no partial
  count outside slot 0 after a threshold evaluation), `DepthProvisioned` (the
  separately written depth formula is the depth used, but for degree 1 and the
  `Excess` of section 4; that the formula bounds the depth, as the comments say,
  is `DepthWithinFormula`, which `circuit_depth` refutes).
* `lifecycle`: `UsableVerified`, `RotationsCover` (rotation keys
  come with a key pair and its multiplication key and reach the ring of the
  parameters, also in an object that can do no more than `EncryptFeature`; where
  `Encrypt` works they are the plan of its context), `KeysStay`.
* `params`: `FloodingCovered` (the bound belongs to a row measured for the input
  fields as they are now), `SmudgingDominates` (it covers the target by its
  meaning, without wrap-around), `AdoptionExact` (an adopted ring is the measured
  one and as large as the inputs call for), `LookupComplete` (an infeasible
  cheaper row, a failed call or an earlier selection does not hide a feasible
  row).
* `benchmarks`, sweep: `AttributedUnlessLost` (a COMPLETED record of run.json is the
  receipt of its cell, unless that receipt was lost and the cell not recorded
  since), `MixedTold` (a run that ends with a cell of another provenance, by its
  record or by a receipt that was never lost, says so), `RecordedWorkKept` (no cell
  runs again that the invocation found finished: by record and receipt, or by the
  receipt where run.json was unreadable), `ResumesOnceArchived` (a refusal has one
  of the reasons it lists).
* `revision`: `VerifiesLikeFresh` (what reaches the verification passes its
  structural checks and counts every producer once), `NothingDestroyed` (a whole
  record leaves a stream only for `superseded/`), `SealedStaysVerified`.

**Why the bounds are enough.**

* `dynamic_parts`, structure: with depth two, four elements are the fewest that let an array
  overflow, lose a rank to the trim, lose two to deletions and admit a later,
  larger one (the counterexample of section 4 needs four). The ranks of one
  coordinate are fixed, a renaming of the elements gives the others; two
  coordinates are needed because the rebuild flag is shared. The proofs of
  section 6 remove the bounds.
* `dynamic_parts`, store: a race needs two callers; a third adds no interleaving of a
  kind two do not have, since each operation holds one lock once. Epoch 2 is the
  largest, reached after two uploads. Proved for any number (section 6).
* `refresh`: three elements and depth two let a trimmed rank, a deletion and an
  insertion meet. The first pair and one replacement are the two ways into the
  store, and five calls let both owners build, change the seed, update and build
  again. Both properties are proved without bounds.
* `sj16`: a pool of four entries holds one query of a universe of two and not
  two, or two of a universe of one: the last block is raced for and exhaustion
  happens. The moduli are 33 and 55, so that one drawn mask fits the larger only
  and the forced mask equals the smaller.
* `bcg12`: three threads against a pool of one are two threads that want the
  fallback. Hash retries, the curve's rejection and the field's identity all
  occur among three items. `ContextExclusive` and `OverflowSurfaces` are proved for
  any number of threads.
* `benchmarks`, datasets: the loader reads four files, so two preparations suffice for every
  mixture of two generations; a third would be one more of a kind. Both properties
  are proved for any directories.
* `circuits`: the shapes make the base of the sqrt encoding 2 and 4, give one,
  two and three coordinates, exact and padded rings, and bucket values beyond
  `m`. Degrees 1 to 9 cover one to four chunks of the Paterson-Stockmeyer
  evaluation, odd and even numbers of them, and chunks of full and partial
  length; 55 and 63 are the first degrees deeper than the formula.
  All four properties are proved for any signatures, shapes, rings and degrees.
* `lifecycle`: rings 4, 8 and 16 around a requested 4 make OpenFHE's choice and
  the calibrated dimension smaller, equal and larger in all combinations. Two
  key pairs are the fewest that can show a replacement. Proved for all of them.
* `params`: the table has each situation of the real one: a cheapest row that
  is infeasible, a row measured at a larger ring, keys of equal ring and
  different security level, and a tree circuit whose depth collides with
  a Horner row. Targets are one that fits, one that does not, an unsupported
  one, and one whose sum passes `MaxBits` (`UINT32_MAX` in the code). All four
  properties are proved for any table, shapes and targets.
* `benchmarks`, sweep: two cells suffice for mixed runs, four invocations for a fresh
  run, an accepted change, a return to the first provenance and one more, or a
  dry run; two damages lose both receipts, or one and run.json. All four properties
  are proved for any number of them. The four
  provenances differ from the first in nothing a plan or matrix shows, in the
  plan, or in the matrix.
* `revision`: two phases let an early phase owe a cell while a later one is
  complete; a resume of a resume needs three invocations. All three properties are
  proved for any number of cells, phases, invocations and faults.

`CHECK_DEADLOCK FALSE` is set where the system really stops: a circuit has
answered, an object has its keys, a process was aborted, or the bound on calls or
invocations is used up.

## 4. What the runs found

Three runs check a sentence of the repository that the code does not keep; they are
`violation` runs with a finding each in `PROJECT.json`.

* `bottom_signature`: a *usable* structure may return a signature that is not
  the MinHash of the set (`bottom_structure.h` says the front is the smallest
  value). After `d` deletions interleaved with insertions an array is nonempty,
  so no rebuild is asked for, but the ranks that were trimmed earlier are
  missing. The positive statement, `SignatureExact`, is exact: fewer than `d`
  deletions since `Initialize`.
* `circuit_depth`: the evaluation of a threshold polynomial may be deeper than the
  depth formula, which the comments say bounds it (`bfv_context.cpp:645-647`) and
  matches it (`params.h:46-52`, `params.cpp:796`). `EvalPolyBFV` makes the powers of `x`
  by squaring the half and multiplying odd ones by `x`, so `x^7` takes one product
  more in sequence than `x^8`, while formula and comment count that of `x^s`. Degree
  55 is the first with Horner, 63 with the tree; both are in the run. The
  degrees for which noise was calibrated, powers of two up to 256, are not
  affected. The positive statement, `DepthProvisioned`, is exact above degree 1: the
  depth used is the formula's plus `Excess`.
* `table9_receipts`: a sweep can end COMPLETED and unmarked while a receipt says that
  its cell was measured under another provenance, although the script promises to
  say so loudly (`run_table9_sweep.py:556-559`). It takes a lost receipt of a
  recorded cell, an accepted change under which the cell runs again, the end of
  that invocation between receipt and run.json, and a resume under the first
  provenance: it keeps the old record beside the new receipt, since only status and
  cell of the two are compared (lines 516-533). The positive statement, `MixedTold`,
  speaks of the records, and of the receipts that were never lost.

Behaviours met while modelling that limit what a property can claim. None of
them breaks a promise in the words of the repository beyond doubt, so none is a
finding:

* `KeyGen` called again after a rejected context generates keys on it
  (`piccard.cpp:31`, `bfv_context.cpp:392`). Such an object still cannot encrypt,
  because its encoder is missing: `UsableVerified` holds.
* `Validate` after `ValidateSqrt` on one object fails although a feasible one-hot
  row exists, since `sqrt_feature_dim` is never reset
  (`params_calibration.cpp:49`). `LookupComplete` is the statement without that
  history.
* Revision: a run that ends after the last receipt of a phase and before its
  COMPLETED record is not resumed (`run_revision_benchmarks.py:654,894,932`), and
  the attempt leaves `superseded/attempt-1` behind, on which later attempts stop.
* `ParseIntStrict` reads a label as `long long` and narrows it, so a label of
  2^32 + 1 is read as 1 (`real_dataset.cpp:185`). Preparations write small labels.
* A publication that replaces a directory has a moment without one, and a loader
  then fails; a failure to rename the old one away leaves the staged directory.
  `OneGeneration` speaks of loads that succeed.
* `SetHashSeed` of BCG12 builds the hasher even if `Setup` was not called; it says
  it does nothing then (`bcg12.h:33`). No query can tell.
* Two empty sets: `ExactJaccard` gives 0, the comparators give 1.
* The overflow check of `EcGroup` before each exponent draw sees every overflow
  only because the schedule is static (the proof in section 6 shows where this is
  used), and a test that fixes the exponents skips it.
* `PiccardEngine::ComputeJaccardDynamic` compares two structures without a check
  of their seeds (`piccard_engine.cpp:111`); only tests build this class.
* The depth formula provides one level more than needed for a polynomial of
  degree 1 (two provided, one used) and for the sqrt circuit (three, two used);
  `DepthProvisioned` claims equality elsewhere.
* Table IX: a process that ends between run.json (line 475) and the copy of the
  matrix (line 498) leaves a root that every later invocation refuses, because
  the fresh branch is not taken again. A dry run over a live root that is cut
  short has emptied or truncated `planned_argv.jsonl` (lines 382-384), and a resume of
  the very provenance that was planned is refused until a whole dry run writes
  the plan again (459-463). After an accepted change of threads the plan is still
  the first one, and a resume of the recorded provenance is refused. No text
  promises otherwise; `ResumesOnceArchived` names these reasons and excludes others.
* Revision: streams and receipts are rewritten in place, so a write cut short
  loses records that were to be kept; `NothingDestroyed` excludes torn files.
  A resume refuses a torn stream, except a torn receipt, whose cell runs again.
* Revision: when the seal is installed and the write of its checksum fails,
  `run()`'s handler still marks run.json FAILED, under a seal that holds its
  digest. `SealedStaysVerified` speaks of streams and receipts.

## 5. Fairness and liveness

`Sj16` and `Bcg12` have fairness and a liveness property. Inside a query the code
runs on by itself: a thread in the loop, in a group call or between two steps of
the protocol is not waiting for anybody but the scheduler, so each is weakly fair
(`WF_sjVars(Step(c))` in `SjFairness`; `WF_vars(CallStep(t))`, `WF_vars(Advance)` in
`Bcg12`). Nobody must make a call: set-up calls, `RunProtocol`, `RunQuery` and
leaving are not fair. That queries end (`SjQueriesEnd`, `QueriesEnd`) is then not
obvious: the compare-and-swap of SJ16 may lose its race
and repeat, and ends only because each loss means that another query took a
block of a finite pool; a thread of BCG12 waits for the fallback's mutex, which a
fair holder leaves. Weak fairness on the waiting thread suffices because a team
runs finitely many calls; `std::mutex` promises no more.

The other specifications have no fairness, and no liveness is claimed of them.
The protocol library schedules nothing: no thread of it must ever take a step.
The store promises no upload success to a particular owner (a caller
with a stale epoch is told so and has to ask again). The runners are started by
hand; that an operator resumes a run is no promise of the code. What could be a
progress claim is stated as safety instead: that no resume is refused for a
reason inside the run (`ResumesOnceArchived`), that a feasible row is found by the
call that looks for it (`LookupComplete`), and deadlock freedom, which TLC
checks for the store, the structure and the parameters.

## 6. Proofs

A proof module extends the modules it is about and TLAPS. All assumptions are
the named ASSUMEs of the modules; TLC evaluates them in every run.
`PROJECT.json` lists the theorems a reader should know.

| proof module | about |
|---|---|
| `BottomStructureProofs` | `BottomStructure` |
| `ProtocolProofs` | `PiccardLifecycle`, `CiphertextStore` |
| `DynamicRefreshProofs` | `DynamicRefresh` |
| `ComparatorProofs` | `Bcg12`, `Sj16` |
| `PiccardProofs` | `CalibrationArithmetic`, `PiccardParams`, `SlotCircuits` |
| `BenchmarkProofs` | `Table9Sweep`, `RealDatasetLoad` |
| `RevisionRunProofs` | `RevisionRun` |
| `ArithmeticLemmas` | recursion, residues, primes up to Fermat's theorem and values of polynomials, used by all but the first three |

**Bottom structure** — any finite set of elements, any `K` and `D`, any
ranks. `SignatureExact` is not inductive: it says nothing of the ranks behind
the front. `IInv` is `TypeOK`, `NoForeignRank`, `MissingBehindPrefix`,
`SignatureDefined` and what the loop of `Initialize` has done so far. The
heart is `MissingBehindPrefix`: a rank of the set that an array lacks has at
least `D - deletes` smaller ranks in it. `InsertDropsAboveFull` and
`InsertKeepsPrefix` say what admission and trimming do to the number of smaller
ranks; a deletion takes at most one away, and the rank it takes must not be
another present element's (where the hypothesis `CollisionFree` is used).
`SignatureExact` and `InsertOnlyCanonical` follow from `IInv` alone.

**Protocol objects** — any configurations, seeds and bound on key pairs.
`UsableVerified` mentions keys and encoder together; inductive are two
statements. Outside the engine, the encoder alone witnesses a verified context,
because it is assigned last (`EncoderLast`). The engine may put a new context
under an old encoder; there, `EngineRealized` says keys exist only on a verified
context of the dimension the current parameters realize, and `RealizedAgain`
that realizing a realized dimension changes nothing. `KeysInOrder` relates the
three kinds of keys and the ring dimension they cover, and with it gives
`RotationsCover`. `KeysStay` is the action property:
with a key, every call but `SetHashSeed` is refused.

**Ciphertext store** — any number of callers, names, bindings and payloads,
any largest epoch. `StoreIInv` adds `MutexInv` (exactly the holder is inside)
and `DecisionStands` (at the assignment, the comparison made earlier still holds of
the slot) to the checked properties. `DecisionStands` is what turns "checked,
then assigned" into one atomic step, and is the reason for the refinement
theorem `StoreImplementsRegisters`: `Assign` maps to `Install`, every other
step to a stutter.

**Refresh** — any owners, elements, ranks and seeds. `OneSeedMeets`
rests on two checks in different objects: `Encrypt` refuses a structure of
another seed, so an envelope names the seed of the signature in it
(`EnvelopesHonest`), and the store compares what envelopes name (`OneSeedStored`).
`CountsOfSets` proves `AnswerOfSets` from the same lemmas on one array as
`BottomStructureProofs`: `Faithful` says of a structure what `IInv` says there, now
with the seed and the set carried in the structure. Build, insert and delete keep
it (`SmallestRanksFill`, `InsertFaithful`, `DeleteFaithful`). A faithful structure
with fewer than `D` deletions encrypts to the buckets of its set
(`SignatureOfSet`), which `Exact` says of every ciphertext in the outbox, the slots
and a read pair. `RankAssumption` bounds the ranks, and `CollisionFree` is, as
there, a premise of the property.

**Parameters** — any table, shapes, targets, overrides and contracts.
`FloodingAlwaysCovered`: a selection made by `Validate` is covered when it is made
(`RowCovers`), the snapshot copies it, adoption changes nothing coverage depends
on (`AdoptionCovers`), and `FloodNoiseBits` compares the object with the snapshot.
The invariant speaks of the *snapshot*, not of the object, since field writes
may change the object at any time.

`AdoptionAlwaysExact` needs that each of the three selectors stores a calibrated
dimension at least as large as the one asked for (`RowDimensioned`,
`CandidateDimensions`, `ContractDimensioned`). The selectors check it of every row
but the threshold rows of the built-in table, for which it is the assumption
`RingAssumption`.

`SmudgingAlwaysDominates` is about two's powers: `CeilLog2(v)` counts the shifts
that bring `v - 1` to zero, and the flooding bits add such counts. `ShiftsBound`
(`x < 2^Shifts(x)`) and `Pow2Sum` turn the sum of bits into the product of queries
and ring dimension it has to cover (`ProductBound`). `InputAssumption` gives the
callers' inputs their unsigned types.

`LookupAlwaysComplete` follows the loop over the rows: no row before the feasible
one throws (`NoRowThrows`), so one is chosen (`FeasibleIsChosen`), whatever the
object's history. `GeneratedTableAssumption` is what this needs of the built-in
table: its one-hot and sqrt rows are powers of two, deep enough, and their bits sum
below `MaxBits`. A row that broke it would make the selector throw on it instead of
skipping it.

**Circuits** — any instances, shapes, signatures, rings and layouts.
`MatchesAlwaysExact` rests on one statement about every slot, kept by every rotation:
a slot holds the number of ones of the product in the window of slots it was summed
from (`Counts`). `WindowDoubles` says that a rotation by the window's length joins two
windows that do not overlap, in either layout, also where the window reaches over
the end of a row; `RotatedLinear` adds up what is in them. The modulus is above twice
the ring dimension, so no sum wraps around. For the two-digit encoding windows are
first as long as a digit; the product with the rotation by `Base` then leaves a one
in the first slot of a block exactly where both digits agree (`DigitsAnded`), and only
slots at multiples of a block matter from there on, whatever the others hold. There
are as many first slots as agreeing coordinates (`FirstSlotsCount`), and the window is
the ring at the end (`WholeCount`).

`DecisionAlwaysExact`, `OtherSlotsAlwaysConstant` and `DepthAlwaysProvisioned` come from a
second invariant, `DecisionIInv`, on top of that one: the polynomial is an indicator of
`tau .. k` (`Decides`), the mask leaves the count in slot 0 and zeros elsewhere, and every
stage has taken the levels `DepthOfStage` says. `Decides` holds from the start on, by
interpolation modulo a prime. The search for `p` returns a prime above `k`
(`ModulusFound`), so Euclid's coefficient of a difference of two points is its inverse
(`InverseExact`, by `EuclidDivides`: the coefficients express common divisors, and a prime
has only 1); a basis polynomial is 1 at its point and 0 at the other points
(`FactorValue`, `BasisInterpolates`), and the sum over the accepted points, in whatever
order it is taken, decides (`PartialDecides`, `PolynomialDecides`).

The evaluation is followed product by product. `Holds(c, i, v)` says that slot `i` of
`c` is `v` modulo `p`; `Run(f, lo, x)[n]` is the value at `x` of the `n` coefficients of
`f` from `lo` on. A power holds `x^j` (`PowersHold`), a chunk the run of its own
coefficients (`ChunkHolds`), and both ways to combine chunks join neighbouring runs
(`RunSplitAt`): `HornerHolds` from the last chunk down, `TreeHolds` for every range that
the tree cuts out, since a range is cut at a power of two and the right part is multiplied by
just that giant step (`CutShape`, `GiantsHold`). The same inductions bound the depth from
both sides: the upper bound has the deepest power (`DeepestPower`) where the formula has
`x^s`, and the difference is `Excess`, so the theorem holds for the degrees where the
formula falls short (section 4) as well. For degree 1 there is one chunk and `x^s` is
never used, which is why equality is claimed above degree 1 only.

**Comparators** — SJ16: any number of callers, any universe, pool and set-up
history. `RandomizerOnce` is not inductive; the invariant says that the blocks of
open queries are disjoint (`BlocksDisjoint`), that nothing beyond `pool_index_` was
used (`RestUnused`) and that the entries of the iterations still to run are unused
(`BlocksUnused`). BCG12: any number of threads, any pool, groups and sets.
`NeverShared`: a context is held only inside the thread's own iterations
(`OnlyInLoops`), and those beyond the pool hold the fallback one at a time
(`FallbackAlone`). `OverflowTold`: a thread that has an iteration of a later loop had
one of the hash loop over the same items, because the schedule is static, so the
flag is up before the first exponent draw (`Telling`).

`SjImplements` is the refinement of `PjsBaseline` by SJ16: any callers, sets, primes,
pools and histories of set-up calls that succeed or fail. Its invariant `SjFit` says,
of an object that no failed set-up has damaged, that the key is one of two primes
(`KeyFits`), that the pool holds powers of nonces of that modulus (`PoolFits`), and that a
query holds, at every position whose iteration is over, a ciphertext of the indicator
(`VectorFits`). `Encrypts(c, s, n, l)` is what the steps carry: `c` to the power `l` is
`1 + l * s * n` modulo `n * n`. Of a nonce it is that its `n`-th power vanishes under
`l` (`NonceInvisible`, from Fermat's theorem modulo each prime and from the binomial
expansion of `(1 + n * t)^n` modulo the square), of a product that the messages add
(`ProductEncrypts`, and over the loop `ProductAtIs`), and of decryption that it
returns the message (`DecryptIs`; `mpz_invert`'s result is an inverse because
`LambdaInvertible` is what `KeyGen` checks). The masked shares then add up to the number
of common elements (`SharesAddUp`), which is below the modulus (`SharedIsSmall`). What
it assumes is `Sj16Assumption` (what `DrawHalfBitPrime` returns is prime; nonces and
elements are naturals) and `UniverseAssumption` (a universe is a number of 32 bits, a
modulus has 1024 or more). Fermat's theorem is in `ArithmeticLemmas`: the rows of
Pascal's triangle (`Binomial`), whose inner entries a prime row has as multiples of the
prime (`PascalPrimeRow`), give `(x + 1)^p` and from it `x^p` (`Fermat`).

`BcgImplements` is the refinement of the same `PjsBaseline` by BCG12: any sets, ranks,
groups, exponents, shuffles and team. Its invariant `Fit` says of a query in progress:
an iteration of the loop under way has left its value or is still some thread's
(`Looped`), the vectors of the loops that are over hold what their names say (`Kept`), the
exponents drawn so far are units and the order drawn is a permutation (`Drawn`), and the
items are the listing of the two sets under the seed in force when it began
(`Admissible`). Then every element of a vector is its item's hash under the exponents so
far, in some order of the items. The loops cover the indices since the static chunks
do (`PartsCover`), and a shuffle is a permutation (`ShuffleOrders`), so the number of
indices with a property is the same before and after (`ReorderedCount`). Of the group it
takes that the inverse exponent undoes the blinding (`Unblinded`) and that different
elements stay different under a unit (`BlindedApart`), both from the order of the
elements. Hence tags agree exactly where items do (`TagsMatch`), and what is counted is
the cardinality, or the number of coordinates, the promise names (`CommonIsOwed`).

**Table IX** — any number of cells, provenances, invocations and faults,
all four properties from one invariant: what an invocation knows at each place
(`Placed`), that finished work is in the manifest in memory before the loop reaches
its cell, of what the disk says now (`Kept`) and of what the invocation found
(`Found`, for `RecordedWorkKept`), that receipts which were not lost back the
COMPLETED records on disk and in memory (`Attributed`), in the loop the failed ones
too (`Matched`, for the receipts of `MixedTold`), and that what a refusal compares with
was left by an earlier invocation or by a dry run cut short (`Left`). A lost receipt
is no exception by fiat: a cell leaves `lost` with its next record, and the
invariant holds of it again. The model values of `ProvenanceAssumption` keep a
missing or torn plan apart from every list of commands. A run has at least one cell (`CellAssumption`), and a file's
content is never taken for a missing one (`FileAssumption`).

**Datasets** — any directories, features of any number and size. `LoadsOneGeneration`:
whatever the directory's name meant at each read, the contents in memory at the
end have the checksums of the manifest that was read first (`Witnessed`), and a
preparation's manifest was verified against its files before it was published
(`RealDatasetAssumption`). `LoadedPairsMeasurable` has the merge at its heart. The loop
invariant `LoopHolds` says after any number of passes: what lies before the two
positions has been counted, equal elements once (`Counted`), and lies below
everything after them (`Between`); a pass moves on by at least one and keeps this
(`MovesOn`, `PassKeeps`). At the end of one list the counts are the cardinalities of
the intersection and the union (`MembersCounted`, `MergeIsJaccard`).
`ContentAssumption` types what a parser returned.

**Revision** — any number of cells, phases, invocations and faults. At rest nothing
can be said of the files: each may be torn or end anywhere. `IInv` therefore says,
of each place of the program, what is on disk *there*. What a resume has read
is consistent with run.json step by step: the streams are readable
(`StreamsOK`), the phase stream is cut to whole phases (`PhasesTell`), the events to
those of complete cells (`RepairTells`), and from the end of the repair on every
complete cell has a receipt that names its two events by their numbers
(`CellsTell`). A phase is left only when its cells are complete (`NothingOwed`).
`VerifiesLikeFresh` follows at the place the verification reads the disk. The
hardest step is the renumbering: `CutEvents` keeps a subsequence, whose ranks are the
new numbers, and the receipts still name the old ones until each is corrected
(`Listed`, `CutEventsTell`, `BoundSurvives`); two events of one cell stay first and
second because ranks grow (`RankGrows`). `NothingDestroyed` needs that a step that cuts
finds what it cuts archived (`ArchiveHolds`), and `SealedStaysVerified` that after
verification only records of the last two phases are written (`VerifiedAt`).
`FileAssumption`: None and Torn are not contents.

**Recursion.** The induction theorems of the library cannot be instantiated with the
installed provers, but recursion can still be reasoned about: `ArithmeticLemmas` shows that
a recursive function obeys its equation, along the naturals (`RecursiveFunctionExists`)
or along a measure (`MeasuredFunctionExists`: the pairs of Euclid's algorithm, the subsets
of a sum, the ranges of the tree), and properties of it follow by its least
counterexample (`LeastNatural`), or with the set of arguments they hold for
(`InductiveSet`, `MeasuredInduction`). Powers, shifts, the passes of the merge loop and the
whole polynomial evaluation are treated so.

**Only model-checked.**

* `SjQueriesEnd` and `QueriesEnd`: liveness under fairness is out of the prover's
  reach.

## 7. What is not modelled

* **OpenFHE and OpenSSL**: encryption, noise growth and serialized bytes are
  theirs. Models take the outcomes (a ciphertext decodes or not, a context has
  this ring dimension) as choices.
* **Public ciphertext codec**: that a ciphertext is accepted only under its own
  context and key is in `CiphertextStore`, the normal form in `DynamicRefresh`;
  fingerprints and bytes are OpenFHE's.
* **Schema-v2 calibration** inside `SelectFloodingParams`: off in the default
  build.
* **32-bit products of shapes** (`k * m`, `params.cpp:783`): the shapes of the
  benchmarks are far below the width.
* **SJ16, BCG12**: timing and byte counts; the primality of what OpenSSL returns;
  hashes, tags and encodings are injective.
* **Exact truth, deletion-survival analysis**: closed formulas and simulations in
  floating point, no state; the *event* whose probability is analysed (all `d`
  ranks of an array deleted) is in `BottomStructure`.
* **Datasets**: preprocessing of the raw corpora (text) and the summary
  statistics (floating point).
* **Benchmark drivers, adapters, verifiers, summarizers**: parsing, measurement
  and output around the calls that are modelled, and read-only checks.
* **Revision matrix and invocation plan**: a fixed table and its validation;
  the runners' models take the cells as constants.
* **Revision runner**: dry-run, dataset bindings, and the comparison of identity
  and provenance, which only refuse before the root is touched; `resume.jsonl`,
  which only the seal reads; the checks of the families' artifacts in the
  verifier, which fail at will in the model.
* **Table IX**: refusals before the root is opened; `events.jsonl`, which is
  written and never read for a decision.

## 8. Plan

Done, in this order: bottom structure, store with its abstract specification,
parameters, lifecycle, circuits, Table IX, revision; then the composition
`DynamicRefresh`, the comparators with their common promise and their liveness,
the datasets; proofs of everything the runs check of these, except the two liveness
properties.

1. `DynamicRefresh` with the store's steps in place of its atomic operations.
2. The schema-v2 row source of `SelectFloodingParams`, once a build uses it.
