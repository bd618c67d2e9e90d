--------------------------- MODULE RealDatasetLoad ---------------------------
(***************************************************************************)
(* The processed datasets: a directory of four files, written by           *)
(* write_processed_output (scripts/prepare_real_datasets.py) and read by   *)
(* LoadRealDataset (src/data/real_dataset.cpp), which opens the directory  *)
(* by name once per file while a preparation may replace it by two         *)
(* renames, fail, or be killed. What is loaded feeds the exact similarity  *)
(* of real_dataset_metrics.cpp.                                            *)
(*                                                                         *)
(* A file is its parsed content: strict says that its bytes pass           *)
(* StrictDataLines and SplitTab, a number below zero stands for a token    *)
(* that is no unsigned integer, and a checksum is the content it is the    *)
(* checksum of (SHA-256 taken as injective).                               *)
(***************************************************************************)
EXTENDS Integers, Sequences, FiniteSets

CONSTANTS
    Foreign,        \* directories somebody put together by hand, good and bad
    Prepared,       \* directories the preparation can produce
    Absent,         \* no such file or directory
    SafePaths,      \* relative paths without '.', '..', '\' or symbolic link
    IntBits         \* width of int; long long has twice as many

ASSUME RealDatasetAssumption ==
    /\ IntBits \in Nat \ {0}
    /\ Absent \notin Foreign \cup Prepared
    \* write_processed_output verifies the checksums before it publishes
    /\ \A g \in Prepared : LET m == g["dataset.manifest.tsv"] IN
          \A role \in {"source", "records", "pairs"} : g[m.files[role]] = m.sums[role]

\* A file of records or of pairs, parsed: a count or feature may be out of range.
Rows == [id : STRING, rawCount : Int, raw : Seq(Int), bucketedCount : Int, bucketed : Seq(Int)]
Pairs == [id : STRING, a : STRING, b : STRING, kind : STRING, label : Int]
ASSUME ContentAssumption ==
    \A d \in Foreign \cup Prepared : LET m == d["dataset.manifest.tsv"] IN
        /\ m.universe \in Int
        /\ m.sums["records"] \in [strict : BOOLEAN, rows : Seq(Rows)]
        /\ m.sums["pairs"] \in [strict : BOOLEAN, rows : Seq(Pairs)]

VARIABLES
    dir,            \* what output_dir names
    backup, staged, \* the publisher's .old and .tmp siblings
    publisher,      \* "idle", "staged", "away", "in"
    loader,         \* "idle" or the next file, then "parse", "loaded" or "failed"
    got             \* the bytes read so far, by role

loadVars == <<dir, backup, staged, publisher, loader, got>>
publication == <<dir, backup, staged, publisher>>

Members(s) == {s[i] : i \in DOMAIN s}

-----------------------------------------------------------------------------
(* Parsing and validation *)

Unsigned(v) == v >= 0

\* ParseIntStrict: read as long long, then narrowed to int.
ReadableInt(v) == v \in -(2 ^ (2 * IntBits - 1)) .. 2 ^ (2 * IntBits - 1) - 1
Narrow(v) == ((v + 2 ^ (IntBits - 1)) % (2 ^ IntBits)) - 2 ^ (IntBits - 1)

\* Mutant: repeated features are let through.
NonDecreasing(s) == \A i \in 2 .. Len(s) : s[i - 1] <= s[i]
StrictlyIncreasing(s) == \A i \in 2 .. Len(s) : s[i - 1] < s[i]
Distinct(rows) == \A i, j \in DOMAIN rows : rows[i].id = rows[j].id => i = j

DropKeys(dataset) ==
    IF dataset = "enron" THEN {"charset_or_mime", "empty_body", "short_body", "duplicate_copy", "duplicate_message_id"}
    ELSE {"empty_features_dblp", "empty_features_acm"}

EnronUniverse == [enron_u65536 |-> 65536, enron_u1048576 |-> 1048576]

\* The optional fields are N/A for DBLP-ACM and positive for Enron.
VariantAccepted(m) ==
    \/ /\ m.dataset = "dblp_acm" /\ m.variant = "dblp_acm_u65536" /\ m.version = "dblp-acm-trigram-v1"
       /\ m.proxy = "none" /\ m.limits = <<>>
    \/ /\ m.dataset = "enron" /\ m.variant \in DOMAIN EnronUniverse /\ m.version = "enron-shingle5-v2"
       /\ m.universe = EnronUniverse[m.variant]
       /\ m.proxy = "canonical-subject-proxy-not-thread-ground-truth-v1"
       /\ m.positives = 0
       /\ Len(m.limits) = 2 /\ \A i \in 1 .. 2 : m.limits[i] > 0

\* Everything LoadRealDataset demands before it opens another file. A key that is
\* missing, unknown or given twice fails; the other counters need only parse.
ManifestAccepted(m) ==
    /\ m.strict /\ m.schema = "piccard-real-processed-v1"
    /\ VariantAccepted(m)
    /\ m.dropped = DropKeys(m.dataset)
    /\ m.universe > 0
    /\ \A v \in {m.recordCount, m.pairCount, m.positives} \cup Members(m.counters) : Unsigned(v)

\* ResolveManifestRelativePath
Resolves(path) == path \in SafePaths /\ dir # Absent /\ path \in DOMAIN dir

FeaturesAccepted(count, features) ==
    /\ Unsigned(count) /\ \A v \in Members(features) : Unsigned(v)
    /\ Len(features) = count
    /\ StrictlyIncreasing(features)

RecordsAccepted(f, m) ==
    /\ f.strict /\ Distinct(f.rows) /\ Len(f.rows) = m.recordCount
    /\ \A i \in DOMAIN f.rows : LET r == f.rows[i] IN
          /\ r.id # "" /\ FeaturesAccepted(r.rawCount, r.raw) /\ FeaturesAccepted(r.bucketedCount, r.bucketed)
          /\ \A v \in Members(r.bucketed) : v < m.universe

KindLabel(dataset) == IF dataset = "enron" THEN [thread_related |-> -1, cross_thread |-> -1]
                      ELSE [known_match |-> 1, sampled_nonmatch |-> 0]

PairsAccepted(f, m, ids) ==
    /\ f.strict /\ Distinct(f.rows) /\ Len(f.rows) = m.pairCount
    /\ \A i \in DOMAIN f.rows : LET p == f.rows[i] IN
          /\ p.id # "" /\ {p.a, p.b} \subseteq ids
          /\ p.kind \in DOMAIN KindLabel(m.dataset)
          /\ ReadableInt(p.label) /\ Narrow(p.label) = KindLabel(m.dataset)[p.kind]

-----------------------------------------------------------------------------
(* The preparation *)

LoadInit == /\ dir \in Foreign \cup Prepared \cup {Absent}
            /\ backup = Absent /\ staged = Absent
            /\ publisher = "idle"
            /\ loader = "idle" /\ got = <<>>

\* The staging directory is written and verified beside the output.
Stage(g) == /\ publisher = "idle"
            /\ staged' = g /\ publisher' = "staged"
            /\ UNCHANGED <<dir, backup, loader, got>>

RenameAway == /\ publisher = "staged" /\ dir # Absent
              /\ backup' = dir /\ dir' = Absent /\ publisher' = "away"
              /\ UNCHANGED <<staged, loader, got>>

RenameIn == /\ publisher = "away" \/ (publisher = "staged" /\ dir = Absent)
            /\ dir' = staged /\ staged' = Absent
            /\ publisher' = IF publisher = "away" THEN "in" ELSE "idle"
            /\ UNCHANGED <<backup, loader, got>>

\* The handler puts the old directory back, unless that rename fails too. A staging
\* directory that is left has a name no later run looks for.
RenameFails == /\ publisher \in {"staged", "away"}
               /\ IF publisher = "away" THEN dir' \in {backup, Absent} ELSE UNCHANGED dir
               /\ backup' = Absent /\ staged' = Absent /\ publisher' = "idle"
               /\ UNCHANGED <<loader, got>>

RemoveBackup == /\ publisher = "in"
                /\ backup' = Absent /\ publisher' = "idle"
                /\ UNCHANGED <<dir, staged, loader, got>>

\* The process dies. Its siblings stay, under names no later run looks for.
Killed == /\ publisher # "idle"
          /\ publisher' = "idle" /\ backup' = Absent /\ staged' = Absent
          /\ UNCHANGED <<dir, loader, got>>

Publish == (\E g \in Prepared : Stage(g)) \/ RenameAway \/ RenameIn \/ RenameFails \/ RemoveBackup \/ Killed

-----------------------------------------------------------------------------
(* The loader *)

Fail == loader' = "failed" /\ got' = <<>>
With(role, content) == [r \in DOMAIN got \cup {role} |-> IF r = role THEN content ELSE got[r]]

ReadManifest ==
    /\ loader = "idle"
    /\ IF dir # Absent /\ ManifestAccepted(dir["dataset.manifest.tsv"])
       THEN loader' = "resolve" /\ got' = With("manifest", dir["dataset.manifest.tsv"])
       ELSE Fail
    /\ UNCHANGED publication

ResolvePaths ==
    /\ loader = "resolve"
    /\ IF \A role \in {"source", "records", "pairs"} : Resolves(got.manifest.files[role])
       THEN loader' = "source" /\ UNCHANGED got
       ELSE Fail
    /\ UNCHANGED publication

NextRole == [source |-> "records", records |-> "pairs", pairs |-> "parse"]

\* Mutant: no checksum is compared.
ReadFileUnchecked(role) ==
    /\ loader = role
    /\ LET path == got.manifest.files[role] IN
          IF dir # Absent /\ path \in DOMAIN dir
          THEN loader' = NextRole[role] /\ got' = With(role, dir[path])
          ELSE Fail
    /\ UNCHANGED publication

\* ReadFileBytes and the comparison with the manifest's checksum.
ReadFile(role) ==
    /\ loader = role
    /\ LET path == got.manifest.files[role] IN
          IF dir # Absent /\ path \in DOMAIN dir /\ dir[path] = got.manifest.sums[role]
          THEN loader' = NextRole[role] /\ got' = With(role, dir[path])
          ELSE Fail
    /\ UNCHANGED publication

\* The bytes in memory are parsed; no file is opened again.
Parse ==
    /\ loader = "parse"
    /\ IF /\ RecordsAccepted(got.records, got.manifest)
          /\ PairsAccepted(got.pairs, got.manifest, {r.id : r \in Members(got.records.rows)})
       THEN loader' = "loaded" /\ UNCHANGED got
       ELSE Fail
    /\ UNCHANGED publication

LoadAgain == /\ loader \in {"loaded", "failed"}
             /\ loader' = "idle" /\ got' = <<>>
             /\ UNCHANGED publication

Load == ReadManifest \/ ResolvePaths \/ (\E role \in DOMAIN NextRole : ReadFile(role)) \/ Parse \/ LoadAgain

LoadNext == Publish \/ Load

LoadSpec == LoadInit /\ [][LoadNext]_loadVars

-----------------------------------------------------------------------------
(* real_dataset_metrics.cpp *)

\* The while loop of ExactJaccard: the positions reached, intersection_size and
\* union_size. It ends with either vector.
Begin == [i |-> 1, j |-> 1, both |-> 0, any |-> 0]
Pass(a, b, s) ==
    IF s.i > Len(a) \/ s.j > Len(b) THEN s
    ELSE [i |-> IF a[s.i] <= b[s.j] THEN s.i + 1 ELSE s.i,
          j |-> IF b[s.j] <= a[s.i] THEN s.j + 1 ELSE s.j,
          both |-> IF a[s.i] = b[s.j] THEN s.both + 1 ELSE s.both,
          any |-> s.any + 1]
Passes(a, b) == LET after[n \in Nat] == IF n = 0 THEN Begin ELSE Pass(a, b, after[n - 1])
                IN after

\* What is left of either vector counts into the union.
ExactJaccard(a, b) ==
    LET end == Passes(a, b)[Len(a) + Len(b)]
        union == end.any + (Len(a) + 1 - end.i) + (Len(b) + 1 - end.j)
    IN IF union = 0 THEN <<0, 1>> ELSE <<end.both, union>>

\* JaccardBucketLabel, by its upper ends in tenths.
JaccardBucketLabel(f) == CASE 10 * f[1] < f[2] -> "b00_10" [] 10 * f[1] < 3 * f[2] -> "b10_30"
                           [] 10 * f[1] < 6 * f[2] -> "b30_60" [] OTHER -> "b60_100"

-----------------------------------------------------------------------------
(* Properties *)

Loaded == loader = "loaded"

\* A dataset that is returned under the manifest of a preparation is that
\* preparation's: its source manifest, records and pairs, although the directory
\* may have been renamed away and replaced between any two reads
\* (real_dataset.cpp:497-510, "checksum mismatch").
OneGeneration == Loaded => \A g \in Prepared :
    g["dataset.manifest.tsv"] = got.manifest
    => \A role \in DOMAIN NextRole : got[role] = g[got.manifest.files[role]]

RecordsNamed(id) == {r \in Members(got.records.rows) : r.id = id}
SetJaccard(x, y) == IF x \cup y = {} THEN <<0, 1>> ELSE <<Cardinality(x \cap y), Cardinality(x \cup y)>>
MeasuredRight(p) ==
    \A r \in RecordsNamed(p.a), s \in RecordsNamed(p.b) :
        /\ ExactJaccard(r.raw, s.raw) = SetJaccard(Members(r.raw), Members(s.raw))
        /\ ExactJaccard(r.bucketed, s.bucketed) = SetJaccard(Members(r.bucketed), Members(s.bucketed))
        /\ Members(r.bucketed) \cup Members(s.bucketed) \subseteq 0 .. got.manifest.universe - 1
        /\ JaccardBucketLabel(ExactJaccard(r.bucketed, s.bucketed)) = "b60_100"
             => Cardinality(Members(r.bucketed) \cap Members(s.bucketed)) > 0

\* Every pair that is returned can be measured: each end names one record, the
\* merge over its features gives the Jaccard similarity of the two sets, and the
\* buckets fit the universe a comparator is set to (real_dataset.h LoadRealDataset,
\* real_dataset_metrics.h ExactJaccard).
PairsMeasurable == Loaded => \A p \in Members(got.pairs.rows) :
    /\ \A id \in {p.a, p.b} : \E i \in DOMAIN got.records.rows :
          \A j \in DOMAIN got.records.rows : (got.records.rows[j].id = id) <=> (i = j)
    /\ MeasuredRight(p)
===============================================================================
