--------------------------- MODULE BenchmarkProofs ---------------------------
(***************************************************************************)
(* The two programs around the benchmarks: the Table IX sweep runner and   *)
(* the loader of real datasets.                                            *)
(*                                                                         *)
(* Sweep: for any number of cells, provenances, invocations and faults, the*)
(* four properties of the runner.  The invariant says what an invocation   *)
(* knows at each place of the script (Placed), that finished work is in    *)
(* its manifest before the loop reaches the cell, by what is on disk now   *)
(* (Kept) and by what it found (Found), that receipts which were not lost  *)
(* back the records of run.json and of the manifest in memory (Attributed, *)
(* Matched), and that the files a refusal rests on were written by an      *)
(* earlier invocation (Left).                                              *)
(*                                                                         *)
(* Loader: for any directories, and features of any number and size, a     *)
(* load is of one generation and its pairs can be measured. The invariant  *)
(* says that what is in memory was read under one directory's manifest and *)
(* has the contents that manifest tells (Witnessed). That the merge of     *)
(* ExactJaccard computes the similarity of two sets is the invariant of    *)
(* its loop (Reached, Counted, Between): what lies before the two          *)
(* positions is counted and lies below what comes after.                   *)
(***************************************************************************)
EXTENDS Table9Sweep, RealDatasetLoad, FiniteSetTheorems, ArithmeticLemmas, TLAPS

Working == {"cells", "running", "record"}
Places == {"idle", "plan", "manifest", "matrix", "revalidate"} \cup Working

\* Every COMPLETED record of m is the receipt of its cell, if that was not lost.
Backed(m) == \A c \in Cells \ lost :
    Completed(m.cells[c]) => HasEvidence(c) /\ receipt[c] = m.cells[c]

Typed ==
    /\ receipt \in [Cells -> Records \cup {None, Torn}]
    /\ run \in Manifests \cup {None, Corrupt}
    /\ pc \in Places
    /\ cell \in Nat \ {0}
    /\ used \subseteq Provenances /\ done \subseteq Cells
    /\ pc # "idle" => /\ manifest \in Manifests
                      /\ manifest.prov = env /\ env \in used
                      /\ refused = None

\* What the invocation knows at each place.
Placed ==
    /\ pc \in {"plan", "manifest"} => run \notin Manifests
    /\ pc \in {"matrix", "revalidate"} => run \in Manifests /\ run.cells = manifest.cells
    /\ pc \notin Working \cup {"idle"} => cell = 1
    /\ pc \in Working => /\ run \in Manifests
                         /\ \A c \in Cells : c < cell => manifest.cells[c] # None
    /\ pc \in {"running", "record"} => cell \in Cells /\ manifest.cells[cell] = None
    /\ pc = "running" => receipt[cell] = None
    /\ pc = "record" => receipt[cell] \in Records

\* Finished work is in the manifest before its cell's turn.
Kept == pc \in Working => \A c \in Cells :
    /\ Completed(run.cells[c]) /\ HasEvidence(c)
    /\ ~(pc = "record" /\ c = cell)
    => manifest.cells[c] # None

\* So is what the invocation found finished.
Found == \A c \in done :
    /\ pc \in Places \ (Working \cup {"idle"}) =>
           HasEvidence(c) /\ Completed(manifest.cells[c])
    /\ pc \in Working => manifest.cells[c] # None

Attributed == /\ run \in Manifests => Backed(run)
              /\ pc # "idle" => Backed(manifest)

\* In the loop this is so of the failed records too.
Matched == pc \in Working => \A c \in Cells \ lost :
    manifest.cells[c] # None => receipt[c] = manifest.cells[c]

\* The files an invocation is refused by were left by one before it.
Commands == {Command[q] : q \in used}
Matrices == {Matrix[q] : q \in used}
Left ==
    /\ pc = "manifest" => planned \in Commands
    /\ run \in Manifests => run.prov \in used /\ (planned \in Commands \/ cut)
    /\ matrix \in {None, Torn} \cup Matrices

IInv == /\ Typed /\ Placed /\ Kept /\ Found /\ Attributed /\ Matched
        /\ Left /\ ResumesOnceArchived

-----------------------------------------------------------------------------
(* Manifests *)

\* What a manifest is made of; it is no missing or unreadable file.
LEMMA ManifestFields ==
    ASSUME NEW m \in Manifests
    PROVE  /\ m.prov \in Provenances /\ m.cells \in [Cells -> Records \cup {None}]
           /\ m.state \in States /\ m.mixed \in BOOLEAN
           /\ m # None /\ m # Corrupt
BY FileAssumption DEF Manifests

\* A new manifest.
LEMMA FreshManifest ==
    ASSUME NEW q \in Provenances, NEW cells \in [Cells -> Records \cup {None}]
    PROVE  /\ Fresh(q, cells) \in Manifests
           /\ Fresh(q, cells).prov = q /\ Fresh(q, cells).cells = cells
           /\ Fresh(q, cells).state = "STARTED"
BY DEF Fresh, Manifests, States

\* A manifest put under another provenance.
LEMMA Relabelled ==
    ASSUME NEW m \in Manifests, NEW q \in Provenances
    PROVE  LET n == [m EXCEPT !.prov = q]
           IN  n \in Manifests /\ n.prov = q /\ n.cells = m.cells /\ n.state = m.state
BY DEF Manifests

\* A manifest with other records.
LEMMA WithCells ==
    ASSUME NEW m \in Manifests, NEW cells \in [Cells -> Records \cup {None}]
    PROVE  LET n == [m EXCEPT !.cells = cells]
           IN  n \in Manifests /\ n.prov = m.prov /\ n.cells = cells /\ n.state = m.state
BY DEF Manifests

\* The manifest with the finished cell recorded.
LEMMA RecordedManifest ==
    ASSUME manifest \in Manifests, cell \in Cells, receipt[cell] \in Records
    PROVE  /\ Recorded \in Manifests /\ Recorded.prov = manifest.prov
           /\ Recorded.state = "RUNNING"
           /\ Recorded.cells = [manifest.cells EXCEPT ![cell] = receipt[cell]]
BY DEF Recorded, Manifests, States

\* The manifest at the end of the loop.
LEMMA FinishedManifest ==
    ASSUME manifest \in Manifests
    PROVE  /\ Finished \in Manifests
           /\ Finished.prov = manifest.prov /\ Finished.cells = manifest.cells
           /\ Finished.mixed = (manifest.mixed \/ (Seen(manifest) # {} /\ Seen(manifest) # {env}))
<1> DEFINE s == IF \E c \in Cells : manifest.cells[c].status = "FAILED" THEN "FAILED" ELSE "COMPLETED"
           b == manifest.mixed \/ (Seen(manifest) # {} /\ Seen(manifest) # {env})
<1>1. s \in States /\ b \in BOOLEAN
  BY DEF States, Manifests
<1>2. Finished = [manifest EXCEPT !.state = s, !.mixed = b]
  BY DEF Finished
<1> HIDE DEF s
<1>3. [manifest EXCEPT !.state = s, !.mixed = b] \in Manifests
  BY <1>1 DEF Manifests
<1> QED BY <1>1, <1>2, <1>3 DEF Manifests

-----------------------------------------------------------------------------
(* One invocation *)

\* A start of an invocation, whatever it finds.
LEMMA OpenKeeps ==
    ASSUME IInv, NEW q \in Provenances, Open(q),
           \/ \E m \in Manifests :
                /\ m.prov = q /\ Proceed("plan", m) /\ run \notin Manifests
                /\ \A c \in Cells : Completed(m.cells[c]) => HasEvidence(c) /\ receipt[c] = m.cells[c]
                /\ \A c \in Done : Completed(m.cells[c])
           \/ \E m \in Manifests :
                /\ m.prov = q /\ Proceed("matrix", m)
                /\ run \in Manifests /\ m.cells = run.cells
           \/ Refuse("plan") /\ run \in Manifests /\ run.prov = q /\ planned # Command[q]
           \/ Refuse("provenance") /\ run \in Manifests /\ run.prov # q
    PROVE  IInv'
<1>1. Typed'
  BY DEF IInv, Typed, Open, Refuse, Proceed, disk, Places, Done
<1>2. Placed'
  BY DEF IInv, Typed, Placed, Open, Refuse, Proceed, disk, Working
<1>3. Kept' /\ Matched'
  BY DEF Kept, Matched, Open, Refuse, Proceed, Working
<1>4. Found'
  <2>1. \A c \in Done : HasEvidence(c) /\ (run \in Manifests => Completed(run.cells[c]))
    BY FileAssumption DEF Done
  <2>2. done' = Done /\ UNCHANGED <<run, receipt>> /\ pc' \in {"idle", "plan", "matrix"}
    BY DEF Open, Refuse, Proceed, disk
  <2>3. \A c \in Done : pc' # "idle" => Completed(manifest'.cells[c])
    BY <2>1 DEF Refuse, Proceed
  <2> QED BY <2>1, <2>2, <2>3 DEF Found, HasEvidence, Readable, Completed, Working
<1>5. Attributed'
  BY DEF IInv, Attributed, Backed, Completed, HasEvidence, Readable, Open, Refuse, Proceed, disk
<1>6. Left'
  BY DEF IInv, Typed, Left, Open, Refuse, Proceed, disk, Commands, Matrices
<1>7. ResumesOnceArchived'
  <2>1. CASE refused' = None
    BY <2>1, ProvenanceAssumption DEF ResumesOnceArchived
  <2>2. CASE refused' # None
    <3>1. /\ run.prov \in used' /\ q \in used' /\ used \subseteq used' /\ cut' = cut
          /\ planned \in Commands \/ cut
          /\ \/ refused' = "plan" /\ planned # Command[q]
             \/ refused' = "provenance" /\ run.prov # q
      BY <2>2 DEF IInv, Left, Open, Refuse, Proceed
    <3>2. refused' = "plan" => cut' \/ \E s \in used' : Command[s] # Command[q]
      BY <3>1 DEF Commands
    <3> QED BY <3>1, <3>2 DEF ResumesOnceArchived
  <2> QED BY <2>1, <2>2
<1> QED BY <1>1, <1>2, <1>3, <1>4, <1>5, <1>6, <1>7 DEF IInv

LEMMA OpeningKeeps ==
    ASSUME IInv, NEW q \in Provenances, NEW accept \in BOOLEAN,
           StartFresh(q) \/ StartRebuilding(q) \/ ResumeSame(q) \/ ResumeChanged(q, accept)
    PROVE  IInv'
<1>1. CASE StartFresh(q)
  <2>1. NoCells \in [Cells -> Records \cup {None}]
    BY DEF NoCells
  <2>2. \A c \in Cells : ~Completed(Fresh(q, NoCells).cells[c])
    BY <2>1, FreshManifest DEF NoCells, Completed
  <2>3. Done = {} /\ run \notin Manifests
    BY <1>1, FileAssumption DEF Done, StartFresh
  <2> QED BY <1>1, <2>1, <2>2, <2>3, FreshManifest, OpenKeeps DEF StartFresh
<1>2. CASE StartRebuilding(q)
  <2>1. RebuiltCells \in [Cells -> Records \cup {None}]
    BY DEF RebuiltCells, IInv, Typed, HasEvidence, Readable
  <2>2. \A c \in Cells : Completed(Fresh(q, RebuiltCells).cells[c]) =>
            HasEvidence(c) /\ receipt[c] = Fresh(q, RebuiltCells).cells[c]
    BY <2>1, FreshManifest DEF RebuiltCells, Completed
  <2>3. \A c \in Done : Completed(Fresh(q, RebuiltCells).cells[c])
    BY <2>1, FreshManifest DEF RebuiltCells, Completed, Done, HasEvidence
  <2>4. run \notin Manifests
    BY <1>2, FileAssumption DEF StartRebuilding
  <2> QED BY <1>2, <2>1, <2>2, <2>3, <2>4, FreshManifest, OpenKeeps DEF StartRebuilding
<1>3. CASE ResumeSame(q)
  BY <1>3, OpenKeeps DEF ResumeSame, IInv, Typed
<1>4. CASE ResumeChanged(q, accept)
  <2>1. run \in Manifests
    BY <1>4 DEF ResumeChanged, IInv, Typed
  <2> QED BY <1>4, <2>1, Relabelled, OpenKeeps DEF ResumeChanged
<1> QED BY <1>1, <1>2, <1>3, <1>4

\* A dry run adds a plan, or empties it, and a provenance, and leaves the rest.
LEMMA DryRunKeeps == ASSUME IInv, NEW q \in Provenances, DryRun(q) PROVE IInv'
<1>1. Typed' /\ Placed' /\ Kept' /\ Found' /\ Attributed' /\ Matched'
  BY DEF IInv, Typed, Placed, Kept, Found, Attributed, Matched, Backed, Completed, HasEvidence,
         Readable, Working, DryRun
<1>2. Left'
  BY DEF IInv, Left, DryRun, Commands, Matrices
<1>3. ResumesOnceArchived'
  BY ProvenanceAssumption DEF ResumesOnceArchived, DryRun
<1> QED BY <1>1, <1>2, <1>3 DEF IInv

\* Up to the matrix.
LEMMA PlanKeeps == ASSUME IInv, WritePlan \/ WriteManifest PROVE IInv'
<1> USE DEF WritePlan, WriteManifest, Local, SameHistory
<1>1. Typed' /\ Placed'
  BY DEF IInv, Typed, Placed, Working, Places
<1>2. Kept' /\ Found' /\ Matched'
  BY DEF IInv, Kept, Found, Matched, Completed, HasEvidence, Readable, Working, Places
<1>3. Attributed'
  BY DEF IInv, Attributed, Backed, Completed, HasEvidence, Readable
<1>4. Left'
  BY DEF IInv, Typed, Placed, Left, Commands, Matrices
<1>5. ResumesOnceArchived'
  BY ProvenanceAssumption DEF IInv, Typed, ResumesOnceArchived
<1> QED BY <1>1, <1>2, <1>3, <1>4, <1>5 DEF IInv

LEMMA MatrixKeeps == ASSUME IInv, ArchiveMatrix \/ CheckMatrix PROVE IInv'
<1> USE DEF ArchiveMatrix, CheckMatrix, Proceed, Refuse, Local, SameHistory, disk
<1>1. Typed' /\ Placed'
  BY DEF IInv, Typed, Placed, Working, Places
<1>2. Kept' /\ Found' /\ Matched'
  BY DEF IInv, Kept, Found, Matched, Completed, HasEvidence, Readable, Working, Places
<1>3. Attributed'
  BY DEF IInv, Attributed, Backed, Completed, HasEvidence, Readable
<1>4. Left'
  BY DEF IInv, Typed, Left, Commands, Matrices
<1>5. ResumesOnceArchived'
  <2>1. refused' \in {None, "matrix"}
    BY DEF IInv, Typed
  <2>2. CASE refused' = None
    BY <2>2, ProvenanceAssumption DEF ResumesOnceArchived
  <2>3. CASE refused' = "matrix" /\ refused' # None
    <3>1. /\ matrix' = matrix /\ matrix # Matrix[env]
          /\ matrix \in {None, Torn} \cup Matrices /\ env \in used /\ used' = used
      BY <2>3 DEF IInv, Typed, Left
    <3> QED BY <2>3, <3>1 DEF Matrices, ResumesOnceArchived
  <2> QED BY <2>1, <2>2, <2>3
<1> QED BY <1>1, <1>2, <1>3, <1>4, <1>5 DEF IInv
-----------------------------------------------------------------------------
(* The cells *)

\* None of these steps touches what a refusal rests on.
LEMMA CellsLeave ==
    ASSUME IInv, pc # "idle", Local, UNCHANGED <<planned, matrix, refused, cut>>,
           run' = run \/ (run' \in Manifests /\ run'.prov = env /\ run \in Manifests),
           pc' # "manifest"
    PROVE  Left' /\ ResumesOnceArchived'
<1>1. Left'
  BY DEF IInv, Typed, Left, Local, Commands, Matrices
<1>2. ResumesOnceArchived'
  BY DEF IInv, ResumesOnceArchived, Local
<1> QED BY <1>1, <1>2

LEMMA RevalidateKeeps == ASSUME IInv, Revalidate PROVE IInv'
<1> DEFINE kept == [c \in Cells |-> IF Completed(manifest.cells[c]) /\ HasEvidence(c)
                                    THEN manifest.cells[c] ELSE None]
<1>1. manifest \in Manifests /\ run \in Manifests /\ run.cells = manifest.cells
  BY DEF IInv, Typed, Placed, Revalidate
<1>2. kept \in [Cells -> Records \cup {None}]
  BY <1>1, ManifestFields
<1>3. /\ manifest' \in Manifests /\ manifest'.prov = manifest.prov /\ manifest'.cells = kept
      /\ pc' = "cells" /\ UNCHANGED <<run, planned, matrix, receipt, cell, refused, lost, cut>>
      /\ Local
  BY <1>1, <1>2, WithCells DEF Revalidate, disk, SameHistory
<1>4. \A c \in Cells : kept[c] = IF Completed(run.cells[c]) /\ HasEvidence(c) THEN run.cells[c] ELSE None
  BY <1>1
<1> HIDE DEF kept
<1>5. Typed'
  BY <1>3 DEF IInv, Typed, Revalidate, Local, Places, Working
<1>6. \A c \in Cells : HasEvidence(c)' <=> HasEvidence(c)
  BY <1>3 DEF HasEvidence, Readable
<1>7. \A c \in Cells : Completed(run.cells[c]) /\ HasEvidence(c) => kept[c] # None
  BY <1>4 DEF Completed
<1>8. \A c \in Cells : kept[c] # None => Completed(run.cells[c]) /\ kept[c] = run.cells[c]
  BY <1>4
<1>9. Backed(run)
  BY <1>1 DEF IInv, Attributed
<1>10. Kept'
  BY <1>3, <1>6, <1>7 DEF Kept, Completed
<1>11. Found'
  <2>1. \A c \in done : c \in Cells /\ HasEvidence(c) /\ Completed(run.cells[c])
    BY <1>1 DEF IInv, Typed, Found, Revalidate, Places, Working
  <2> QED BY <1>3, <1>7, <2>1 DEF Found, Local, Working
<1>12. Attributed'
  BY <1>3, <1>6, <1>8, <1>9 DEF Attributed, Backed, Completed
<1>13. Matched'
  BY <1>3, <1>8, <1>9 DEF Matched, Backed
<1>14. Placed'
  <2>1. cell = 1 /\ ~(\E c \in Cells : c < cell)
    BY DEF IInv, Typed, Placed, Revalidate, Working, Cells
  <2> QED BY <1>1, <1>3, <2>1 DEF Placed, Working
<1>15. Left' /\ ResumesOnceArchived'
  BY <1>3, CellsLeave DEF Revalidate
<1> QED BY <1>5, <1>10, <1>11, <1>12, <1>13, <1>14, <1>15 DEF IInv

LEMMA SkipKeeps == ASSUME IInv, Skip PROVE IInv'
<1> USE DEF Skip, Local, SameHistory, disk
<1>1. Typed' /\ Kept' /\ Attributed'
  BY DEF IInv, Typed, Kept, Attributed, Backed, Completed, HasEvidence, Readable, Working, Places
<1>2. Found' /\ Matched'
  BY DEF IInv, Found, Matched, Completed, HasEvidence, Readable, Working
<1>3. Placed'
  BY DEF IInv, Typed, Placed, Working, Cells
<1>4. Left' /\ ResumesOnceArchived'
  BY CellsLeave
<1> QED BY <1>1, <1>2, <1>3, <1>4 DEF IInv

LEMMA StartCellKeeps == ASSUME IInv, StartCell PROVE IInv'
<1>1. /\ receipt \in [Cells -> Records \cup {None, Torn}] /\ cell \in Cells
      /\ pc = "cells" /\ pc' = "running" /\ manifest.cells[cell] = None
      /\ run \in Manifests
      /\ UNCHANGED <<run, planned, matrix, manifest, cell, refused, lost, cut>> /\ Local
  BY DEF IInv, Typed, Placed, StartCell, Working, SameHistory
<1>2. /\ receipt'[cell] = None
      /\ \A c \in Cells : c # cell => receipt'[c] = receipt[c]
      /\ receipt' \in [Cells -> Records \cup {None, Torn}]
  BY <1>1 DEF StartCell
<1>3. /\ ~HasEvidence(cell)'
      /\ \A c \in Cells : c # cell => (HasEvidence(c)' <=> HasEvidence(c))
  BY <1>1, <1>2 DEF HasEvidence, Readable
<1>4. Typed'
  BY <1>1, <1>2 DEF IInv, Typed, Local, Places, Working
<1>5. Placed'
  BY <1>1, <1>2 DEF IInv, Placed, Working
<1>6. Kept'
  BY <1>1, <1>3 DEF IInv, Kept, Working, Completed
<1>7. Found'
  BY <1>1 DEF IInv, Found, Working, Local
<1>8. Attributed'
  <2>1. Backed(run) /\ Backed(manifest)
    BY <1>1 DEF IInv, Attributed
  <2>2. ~Completed(manifest.cells[cell])
    BY <1>1 DEF Completed
  <2>3. cell \notin lost => ~Completed(run.cells[cell])
    BY <1>1, <2>1 DEF IInv, Kept, Backed, Working
  <2> QED BY <1>1, <1>2, <1>3, <2>1, <2>2, <2>3 DEF Attributed, Backed, Completed
<1>9. Matched'
  BY <1>1, <1>2 DEF IInv, Matched, Working
<1>10. Left' /\ ResumesOnceArchived'
  BY <1>1, CellsLeave
<1> QED BY <1>4, <1>5, <1>6, <1>7, <1>8, <1>9, <1>10 DEF IInv

LEMMA EndCellKeeps == ASSUME IInv, EndCell PROVE IInv'
<1>1. /\ receipt \in [Cells -> Records \cup {None, Torn}] /\ cell \in Cells
      /\ pc = "running" /\ pc' \in {"record", "idle"} /\ manifest.cells[cell] = None
      /\ receipt[cell] = None /\ run \in Manifests
      /\ pc' = "record" => manifest' = manifest
      /\ UNCHANGED <<run, planned, matrix, cell, refused, lost, cut>> /\ Local
  BY DEF IInv, Typed, Placed, EndCell, Working, SameHistory
<1>2. env \in Provenances
  BY <1>1 DEF IInv, Typed
<1>3. /\ receipt'[cell] \in Records \cup {Torn} /\ (pc' = "record" => receipt'[cell] \in Records)
      /\ \A c \in Cells : c # cell => receipt'[c] = receipt[c]
      /\ receipt' \in [Cells -> Records \cup {None, Torn}]
  BY <1>1, <1>2 DEF EndCell, Records
<1>4. \A c \in Cells : c # cell => (HasEvidence(c)' <=> HasEvidence(c))
  BY <1>1, <1>3 DEF HasEvidence, Readable
<1>5. Typed'
  BY <1>1, <1>3 DEF IInv, Typed, Local, Places, Working
<1>6. Placed'
  BY <1>1, <1>3 DEF IInv, Placed, Working
<1>7. Kept'
  BY <1>1, <1>4 DEF IInv, Kept, Working, Completed
<1>8. Found'
  BY <1>1 DEF IInv, Found, Working, Local
<1>9. Attributed'
  <2>1. Backed(run) /\ Backed(manifest)
    BY <1>1 DEF IInv, Attributed
  <2>2. ~Completed(manifest.cells[cell]) /\ (cell \notin lost => ~Completed(run.cells[cell]))
    BY <1>1, <2>1 DEF Completed, Backed, HasEvidence, Readable
  <2> QED BY <1>1, <1>3, <1>4, <2>1, <2>2 DEF Attributed, Backed, Completed
<1>10. Matched'
  BY <1>1, <1>3 DEF IInv, Matched, Working
<1>11. Left' /\ ResumesOnceArchived'
  BY <1>1, CellsLeave
<1> QED BY <1>5, <1>6, <1>7, <1>8, <1>9, <1>10, <1>11 DEF IInv

LEMMA RecordCellKeeps == ASSUME IInv, RecordCell PROVE IInv'
<1>1. /\ cell \in Cells /\ receipt[cell] \in Records /\ manifest \in Manifests
      /\ run \in Manifests /\ manifest.prov = env /\ cell \in Nat
      /\ \A c \in Cells : c < cell => manifest.cells[c] # None
      /\ pc = "record" /\ pc' = "cells" /\ cell' = cell + 1 /\ lost' = lost \ {cell}
      /\ UNCHANGED <<planned, matrix, receipt, refused, cut>> /\ Local
  BY DEF IInv, Typed, Placed, RecordCell, Working
<1>2. /\ manifest' \in Manifests /\ run' = manifest' /\ manifest'.prov = env
      /\ manifest'.cells = [manifest.cells EXCEPT ![cell] = receipt[cell]]
  BY <1>1, RecordedManifest DEF RecordCell
<1>3. /\ manifest'.cells[cell] = receipt[cell]
      /\ \A c \in Cells : c # cell => manifest'.cells[c] = manifest.cells[c]
  BY <1>1, <1>2, ManifestFields
<1>4. receipt[cell] \notin {None, Torn}
  BY <1>1, FileAssumption
<1>5. Typed'
  BY <1>1, <1>2 DEF IInv, Typed, Local, Places, Working
<1>6. Placed'
  <2>1. \A c \in Cells : c < cell + 1 => manifest'.cells[c] # None
    BY <1>1, <1>3, <1>4 DEF Cells
  <2> QED BY <1>1, <1>2, <2>1 DEF Placed, Working
<1>7. Kept'
  BY <1>1, <1>2 DEF Kept, Completed
<1>8. Found'
  <2>1. \A c \in done : c \in Cells /\ manifest.cells[c] # None
    BY <1>1 DEF IInv, Typed, Found, Working
  <2> QED BY <1>1, <1>3, <1>4, <2>1 DEF Found, Local, Working
<1>9. Attributed'
  <2>1. \A c \in Cells : HasEvidence(c)' <=> HasEvidence(c)
    BY <1>1 DEF HasEvidence, Readable
  <2>2. Completed(receipt[cell]) => HasEvidence(cell)
    BY <1>4 DEF HasEvidence, Readable
  <2>3. Backed(manifest)
    BY <1>1 DEF IInv, Attributed
  <2> QED BY <1>1, <1>2, <1>3, <2>1, <2>2, <2>3 DEF Attributed, Backed, Completed
<1>10. Matched'
  BY <1>1, <1>3 DEF IInv, Matched, Working
<1>11. Left' /\ ResumesOnceArchived'
  BY <1>1, <1>2, CellsLeave
<1> QED BY <1>5, <1>6, <1>7, <1>8, <1>9, <1>10, <1>11 DEF IInv

LEMMA FinishKeeps == ASSUME IInv, Finish PROVE IInv'
<1>1. /\ manifest \in Manifests /\ manifest.prov = env /\ run \in Manifests
      /\ run' = Finished /\ pc' = "idle" /\ pc = "cells"
      /\ UNCHANGED <<planned, matrix, receipt, cell, refused, lost, cut>> /\ Local
  BY DEF IInv, Typed, Placed, Finish, Working, SameHistory
<1>2. run' \in Manifests /\ run'.prov = env /\ run'.cells = manifest.cells
  BY <1>1, FinishedManifest
<1>3. Typed'
  BY <1>1, <1>2 DEF IInv, Typed, Local, Places
<1>4. Placed' /\ Kept' /\ Found' /\ Matched'
  BY <1>1 DEF Placed, Kept, Found, Matched, Working
<1>5. Attributed'
  BY <1>1, <1>2 DEF IInv, Attributed, Backed, Completed, HasEvidence, Readable
<1>6. Left' /\ ResumesOnceArchived'
  BY <1>1, <1>2, CellsLeave
<1> QED BY <1>3, <1>4, <1>5, <1>6 DEF IInv

-----------------------------------------------------------------------------
(* What ends an invocation and what happens between two *)

LEMMA InterruptedKeeps == ASSUME IInv, Interrupted PROVE IInv'
<1> USE DEF Interrupted, Local, SameHistory, disk
<1>1. Typed' /\ Placed' /\ Kept' /\ Found' /\ Matched'
  BY DEF IInv, Typed, Placed, Kept, Found, Matched, Working, Places
<1>2. Attributed'
  BY DEF IInv, Attributed, Backed, Completed, HasEvidence, Readable
<1>3. Left' /\ ResumesOnceArchived'
  BY CellsLeave
<1> QED BY <1>1, <1>2, <1>3 DEF IInv

LEMMA DamageKeeps == ASSUME IInv, Damage PROVE IInv'
<1> USE DEF Damage
<1>1. Corrupt \notin Manifests
  BY FileAssumption
<1>2. Typed' /\ Placed' /\ Kept' /\ Found' /\ Matched'
  BY <1>1 DEF IInv, Typed, Placed, Kept, Found, Matched, Working, Places
<1>3. Attributed'
  <2>1. SUFFICES ASSUME run' \in Manifests PROVE Backed(run)'
    BY DEF Attributed
  <2>2. run' = run /\ Backed(run)
    BY <1>1, <2>1 DEF IInv, Attributed
  <2>3. CASE UNCHANGED <<receipt, lost>>
    BY <2>2, <2>3 DEF Backed, Completed, HasEvidence, Readable
  <2>4. CASE \E c \in Cells : receipt' = [receipt EXCEPT ![c] = None] /\ lost' = lost \cup {c}
    <3>1. \A d \in Cells \ lost' : d \notin lost /\ receipt'[d] = receipt[d]
      BY <2>4 DEF IInv, Typed
    <3> QED BY <2>2, <3>1 DEF Backed, Completed, HasEvidence, Readable
  <2> QED BY <2>1, <2>3, <2>4
<1>4. Left' /\ ResumesOnceArchived'
  BY <1>1 DEF IInv, Left, ResumesOnceArchived, Commands, Matrices
<1> QED BY <1>2, <1>3, <1>4 DEF IInv

LEMMA StutterKeeps == ASSUME IInv, UNCHANGED vars PROVE IInv'
<1> USE DEF vars, disk
<1>1. Typed' /\ Placed' /\ Kept'
  BY DEF IInv, Typed, Placed, Kept, Completed, HasEvidence, Readable
<1>2. Found' /\ Attributed' /\ Matched'
  BY DEF IInv, Found, Attributed, Matched, Backed, Completed, HasEvidence, Readable
<1>3. Left' /\ ResumesOnceArchived'
  BY DEF IInv, Left, ResumesOnceArchived, Commands, Matrices
<1> QED BY <1>1, <1>2, <1>3 DEF IInv

LEMMA InitIInv == Init => IInv
<1> SUFFICES ASSUME Init PROVE IInv
  OBVIOUS
<1> USE DEF Init
<1>1. Typed /\ Placed /\ Kept /\ Found /\ Matched
  BY DEF Typed, Placed, Kept, Found, Matched, Working, Places
<1>2. Attributed
  BY FileAssumption DEF Attributed
<1>3. Left /\ ResumesOnceArchived
  BY FileAssumption, ProvenanceAssumption DEF Left, ResumesOnceArchived
<1> QED BY <1>1, <1>2, <1>3 DEF IInv

LEMMA NextIInv == IInv /\ [Next]_vars => IInv'
<1> SUFFICES ASSUME IInv, [Next]_vars PROVE IInv'
  OBVIOUS
<1>1. ASSUME NEW q \in Provenances, NEW accept \in BOOLEAN,
             StartFresh(q) \/ StartRebuilding(q) \/ ResumeSame(q) \/ ResumeChanged(q, accept)
      PROVE  IInv'
  BY <1>1, OpeningKeeps
<1>2. ASSUME NEW q \in Provenances, DryRun(q) PROVE IInv'
  BY <1>2, DryRunKeeps
<1>3. CASE WritePlan \/ WriteManifest
  BY <1>3, PlanKeeps
<1>4. CASE ArchiveMatrix \/ CheckMatrix
  BY <1>4, MatrixKeeps
<1>5. CASE Revalidate
  BY <1>5, RevalidateKeeps
<1>6. CASE Skip
  BY <1>6, SkipKeeps
<1>7. CASE StartCell
  BY <1>7, StartCellKeeps
<1>8. CASE EndCell
  BY <1>8, EndCellKeeps
<1>9. CASE RecordCell
  BY <1>9, RecordCellKeeps
<1>10. CASE Finish
  BY <1>10, FinishKeeps
<1>11. CASE Interrupted
  BY <1>11, InterruptedKeeps
<1>12. CASE Damage
  BY <1>12, DamageKeeps
<1>13. CASE UNCHANGED vars
  BY <1>13, StutterKeeps
<1> QED
  BY <1>1, <1>2, <1>3, <1>4, <1>5, <1>6, <1>7, <1>8, <1>9, <1>10, <1>11, <1>12, <1>13 DEF Next

LEMMA SpecIInv == Spec => []IInv
BY InitIInv, NextIInv, PTL DEF Spec

-----------------------------------------------------------------------------
(* Theorems *)

\* A COMPLETED record of run.json is the receipt of its cell, its provenance
\* included; only a cell whose receipt was lost may have an older record.
THEOREM AlwaysAttributed == Spec => []AttributedUnlessLost
<1>1. IInv => AttributedUnlessLost
  BY DEF IInv, Typed, Attributed, AttributedUnlessLost, Backed
<1> QED BY <1>1, SpecIInv, PTL

\* A refusal has a reason: a dry run cut short or a matrix that is missing or cut
\* short, or provenances with other commands, other matrices, or just two of them.
THEOREM RefusedForAReason == Spec => []ResumesOnceArchived
<1>1. IInv => ResumesOnceArchived
  BY DEF IInv
<1> QED BY <1>1, SpecIInv, PTL

\* No invocation runs a cell again that it found finished: by its receipt and its
\* record, or by its receipt where run.json was unreadable.
THEOREM WorkAlwaysKept == Spec => RecordedWorkKept
<1>1. IInv /\ [Next]_vars => [StartCell => cell \notin done]_vars
  BY DEF IInv, Found, Working, StartCell
<1> QED BY <1>1, SpecIInv, PTL DEF Spec, RecordedWorkKept

\* A run that ends with a cell of another provenance, by its record or by a receipt
\* that was never lost, says that it is mixed.
THEOREM MixedAlwaysTold == Spec => MixedTold
<1> DEFINE A == Finish => ((\E c \in Cells : \/ run'.cells[c].id # run'.prov
                                             \/ c \notin lost /\ receipt[c].id # run'.prov)
                           => run'.mixed)
<1>1. ASSUME IInv, Finish,
             NEW c \in Cells, run'.cells[c].id # run'.prov \/ (c \notin lost /\ receipt[c].id # run'.prov)
      PROVE  run'.mixed
  <2>1. /\ manifest \in Manifests /\ manifest.prov = env /\ cell \in Nat /\ cell \notin Cells
        /\ \A d \in Cells : d < cell => manifest.cells[d] # None
        /\ cell # 0 /\ run' = Finished
        /\ c \notin lost => (manifest.cells[c] # None => receipt[c] = manifest.cells[c])
    BY <1>1 DEF IInv, Typed, Placed, Matched, Finish, Working
  <2>2. manifest.cells[c] # None
    BY <2>1, CellAssumption DEF Cells
  <2>3. run'.cells = manifest.cells /\ run'.prov = env
    BY <2>1, FinishedManifest
  <2>4. manifest.cells[c].id \in Seen(manifest) /\ manifest.cells[c].id # env
    BY <1>1, <2>1, <2>2, <2>3 DEF Seen
  <2>5. Seen(manifest) # {} /\ Seen(manifest) # {env}
    BY <2>4
  <2> QED BY <2>1, <2>5, FinishedManifest
<1>2. IInv /\ [Next]_vars => [A]_vars
  BY <1>1
<1> QED BY <1>2, SpecIInv, PTL DEF Spec, MixedTold

-----------------------------------------------------------------------------
(* The loader of real datasets *)

\* In a sorted vector without repeats every later entry is larger.
LEMMA IncreasingThroughout ==
    ASSUME NEW s \in Seq(Int), StrictlyIncreasing(s)
    PROVE  \A i, j \in 1..Len(s) : i < j => s[i] < s[j]
<1> DEFINE S == {j \in Nat : j \in 1..Len(s) /\ \E i \in 1..Len(s) : i < j /\ ~(s[i] < s[j])}
<1>1. SUFFICES ASSUME S # {} PROVE FALSE
  OBVIOUS
<1>2. PICK j \in S : \A k \in S : j <= k
  <2>1. S \subseteq Nat
    OBVIOUS
  <2> QED BY <1>1, <2>1, LeastNatural
<1>3. PICK i \in 1..Len(s) : i < j /\ ~(s[i] < s[j])
  OBVIOUS
<1>4. j \in 2..Len(s) /\ j - 1 \in 1..Len(s) /\ ~(j <= j - 1)
  BY <1>3
<1>5. s[j - 1] < s[j]
  BY <1>4 DEF StrictlyIncreasing
<1>6. i = j - 1 \/ s[i] < s[j - 1]
  BY <1>2, <1>3, <1>4, SMTT(20)
<1>7. s[i] \in Int /\ s[j] \in Int /\ s[j - 1] \in Int
  BY <1>3, <1>4
<1> QED BY <1>3, <1>5, <1>6, <1>7

\* The first i - 1 entries of s.
Front(s, i) == {s[k] : k \in 1..(i - 1)}

\* The entries before a position are as many different ones.
LEMMA FrontCounts ==
    ASSUME NEW s \in Seq(Int), StrictlyIncreasing(s), NEW i \in 1..(Len(s) + 1)
    PROVE  IsFiniteSet(Front(s, i)) /\ Cardinality(Front(s, i)) = i - 1
<1> DEFINE D == 1..(i - 1)
           f == [k \in D |-> s[k]]
<1>1. IsFiniteSet(D) /\ Cardinality(D) = i - 1
  <2>1. 1 \in Int /\ i - 1 \in Int /\ i - 1 \in Nat
    OBVIOUS
  <2>2. IsFiniteSet(1..(i - 1)) /\ Cardinality(1..(i - 1)) = IF 1 > i - 1 THEN 0 ELSE (i - 1) - 1 + 1
    BY <2>1, FS_Interval, Zenon
  <2> QED BY <2>1, <2>2
<1>2. f \in Bijection(D, Front(s, i))
  <2>1. \A k, l \in D : f[k] = f[l] => k = l
    <3>1. \A k, l \in 1..Len(s) : k < l => s[k] < s[l]
      BY IncreasingThroughout
    <3>2. ASSUME NEW k \in D, NEW l \in D, f[k] = f[l] PROVE k = l
      <4>1. k \in 1..Len(s) /\ l \in 1..Len(s) /\ s[k] \in Int /\ s[l] \in Int
        OBVIOUS
      <4>2. ~(k < l) /\ ~(l < k)
        BY <3>1, <3>2, <4>1
      <4> QED BY <4>1, <4>2
    <3> QED BY <3>2
  <2>2. f \in [D -> Front(s, i)] /\ \A t \in Front(s, i) : \E k \in D : f[k] = t
    BY DEF Front
  <2> HIDE DEF f, D
  <2> QED BY <2>1, <2>2 DEF Bijection, Injection, IsInjective, Surjection
<1> HIDE DEF f, D
<1> QED BY <1>1, <1>2, FS_Bijection DEF ExistsBijection

Counts == [i : Int, j : Int, both : Int, any : Int]

\* Passes is the function its recursion describes: n passes of the loop.
LEMMA PassesUnfold ==
    ASSUME NEW a, NEW b
    PROVE  /\ Passes(a, b)[0] = Begin
           /\ \A n \in Nat \ {0} : Passes(a, b)[n] = Pass(a, b, Passes(a, b)[n - 1])
<1> DEFINE prev == [n \in Nat |-> n - 1]
           next == [n \in Nat |-> [t \in Counts |-> Pass(a, b, t)]]
           Body(f) == [n \in Nat |-> IF n = 0 THEN Begin ELSE Pass(a, b, f[n - 1])]
<1>1. Recursion(Counts, Begin, prev, next)
  <2>1. Begin \in Counts
    BY DEF Begin, Counts
  <2>2. ASSUME NEW t \in Counts PROVE Pass(a, b, t) \in Counts
    BY DEF Pass, Counts
  <2> HIDE DEF Body
  <2> QED BY <2>1, <2>2 DEF Recursion
<1>2. PICK f \in [Nat -> Counts] : f = [n \in Nat |-> IF n = 0 THEN Begin ELSE next[n][f[prev[n]]]]
  <2> HIDE DEF prev, next
  <2> QED BY <1>1, RecursiveFunctionExists
<1>3. f = Body(f)
  <2>1. ASSUME NEW n \in Nat, n # 0 PROVE next[n][f[prev[n]]] = Pass(a, b, f[n - 1])
    BY <2>1
  <2> QED BY <1>2, <2>1
<1>4. Passes(a, b) = Body(Passes(a, b))
  <2>1. Passes(a, b) = CHOOSE g : g = Body(g)
    BY DEF Passes
  <2> HIDE DEF Body
  <2> QED BY <1>3, <2>1
<1> QED BY <1>4

\* A position later there is one entry more, and a new one.
LEMMA FrontGrows ==
    ASSUME NEW s \in Seq(Int), StrictlyIncreasing(s), NEW i \in 1..Len(s)
    PROVE  Front(s, i + 1) = Front(s, i) \cup {s[i]} /\ s[i] \notin Front(s, i)
<1>1. \A k \in 1..(i - 1) : s[k] < s[i]
  BY IncreasingThroughout
<1>2. \A k \in 1..Len(s) : s[k] \in Int
  OBVIOUS
<1>3. 1..((i + 1) - 1) = 1..(i - 1) \cup {i}
  OBVIOUS
<1>4. s[i] \notin Front(s, i)
  BY <1>1, <1>2 DEF Front
<1>5. Front(s, i + 1) = {s[k] : k \in 1..(i - 1) \cup {i}}
  BY <1>3 DEF Front
<1> QED BY <1>4, <1>5 DEF Front

\* What the loop knows after n passes: everything before the two positions is
\* counted, what is common and what is not, and lies below what comes after it.
Between(a, b, i, j) == j <= Len(b) => \A k \in 1..(i - 1) : a[k] < b[j]
Going(a, b, s) == s.i <= Len(a) /\ s.j <= Len(b)
Reached(a, b, s, n) ==
    /\ s \in Counts /\ s.i \in 1..(Len(a) + 1) /\ s.j \in 1..(Len(b) + 1)
    /\ s.any = (s.i - 1) + (s.j - 1) - s.both
    /\ Going(a, b, s) => s.i + s.j >= n + 2
Counted(a, b, s) == s.both = Cardinality(Front(a, s.i) \cap Front(b, s.j))
Loop(a, b, s, n) == /\ Reached(a, b, s, n) /\ Counted(a, b, s)
                    /\ Between(a, b, s.i, s.j) /\ Between(b, a, s.j, s.i)

\* A pass over different heads counts the smaller one, which the other vector lacks.
LEMMA PassOverSmaller ==
    ASSUME NEW a \in Seq(Int), NEW b \in Seq(Int), StrictlyIncreasing(a), StrictlyIncreasing(b),
           NEW i \in 1..Len(a), NEW j \in 1..Len(b), a[i] < b[j],
           Between(a, b, i, j), Between(b, a, j, i)
    PROVE  /\ Front(a, i + 1) \cap Front(b, j) = Front(a, i) \cap Front(b, j)
           /\ Between(a, b, i + 1, j) /\ Between(b, a, j, i + 1)
<1>1. \A k \in 1..(j - 1) : b[k] < a[i]
  BY DEF Between
<1>2. \A k \in 1..Len(a) : a[k] \in Int
  OBVIOUS
<1>3. \A k \in 1..Len(b) : b[k] \in Int
  OBVIOUS
<1>4. a[i] \notin Front(b, j)
  BY <1>1, <1>2, <1>3 DEF Front
<1>5. Front(a, i + 1) \cap Front(b, j) = Front(a, i) \cap Front(b, j)
  BY <1>4, FrontGrows
<1>6. \A k \in 1..((i + 1) - 1) : a[k] < b[j]
  <2>1. \A k \in 1..((i + 1) - 1) : k = i \/ k \in 1..(i - 1)
    OBVIOUS
  <2> QED BY <2>1 DEF Between
<1>7. i + 1 <= Len(a) => \A k \in 1..(j - 1) : b[k] < a[i + 1]
  <2>1. i + 1 <= Len(a) => a[i] < a[i + 1]
    BY IncreasingThroughout
  <2> QED BY <1>1, <1>2, <1>3, <2>1, SMTT(20)
<1> QED BY <1>5, <1>6, <1>7 DEF Between

\* A pass over equal heads counts them once, as common.
LEMMA PassOverEqual ==
    ASSUME NEW a \in Seq(Int), NEW b \in Seq(Int), StrictlyIncreasing(a), StrictlyIncreasing(b),
           NEW i \in 1..Len(a), NEW j \in 1..Len(b), a[i] = b[j],
           Between(a, b, i, j), Between(b, a, j, i)
    PROVE  /\ Cardinality(Front(a, i + 1) \cap Front(b, j + 1))
                  = Cardinality(Front(a, i) \cap Front(b, j)) + 1
           /\ Between(a, b, i + 1, j + 1) /\ Between(b, a, j + 1, i + 1)
<1> DEFINE A == Front(a, i) \cap Front(b, j)
<1>1. Front(a, i + 1) \cap Front(b, j + 1) = A \cup {a[i]} /\ a[i] \notin A
  <2>1. Front(a, i + 1) = Front(a, i) \cup {a[i]} /\ a[i] \notin Front(a, i)
    BY FrontGrows
  <2>2. Front(b, j + 1) = Front(b, j) \cup {b[j]} /\ b[j] \notin Front(b, j)
    BY FrontGrows
  <2> QED BY <2>1, <2>2
<1>2. IsFiniteSet(A)
  <2>1. i \in 1..(Len(a) + 1)
    OBVIOUS
  <2>2. IsFiniteSet(Front(a, i)) /\ A \in SUBSET Front(a, i)
    BY <2>1, FrontCounts
  <2> QED BY <2>2, FS_Subset
<1>3. Cardinality(A \cup {a[i]}) = Cardinality(A) + 1
  BY <1>1, <1>2, FS_AddElement
<1>4. j + 1 <= Len(b) => \A k \in 1..((i + 1) - 1) : a[k] < b[j + 1]
  <2>1. \A k \in 1..((i + 1) - 1) : a[k] \in Int /\ a[k] <= a[i]
    <3>1. \A k \in 1..((i + 1) - 1) : k \in 1..Len(a) /\ (k = i \/ k < i)
      OBVIOUS
    <3> QED BY <3>1, IncreasingThroughout
  <2>2. j + 1 <= Len(b) => b[j] < b[j + 1]
    BY IncreasingThroughout
  <2>3. j + 1 <= Len(b) => b[j] \in Int /\ b[j + 1] \in Int
    OBVIOUS
  <2> QED BY <2>1, <2>2, <2>3, SMTT(20)
<1>5. i + 1 <= Len(a) => \A k \in 1..((j + 1) - 1) : b[k] < a[i + 1]
  <2>1. \A k \in 1..((j + 1) - 1) : b[k] \in Int /\ b[k] <= b[j]
    <3>1. \A k \in 1..((j + 1) - 1) : k \in 1..Len(b) /\ (k = j \/ k < j)
      OBVIOUS
    <3> QED BY <3>1, IncreasingThroughout
  <2>2. i + 1 <= Len(a) => a[i] < a[i + 1]
    BY IncreasingThroughout
  <2>3. i + 1 <= Len(a) => a[i] \in Int /\ a[i + 1] \in Int
    OBVIOUS
  <2> QED BY <2>1, <2>2, <2>3, SMTT(20)
<1> QED BY <1>1, <1>3, <1>4, <1>5 DEF Between

\* While the loop goes on both positions have an entry.
LEMMA HeadsTyped ==
    ASSUME NEW a \in Seq(Int), NEW b \in Seq(Int), NEW s \in Counts, NEW n,
           Reached(a, b, s, n), Going(a, b, s)
    PROVE  s.i \in 1..Len(a) /\ s.j \in 1..Len(b) /\ a[s.i] \in Int /\ b[s.j] \in Int
<1>1. s.i \in 1..Len(a) /\ s.j \in 1..Len(b)
  <2>1. Len(a) \in Nat /\ Len(b) \in Nat
    OBVIOUS
  <2> QED BY <2>1 DEF Reached, Going
<1> QED BY <1>1

\* A pass that moves on keeps what Reached says.
LEMMA MovesOn ==
    ASSUME NEW a \in Seq(Int), NEW b \in Seq(Int), NEW s \in Counts, NEW n \in Nat,
           Reached(a, b, s, n), Going(a, b, s),
           NEW di \in Nat, NEW dj \in Nat, di <= 1, dj <= 1, di + dj >= 1
    PROVE  Reached(a, b, [i |-> s.i + di, j |-> s.j + dj, both |-> s.both + (di + dj - 1),
                          any |-> s.any + 1], n + 1)
<1>1. PICK i \in Int, j \in Int, both \in Int, any \in Int :
          s.i = i /\ s.j = j /\ s.both = both /\ s.any = any
  BY DEF Counts
<1>2. /\ Len(a) \in Int /\ Len(b) \in Int
      /\ i >= 1 /\ i <= Len(a) /\ j >= 1 /\ j <= Len(b) /\ i + j >= n + 2
      /\ any = (i - 1) + (j - 1) - both
  <2>1. i \in 1..(Len(a) + 1) /\ j \in 1..(Len(b) + 1) /\ i <= Len(a) /\ j <= Len(b)
    BY <1>1 DEF Reached, Going
  <2>2. i + j >= n + 2
    BY <1>1 DEF Reached
  <2>3. any = (i - 1) + (j - 1) - both
    BY <1>1 DEF Reached
  <2> QED BY <2>1, <2>2, <2>3
<1>3. [i |-> i + di, j |-> j + dj, both |-> both + (di + dj - 1), any |-> any + 1] \in Counts
  BY DEF Counts
<1>4. i + di \in 1..(Len(a) + 1) /\ j + dj \in 1..(Len(b) + 1)
  BY <1>2
<1>5. (i + di) + (j + dj) >= (n + 1) + 2
  BY <1>2
<1>6. any + 1 = ((i + di) - 1) + ((j + dj) - 1) - (both + (di + dj - 1))
  BY <1>2
<1>7. PICK t : t = [i |-> i + di, j |-> j + dj, both |-> both + (di + dj - 1), any |-> any + 1]
  OBVIOUS
<1>8. t.i = i + di /\ t.j = j + dj /\ t.both = both + (di + dj - 1) /\ t.any = any + 1
  BY <1>7
<1>9. Reached(a, b, t, n + 1)
  BY <1>3, <1>4, <1>5, <1>6, <1>7, <1>8 DEF Reached
<1> QED BY <1>1, <1>7, <1>9

\* A pass keeps what the loop knows.
LEMMA PassKeeps ==
    ASSUME NEW a \in Seq(Int), NEW b \in Seq(Int), StrictlyIncreasing(a), StrictlyIncreasing(b),
           NEW s \in Counts, NEW n \in Nat, Loop(a, b, s, n)
    PROVE  Loop(a, b, Pass(a, b, s), n + 1)
<1>1. CASE ~Going(a, b, s)
  <2>1. Pass(a, b, s) = s
    <3>1. s.i \in Int /\ s.j \in Int /\ Len(a) \in Nat /\ Len(b) \in Nat
      BY DEF Loop, Reached, Counts
    <3> QED BY <1>1, <3>1 DEF Pass, Going
  <2>2. Reached(a, b, s, n + 1)
    BY <1>1 DEF Loop, Reached
  <2> QED BY <2>1, <2>2 DEF Loop
<1>2. CASE Going(a, b, s)
  <2>1. s.i \in 1..Len(a) /\ s.j \in 1..Len(b) /\ a[s.i] \in Int /\ b[s.j] \in Int
    BY <1>2, HeadsTyped DEF Loop
  <2>2. s.both \in Int /\ Len(a) \in Nat /\ Len(b) \in Nat
    BY DEF Loop, Reached, Counts
  <2>3. Pass(a, b, s) = [i |-> IF a[s.i] <= b[s.j] THEN s.i + 1 ELSE s.i,
                         j |-> IF b[s.j] <= a[s.i] THEN s.j + 1 ELSE s.j,
                         both |-> IF a[s.i] = b[s.j] THEN s.both + 1 ELSE s.both,
                         any |-> s.any + 1]
    BY <2>1, <2>2 DEF Pass
  <2>4. CASE a[s.i] = b[s.j]
    <3>1. Pass(a, b, s) = [i |-> s.i + 1, j |-> s.j + 1, both |-> s.both + (1 + 1 - 1),
                           any |-> s.any + 1]
      <4>1. a[s.i] <= b[s.j] /\ b[s.j] <= a[s.i]
        BY <2>1, <2>4
      <4>2. s.both + (1 + 1 - 1) = s.both + 1
        BY <2>1, <2>2
      <4> QED BY <2>3, <2>4, <4>1, <4>2
    <3>2. Reached(a, b, Pass(a, b, s), n + 1)
      BY <1>2, <3>1, MovesOn DEF Loop
    <3>3. /\ Cardinality(Front(a, s.i + 1) \cap Front(b, s.j + 1)) = s.both + (1 + 1 - 1)
          /\ Between(a, b, s.i + 1, s.j + 1) /\ Between(b, a, s.j + 1, s.i + 1)
      <4>1. /\ Cardinality(Front(a, s.i + 1) \cap Front(b, s.j + 1))
                  = Cardinality(Front(a, s.i) \cap Front(b, s.j)) + 1
            /\ Between(a, b, s.i + 1, s.j + 1) /\ Between(b, a, s.j + 1, s.i + 1)
        BY <2>1, <2>4, PassOverEqual DEF Loop
      <4>2. s.both + (1 + 1 - 1) = s.both + 1
        BY <2>2
      <4> QED BY <4>1, <4>2 DEF Loop, Counted
    <3>4. Pass(a, b, s).i = s.i + 1 /\ Pass(a, b, s).j = s.j + 1
          /\ Pass(a, b, s).both = s.both + (1 + 1 - 1)
      BY <3>1
    <3> QED BY <3>2, <3>3, <3>4 DEF Loop, Counted
  <2>5. CASE a[s.i] < b[s.j]
    <3>1. Pass(a, b, s) = [i |-> s.i + 1, j |-> s.j + 0, both |-> s.both + (1 + 0 - 1),
                           any |-> s.any + 1]
      <4>1. a[s.i] <= b[s.j] /\ ~(b[s.j] <= a[s.i]) /\ a[s.i] # b[s.j]
        BY <2>1, <2>5
      <4>2. s.both + (1 + 0 - 1) = s.both /\ s.j + 0 = s.j
        BY <2>1, <2>2
      <4> QED BY <2>3, <2>5, <4>1, <4>2
    <3>2. Reached(a, b, Pass(a, b, s), n + 1)
      BY <1>2, <3>1, MovesOn DEF Loop
    <3>3. /\ Cardinality(Front(a, s.i + 1) \cap Front(b, s.j + 0)) = s.both + (1 + 0 - 1)
          /\ Between(a, b, s.i + 1, s.j + 0) /\ Between(b, a, s.j + 0, s.i + 1)
      <4>1. /\ Front(a, s.i + 1) \cap Front(b, s.j) = Front(a, s.i) \cap Front(b, s.j)
            /\ Between(a, b, s.i + 1, s.j) /\ Between(b, a, s.j, s.i + 1)
        BY <2>1, <2>5, PassOverSmaller DEF Loop
      <4>2. s.both + (1 + 0 - 1) = s.both /\ s.j + 0 = s.j
        BY <2>1, <2>2
      <4> QED BY <4>1, <4>2 DEF Loop, Counted
    <3>4. Pass(a, b, s).i = s.i + 1 /\ Pass(a, b, s).j = s.j + 0
          /\ Pass(a, b, s).both = s.both + (1 + 0 - 1)
      BY <3>1
    <3> QED BY <3>2, <3>3, <3>4 DEF Loop, Counted
  <2>6. CASE b[s.j] < a[s.i]
    <3>1. Pass(a, b, s) = [i |-> s.i + 0, j |-> s.j + 1, both |-> s.both + (0 + 1 - 1),
                           any |-> s.any + 1]
      <4>1. b[s.j] <= a[s.i] /\ ~(a[s.i] <= b[s.j]) /\ a[s.i] # b[s.j]
        BY <2>1, <2>6
      <4>2. s.both + (0 + 1 - 1) = s.both /\ s.i + 0 = s.i
        BY <2>1, <2>2
      <4> QED BY <2>3, <2>6, <4>1, <4>2
    <3>2. Reached(a, b, Pass(a, b, s), n + 1)
      BY <1>2, <3>1, MovesOn DEF Loop
    <3>3. /\ Cardinality(Front(a, s.i + 0) \cap Front(b, s.j + 1)) = s.both + (0 + 1 - 1)
          /\ Between(a, b, s.i + 0, s.j + 1) /\ Between(b, a, s.j + 1, s.i + 0)
      <4>1. /\ Front(b, s.j + 1) \cap Front(a, s.i) = Front(b, s.j) \cap Front(a, s.i)
            /\ Between(b, a, s.j + 1, s.i) /\ Between(a, b, s.i, s.j + 1)
        BY <2>1, <2>6, PassOverSmaller DEF Loop
      <4>2. Front(a, s.i) \cap Front(b, s.j + 1) = Front(a, s.i) \cap Front(b, s.j)
        BY <4>1
      <4>3. s.both + (0 + 1 - 1) = s.both /\ s.i + 0 = s.i
        BY <2>1, <2>2
      <4> QED BY <4>1, <4>2, <4>3 DEF Loop, Counted
    <3>4. Pass(a, b, s).i = s.i + 0 /\ Pass(a, b, s).j = s.j + 1
          /\ Pass(a, b, s).both = s.both + (0 + 1 - 1)
      BY <3>1
    <3> QED BY <3>2, <3>3, <3>4 DEF Loop, Counted
  <2> QED BY <2>1, <2>4, <2>5, <2>6
<1> QED BY <1>1, <1>2

\* The loop knows it after every number of passes.
LEMMA LoopHolds ==
    ASSUME NEW a \in Seq(Int), NEW b \in Seq(Int), StrictlyIncreasing(a), StrictlyIncreasing(b),
           NEW n \in Nat
    PROVE  Loop(a, b, Passes(a, b)[n], n)
<1> DEFINE S == {m \in Nat : ~Loop(a, b, Passes(a, b)[m], m)}
<1>1. SUFFICES ASSUME S # {} PROVE FALSE
  OBVIOUS
<1>2. PICK m \in S : \A k \in S : m <= k
  <2>1. S \subseteq Nat
    OBVIOUS
  <2> QED BY <1>1, <2>1, LeastNatural
<1>3. CASE m = 0
  <2>1. Front(a, 1) = {} /\ Cardinality({}) = 0
    BY FS_EmptySet DEF Front
  <2>2. Front(a, 1) \cap Front(b, 1) = {}
    BY <2>1
  <2>3. Loop(a, b, Begin, 0)
    <3>1. Len(a) \in Nat /\ Len(b) \in Nat
      OBVIOUS
    <3>2. Reached(a, b, Begin, 0)
      BY <3>1 DEF Reached, Begin, Counts, Going
    <3>3. Counted(a, b, Begin)
      BY <2>1, <2>2 DEF Counted, Begin
    <3>4. Between(a, b, Begin.i, Begin.j) /\ Between(b, a, Begin.j, Begin.i)
      BY DEF Between, Begin
    <3> QED BY <3>2, <3>3, <3>4 DEF Loop
  <2> QED BY <1>3, <2>3, PassesUnfold
<1>4. CASE m # 0
  <2>1. m \in Nat /\ m - 1 \in Nat /\ ~(m <= m - 1) /\ (m - 1) + 1 = m
    BY <1>4
  <2>2. Loop(a, b, Passes(a, b)[m - 1], m - 1) /\ Passes(a, b)[m - 1] \in Counts
    BY <1>2, <2>1 DEF Loop, Reached
  <2>3. Loop(a, b, Pass(a, b, Passes(a, b)[m - 1]), (m - 1) + 1)
    BY <2>1, <2>2, PassKeeps
  <2>4. Passes(a, b)[m] = Pass(a, b, Passes(a, b)[m - 1])
    BY <1>4, <2>1, PassesUnfold
  <2> QED BY <2>1, <2>3, <2>4
<1> QED BY <1>3, <1>4

\* A vector without repeats has as many members as entries.
LEMMA MembersCounted ==
    ASSUME NEW s \in Seq(Int), StrictlyIncreasing(s)
    PROVE  /\ Members(s) = Front(s, Len(s) + 1)
           /\ IsFiniteSet(Members(s)) /\ Cardinality(Members(s)) = Len(s)
<1>1. Members(s) = Front(s, Len(s) + 1)
  <2>1. DOMAIN s = 1..((Len(s) + 1) - 1)
    OBVIOUS
  <2> QED BY <2>1 DEF Members, Front
<1>2. Len(s) + 1 \in 1..(Len(s) + 1) /\ (Len(s) + 1) - 1 = Len(s)
  OBVIOUS
<1>3. IsFiniteSet(Front(s, Len(s) + 1)) /\ Cardinality(Front(s, Len(s) + 1)) = (Len(s) + 1) - 1
  BY <1>2, FrontCounts
<1> QED BY <1>1, <1>2, <1>3

\* For two vectors that are sorted and free of repeats, the merge of
\* real_dataset_metrics.cpp computes the Jaccard similarity of the two sets.
LEMMA MergeIsJaccard ==
    ASSUME NEW a \in Seq(Int), NEW b \in Seq(Int), StrictlyIncreasing(a), StrictlyIncreasing(b)
    PROVE  ExactJaccard(a, b) = SetJaccard(Members(a), Members(b))
<1> DEFINE n == Len(a) + Len(b)
           s == Passes(a, b)[n]
           A == Members(a)
           B == Members(b)
<1>1. A = Front(a, Len(a) + 1) /\ B = Front(b, Len(b) + 1)
  BY MembersCounted
<1>2. /\ IsFiniteSet(A) /\ IsFiniteSet(B)
      /\ Cardinality(A) = Len(a) /\ Cardinality(B) = Len(b)
  BY MembersCounted
<1>3. n \in Nat /\ Loop(a, b, s, n) /\ s \in Counts
  BY LoopHolds DEF Loop, Reached
<1> HIDE DEF s
<1>4. /\ Len(a) \in Nat /\ Len(b) \in Nat
      /\ s.i \in 1..(Len(a) + 1) /\ s.j \in 1..(Len(b) + 1)
      /\ s.i = Len(a) + 1 \/ s.j = Len(b) + 1
  <2>1. PICK i \in Int, j \in Int : s.i = i /\ s.j = j
    BY <1>3 DEF Counts
  <2>2. i \in 1..(Len(a) + 1) /\ j \in 1..(Len(b) + 1)
    BY <1>3, <2>1 DEF Loop, Reached
  <2>3. i <= Len(a) /\ j <= Len(b) => i + j >= Len(a) + Len(b) + 2
    BY <1>3, <2>1 DEF Loop, Reached, Going
  <2>4. Len(a) \in Nat /\ Len(b) \in Nat
    OBVIOUS
  <2>5. i = Len(a) + 1 \/ j = Len(b) + 1
    BY <2>2, <2>3, <2>4
  <2> QED BY <2>1, <2>2, <2>4, <2>5
<1>5. ASSUME NEW x \in Seq(Int), NEW y \in Seq(Int), StrictlyIncreasing(y),
             NEW j \in 1..(Len(y) + 1), Between(x, y, Len(x) + 1, j)
      PROVE  Front(x, Len(x) + 1) \cap Front(y, j) = Front(x, Len(x) + 1) \cap Front(y, Len(y) + 1)
  <2>1. \A k \in 1..Len(x), l \in j..Len(y) : x[k] # y[l]
    <3>1. SUFFICES ASSUME NEW k \in 1..Len(x), NEW l \in j..Len(y) PROVE x[k] # y[l]
      OBVIOUS
    <3>2. j \in 1..Len(y) /\ l \in 1..Len(y) /\ (j = l \/ j < l) /\ k \in 1..((Len(x) + 1) - 1)
      OBVIOUS
    <3>3. x[k] < y[j]
      BY <1>5, <3>2 DEF Between
    <3>4. y[j] = y[l] \/ y[j] < y[l]
      BY <1>5, <3>2, IncreasingThroughout
    <3>5. x[k] \in Int /\ y[j] \in Int /\ y[l] \in Int
      BY <3>2
    <3> QED BY <3>3, <3>4, <3>5
  <2>2. 1..((Len(y) + 1) - 1) = 1..(j - 1) \cup j..Len(y)
    OBVIOUS
  <2>3. 1..((Len(x) + 1) - 1) = 1..Len(x)
    OBVIOUS
  <2>4. Front(x, Len(x) + 1) = {x[k] : k \in 1..Len(x)}
    BY <2>3 DEF Front
  <2>5. Front(y, Len(y) + 1) = {y[k] : k \in 1..(j - 1) \cup j..Len(y)}
    BY <2>2 DEF Front
  <2> QED BY <2>1, <2>4, <2>5 DEF Front
<1>6. s.both = Cardinality(A \cap B)
  <2>1. Front(a, s.i) \cap Front(b, s.j) = A \cap B
    <3>1. CASE s.i = Len(a) + 1
      <4>1. Between(a, b, Len(a) + 1, s.j)
        BY <1>3, <3>1 DEF Loop
      <4> QED BY <1>1, <1>4, <1>5, <3>1, <4>1
    <3>2. CASE s.j = Len(b) + 1
      <4>1. Between(b, a, Len(b) + 1, s.i)
        BY <1>3, <3>2 DEF Loop
      <4>2. Front(b, s.j) \cap Front(a, s.i) = B \cap A
        BY <1>1, <1>4, <1>5, <3>2, <4>1
      <4> QED BY <4>2
    <3> QED BY <1>4, <3>1, <3>2
  <2> QED BY <1>3, <2>1 DEF Loop, Counted
<1>7. s.any + (Len(a) + 1 - s.i) + (Len(b) + 1 - s.j) = Cardinality(A \cup B)
  <2>1. Cardinality(A \cup B) = Cardinality(A) + Cardinality(B) - Cardinality(A \cap B)
    BY <1>2, FS_Union
  <2>2. s.any = (s.i - 1) + (s.j - 1) - s.both /\ s.both \in Int
    BY <1>3 DEF Loop, Reached, Counts
  <2>3. PICK i \in Int, j \in Int, both \in Int, any \in Int :
            s.i = i /\ s.j = j /\ s.both = both /\ s.any = any
    BY <1>3 DEF Counts
  <2>4. any = (i - 1) + (j - 1) - both /\ Cardinality(A \cup B) = Len(a) + Len(b) - both
    BY <1>2, <1>6, <2>1, <2>2, <2>3
  <2>5. any + (Len(a) + 1 - i) + (Len(b) + 1 - j) = Len(a) + Len(b) - both
    BY <1>4, <2>4
  <2> QED BY <2>3, <2>4, <2>5
<1>8. Cardinality(A \cup B) = 0 <=> A \cup B = {}
  <2>1. IsFiniteSet(A \cup B)
    BY <1>2, FS_Union
  <2> HIDE DEF A, B
  <2> QED BY <2>1, FS_EmptySet
<1>9. ExactJaccard(a, b) = IF Cardinality(A \cup B) = 0 THEN <<0, 1>>
                           ELSE <<s.both, Cardinality(A \cup B)>>
  BY <1>7 DEF ExactJaccard, s
<1> HIDE DEF A, B
<1> QED BY <1>6, <1>8, <1>9 DEF SetJaccard, A, B

-----------------------------------------------------------------------------
Directories == Foreign \cup Prepared
Contents(d) == d["dataset.manifest.tsv"]

\* The files that are read by the time the loader is at a place.
Read == [resolve |-> {}, source |-> {}, records |-> {"source"}, pairs |-> {"source", "records"},
         parse |-> DOMAIN NextRole, loaded |-> DOMAIN NextRole]

DirectoriesNamed == {dir, backup, staged} \subseteq Directories \cup {Absent}

\* The manifest in memory is one directory's, and what was read under it has the
\* contents it tells.
Witnessed ==
    /\ "manifest" \in DOMAIN got
    /\ \E d \in Directories : got["manifest"] = Contents(d)
    /\ \A role \in Read[loader] : role \in DOMAIN got /\ got[role] = got["manifest"].sums[role]

Accepted ==
    /\ RecordsAccepted(got.records, got.manifest)
    /\ PairsAccepted(got.pairs, got.manifest, {r.id : r \in Members(got.records.rows)})

LoadIInv ==
    /\ DirectoriesNamed
    /\ loader \in {"idle", "failed"} \cup DOMAIN Read
    /\ loader \in DOMAIN Read => Witnessed
    /\ loader = "loaded" => Accepted

\* It holds before anything is loaded.
LEMMA LoadInitIInv == LoadInit => LoadIInv
BY DEF LoadInit, LoadIInv, DirectoriesNamed, Directories, Read

\* Nothing the preparation does reaches what the loader has in memory.
LEMMA PublishKeeps == LoadIInv /\ Publish => LoadIInv'
<1> SUFFICES ASSUME LoadIInv, Publish PROVE LoadIInv'
  OBVIOUS
<1>1. UNCHANGED <<loader, got>>
  BY DEF Publish, Stage, RenameAway, RenameIn, RenameFails, RemoveBackup, Killed
<1>2. DirectoriesNamed'
  <2> USE DEF LoadIInv, DirectoriesNamed, Directories
  <2>1. CASE \E g \in Prepared : Stage(g)
    BY <2>1 DEF Stage
  <2>2. CASE RenameAway
    BY <2>2 DEF RenameAway
  <2>3. CASE RenameIn
    BY <2>3 DEF RenameIn
  <2>4. CASE RenameFails
    BY <2>4 DEF RenameFails
  <2>5. CASE RemoveBackup
    BY <2>5 DEF RemoveBackup
  <2>6. CASE Killed
    BY <2>6 DEF Killed
  <2> QED BY <2>1, <2>2, <2>3, <2>4, <2>5, <2>6 DEF Publish
<1> QED BY <1>1, <1>2 DEF LoadIInv, Witnessed, Accepted

\* A load that fails forgets what it has read.
LEMMA FailKeeps == LoadIInv /\ Fail /\ UNCHANGED publication => LoadIInv'
BY DEF LoadIInv, Fail, publication, DirectoriesNamed, Read

\* A file is added to what is in memory.
LEMMA WithAdds ==
    ASSUME NEW role, NEW content
    PROVE  /\ DOMAIN With(role, content) = DOMAIN got \cup {role}
           /\ With(role, content)[role] = content
           /\ \A r \in DOMAIN got : r # role => With(role, content)[r] = got[r]
BY DEF With

\* The manifest read is that of the directory that is there at that moment.
LEMMA ReadManifestKeeps == LoadIInv /\ ReadManifest => LoadIInv'
<1> SUFFICES ASSUME LoadIInv, ReadManifest PROVE LoadIInv'
  OBVIOUS
<1>1. CASE Fail
  BY <1>1, FailKeeps DEF ReadManifest
<1>2. CASE dir # Absent /\ loader' = "resolve" /\ got' = With("manifest", Contents(dir))
  <2>1. DirectoriesNamed' /\ dir \in Directories
    BY <1>2 DEF LoadIInv, ReadManifest, publication, DirectoriesNamed
  <2>2. "manifest" \in DOMAIN got' /\ got'["manifest"] = Contents(dir)
    BY <1>2, WithAdds
  <2>3. Witnessed'
    BY <1>2, <2>1, <2>2 DEF Witnessed, Read
  <2> QED BY <1>2, <2>1, <2>3 DEF LoadIInv, Read
<1> QED BY <1>1, <1>2 DEF ReadManifest, Contents

\* Resolving the paths reads no file.
LEMMA ResolvePathsKeeps == LoadIInv /\ ResolvePaths => LoadIInv'
<1> SUFFICES ASSUME LoadIInv, ResolvePaths PROVE LoadIInv'
  OBVIOUS
<1>1. CASE Fail
  BY <1>1, FailKeeps DEF ResolvePaths
<1>2. CASE loader' = "source" /\ UNCHANGED got
  <2>1. DirectoriesNamed' /\ Witnessed
    BY DEF LoadIInv, ResolvePaths, publication, DirectoriesNamed, Read
  <2>2. Witnessed'
    BY <1>2, <2>1 DEF Witnessed, Read
  <2> QED BY <1>2, <2>1, <2>2 DEF LoadIInv, Read
<1> QED BY <1>1, <1>2 DEF ResolvePaths

\* Only a file with the contents the manifest tells is kept.
LEMMA ReadFileKeeps ==
    ASSUME NEW role \in DOMAIN NextRole, LoadIInv, ReadFile(role)
    PROVE  LoadIInv'
<1>1. CASE Fail
  BY <1>1, FailKeeps DEF ReadFile
<1>2. CASE \E content : /\ content = got.manifest.sums[role]
                        /\ loader' = NextRole[role] /\ got' = With(role, content)
  <2>1. PICK content : /\ content = got["manifest"].sums[role]
                       /\ loader' = NextRole[role] /\ got' = With(role, content)
    BY <1>2
  <2>2. loader = role /\ DirectoriesNamed' /\ Witnessed
    BY DEF ReadFile, LoadIInv, publication, DirectoriesNamed, Read, NextRole
  <2>3. /\ role # "manifest" /\ NextRole[role] \in DOMAIN Read /\ NextRole[role] # "loaded"
        /\ Read[NextRole[role]] = Read[role] \cup {role} /\ role \notin Read[role]
    BY DEF NextRole, Read
  <2>4. /\ DOMAIN got' = DOMAIN got \cup {role} /\ got'[role] = content
        /\ \A r \in DOMAIN got : r # role => got'[r] = got[r]
    BY <2>1, <2>2, <2>3 DEF With
  <2>5. "manifest" \in DOMAIN got' /\ got'["manifest"] = got["manifest"]
    BY <2>2, <2>3, <2>4 DEF Witnessed
  <2>6. \A r \in Read[loader'] : r \in DOMAIN got' /\ got'[r] = got'["manifest"].sums[r]
    BY <2>1, <2>2, <2>3, <2>4, <2>5 DEF Witnessed
  <2>7. Witnessed'
    BY <2>2, <2>5, <2>6 DEF Witnessed
  <2> QED BY <2>1, <2>2, <2>3, <2>7 DEF LoadIInv
<1> QED BY <1>1, <1>2 DEF ReadFile

\* Parsing works on what is in memory and returns only what it accepts.
LEMMA ParseKeeps == LoadIInv /\ Parse => LoadIInv'
<1> SUFFICES ASSUME LoadIInv, Parse PROVE LoadIInv'
  OBVIOUS
<1>1. CASE Fail
  BY <1>1, FailKeeps DEF Parse
<1>2. CASE Accepted /\ loader' = "loaded" /\ UNCHANGED got
  <2>1. DirectoriesNamed' /\ Witnessed
    BY DEF LoadIInv, Parse, publication, DirectoriesNamed, Read
  <2>2. Witnessed' /\ Accepted'
    BY <1>2, <2>1 DEF Witnessed, Accepted, Read, Parse
  <2> QED BY <1>2, <2>1, <2>2 DEF LoadIInv, Read
<1> QED BY <1>1, <1>2 DEF Parse, Accepted

\* Every step of the preparation and of the loader keeps the invariant.
LEMMA LoadNextIInv == LoadIInv /\ [LoadNext]_loadVars => LoadIInv'
<1> SUFFICES ASSUME LoadIInv, [LoadNext]_loadVars PROVE LoadIInv'
  OBVIOUS
<1>1. CASE Publish
  BY <1>1, PublishKeeps
<1>2. CASE ReadManifest
  BY <1>2, ReadManifestKeeps
<1>3. CASE ResolvePaths
  BY <1>3, ResolvePathsKeeps
<1>4. CASE \E role \in DOMAIN NextRole : ReadFile(role)
  BY <1>4, ReadFileKeeps
<1>5. CASE Parse
  BY <1>5, ParseKeeps
<1>6. CASE LoadAgain
  BY <1>6 DEF LoadAgain, LoadIInv, publication, DirectoriesNamed, Read
<1>7. CASE UNCHANGED loadVars
  BY <1>7 DEF loadVars, LoadIInv, DirectoriesNamed, Witnessed, Accepted
<1> QED BY <1>1, <1>2, <1>3, <1>4, <1>5, <1>6, <1>7 DEF LoadNext, Load

\* The invariant of the loader holds throughout.
LEMMA LoadSpecIInv == LoadSpec => []LoadIInv
BY LoadInitIInv, LoadNextIInv, PTL DEF LoadSpec

\* What is returned under a preparation's manifest is that preparation's, however
\* the directory is renamed and replaced between the reads of LoadRealDataset.
THEOREM LoadsOneGeneration == LoadSpec => []OneGeneration
<1>1. LoadIInv => OneGeneration
  <2> SUFFICES ASSUME LoadIInv, Loaded, NEW g \in Prepared, Contents(g) = got.manifest,
                      NEW role \in DOMAIN NextRole
               PROVE  got[role] = g[got.manifest.files[role]]
    BY DEF OneGeneration, Contents
  <2>1. got[role] = got["manifest"].sums[role]
    BY DEF LoadIInv, Loaded, Witnessed, Read
  <2>2. g[Contents(g).files[role]] = Contents(g).sums[role]
    BY RealDatasetAssumption DEF Contents, NextRole
  <2> QED BY <2>1, <2>2
<1> QED BY <1>1, LoadSpecIInv, PTL

\* A row that is accepted has features the merge and the universe can take.
LEMMA FeaturesUsable ==
    ASSUME NEW n, NEW features \in Seq(Int), FeaturesAccepted(n, features)
    PROVE  StrictlyIncreasing(features) /\ \A v \in Members(features) : v \in Nat
<1>1. \A v \in Members(features) : v \in Int
  BY DEF Members
<1> QED BY <1>1 DEF FeaturesAccepted, Unsigned

\* The highest bucket is for pairs that have something in common.
LEMMA HighBucketMeets ==
    ASSUME NEW x, NEW y, IsFiniteSet(x), IsFiniteSet(y),
           JaccardBucketLabel(SetJaccard(x, y)) = "b60_100"
    PROVE  Cardinality(x \cap y) > 0
<1>1. IsFiniteSet(x \cup y) /\ IsFiniteSet(x \cap y)
  <2>1. x \cap y \in SUBSET x
    OBVIOUS
  <2> QED BY <2>1, FS_Union, FS_Subset
<1>2. Cardinality(x \cup y) \in Nat /\ Cardinality(x \cap y) \in Nat
  BY <1>1, FS_CardinalityType
<1>3. x \cup y # {}
  BY DEF SetJaccard, JaccardBucketLabel
<1>4. Cardinality(x \cup y) # 0
  BY <1>1, <1>3, FS_EmptySet
<1>5. ~(10 * Cardinality(x \cap y) < 6 * Cardinality(x \cup y))
  BY <1>2, <1>3 DEF SetJaccard, JaccardBucketLabel
<1> QED BY <1>2, <1>4, <1>5

\* The records of an accepted load have features the merge takes and buckets
\* within the universe.
LEMMA RecordsUsable ==
    ASSUME LoadIInv, Loaded, NEW i \in DOMAIN got.records.rows
    PROVE  LET r == got.records.rows[i] IN
           /\ r.raw \in Seq(Int) /\ r.bucketed \in Seq(Int)
           /\ StrictlyIncreasing(r.raw) /\ StrictlyIncreasing(r.bucketed)
           /\ \A v \in Members(r.bucketed) : v \in 0..(got.manifest.universe - 1)
<1> DEFINE r == got.records.rows[i]
<1>1. PICK d \in Directories : got["manifest"] = Contents(d)
  BY DEF LoadIInv, Loaded, Witnessed, Read
<1>2. got.records = got["manifest"].sums["records"]
  BY DEF LoadIInv, Loaded, Witnessed, Read, NextRole
<1>3. /\ got["manifest"].sums["records"] \in [strict : BOOLEAN, rows : Seq(Rows)]
      /\ got["manifest"].universe \in Int
  BY <1>1, ContentAssumption DEF Directories, Contents
<1>4. got.records.rows \in Seq(Rows)
  BY <1>2, <1>3
<1>5. r \in Rows
  BY <1>4
<1>6. RecordsAccepted(got.records, got.manifest)
  BY DEF LoadIInv, Loaded, Accepted
<1>7. /\ FeaturesAccepted(r.rawCount, r.raw) /\ FeaturesAccepted(r.bucketedCount, r.bucketed)
      /\ \A v \in Members(r.bucketed) : v < got.manifest.universe
  BY <1>6 DEF RecordsAccepted
<1>8. r.raw \in Seq(Int) /\ r.bucketed \in Seq(Int)
  BY <1>5 DEF Rows
<1> HIDE DEF r
<1>9. \A v \in Members(r.bucketed) : v \in 0..(got.manifest.universe - 1)
  <2>1. \A v \in Members(r.bucketed) : v \in Nat
    BY <1>7, <1>8, FeaturesUsable
  <2> QED BY <1>3, <1>7, <2>1
<1>10. StrictlyIncreasing(r.raw) /\ StrictlyIncreasing(r.bucketed)
  BY <1>7, <1>8, FeaturesUsable
<1> QED BY <1>8, <1>9, <1>10 DEF r

\* An end of an accepted pair names one record.
LEMMA PairNamesRecords ==
    ASSUME LoadIInv, Loaded, NEW p \in Members(got.pairs.rows), NEW id \in {p.a, p.b}
    PROVE  \E i \in DOMAIN got.records.rows :
              \A j \in DOMAIN got.records.rows : (got.records.rows[j].id = id) <=> (i = j)
<1>1. Accepted
  BY DEF LoadIInv, Loaded
<1>2. id \in {r.id : r \in Members(got.records.rows)}
  <2>1. PICK k \in DOMAIN got.pairs.rows : p = got.pairs.rows[k]
    BY DEF Members
  <2> QED BY <1>1, <2>1 DEF Accepted, PairsAccepted
<1>3. PICK i \in DOMAIN got.records.rows : got.records.rows[i].id = id
  BY <1>2 DEF Members
<1>4. Distinct(got.records.rows)
  BY <1>1 DEF Accepted, RecordsAccepted
<1> QED BY <1>3, <1>4 DEF Distinct

\* The records a pair names are measured right.
LEMMA PairMeasuredRight ==
    ASSUME LoadIInv, Loaded, NEW p
    PROVE  MeasuredRight(p)
<1> SUFFICES ASSUME NEW r \in RecordsNamed(p.a), NEW s \in RecordsNamed(p.b)
             PROVE  /\ ExactJaccard(r.raw, s.raw) = SetJaccard(Members(r.raw), Members(s.raw))
                    /\ ExactJaccard(r.bucketed, s.bucketed)
                           = SetJaccard(Members(r.bucketed), Members(s.bucketed))
                    /\ Members(r.bucketed) \cup Members(s.bucketed)
                           \subseteq 0 .. got.manifest.universe - 1
                    /\ JaccardBucketLabel(ExactJaccard(r.bucketed, s.bucketed)) = "b60_100"
                         => Cardinality(Members(r.bucketed) \cap Members(s.bucketed)) > 0
  BY DEF MeasuredRight
<1>1. PICK i \in DOMAIN got.records.rows : r = got.records.rows[i]
  BY DEF RecordsNamed, Members
<1>2. PICK j \in DOMAIN got.records.rows : s = got.records.rows[j]
  BY DEF RecordsNamed, Members
<1>3. /\ r.raw \in Seq(Int) /\ r.bucketed \in Seq(Int)
      /\ StrictlyIncreasing(r.raw) /\ StrictlyIncreasing(r.bucketed)
      /\ \A v \in Members(r.bucketed) : v \in 0..(got.manifest.universe - 1)
  BY <1>1, RecordsUsable
<1>4. /\ s.raw \in Seq(Int) /\ s.bucketed \in Seq(Int)
      /\ StrictlyIncreasing(s.raw) /\ StrictlyIncreasing(s.bucketed)
      /\ \A v \in Members(s.bucketed) : v \in 0..(got.manifest.universe - 1)
  BY <1>2, RecordsUsable
<1>5. ExactJaccard(r.raw, s.raw) = SetJaccard(Members(r.raw), Members(s.raw))
  BY <1>3, <1>4, MergeIsJaccard
<1>6. ExactJaccard(r.bucketed, s.bucketed) = SetJaccard(Members(r.bucketed), Members(s.bucketed))
  BY <1>3, <1>4, MergeIsJaccard
<1>7. IsFiniteSet(Members(r.bucketed)) /\ IsFiniteSet(Members(s.bucketed))
  BY <1>3, <1>4, MembersCounted
<1> QED BY <1>3, <1>4, <1>5, <1>6, <1>7, HighBucketMeets

\* Every pair a load returns can be measured: its ends name one record each, and
\* the merge, the universe and the buckets mean what they should.
THEOREM LoadedPairsMeasurable == LoadSpec => []PairsMeasurable
<1>1. LoadIInv => PairsMeasurable
  <2> SUFFICES ASSUME LoadIInv, Loaded PROVE PairsMeasurable
    BY DEF PairsMeasurable
  <2> QED BY PairNamesRecords, PairMeasuredRight DEF PairsMeasurable
<1> QED BY <1>1, LoadSpecIInv, PTL
==============================================================================
