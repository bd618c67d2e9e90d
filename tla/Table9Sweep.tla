----------------------------- MODULE Table9Sweep -----------------------------
(***************************************************************************)
(* scripts/run_table9_sweep.py: one invocation after another on            *)
(* one results root, any of them cut short anywhere, and what it leaves on *)
(* disk: run.json, planned_argv.jsonl, matrix.json and a receipt per cell. *)
(* Between invocations a receipt may get lost and run.json unreadable, as  *)
(* the script provides for, and a dry run may write its plan over the      *)
(* root's, or be cut short doing so.  events.jsonl and the plan file of an accepted *)
(* change are written and never read for a decision; they are left out.    *)
(* A provenance is a model value with the commands it plans and the matrix *)
(* it hashes.                                                              *)
(***************************************************************************)
EXTENDS Naturals, FiniteSets

CONSTANTS
    CellCount,       \* TABLE9_CELL_IDS is 1..CellCount in execution order
    Provenances,
    Command, Matrix, \* [Provenances -> ...]
    None,            \* an absent file, record or value
    Corrupt, Torn,   \* an unreadable run.json; a receipt or copy cut short
    MaxInvocations,  \* bound on invocations
    MaxFaults        \* bound on files damaged between them

ASSUME CellAssumption == CellCount \in Nat \ {0}
ASSUME ProvenanceAssumption ==
    /\ IsFiniteSet(Provenances) /\ {None, Corrupt, Torn} \cap Provenances = {}
    /\ DOMAIN Command = Provenances /\ DOMAIN Matrix = Provenances
    /\ \A p \in Provenances : {None, Torn} \cap {Command[p], Matrix[p]} = {}
    /\ None \notin {"plan", "matrix", "provenance"}
ASSUME BoundAssumption == MaxInvocations \in Nat /\ MaxFaults \in Nat

VARIABLES
    run,      \* run.json: None, Corrupt or a manifest
    planned,  \* planned_argv.jsonl: None, Torn or the commands
    matrix,   \* matrix.json: None, Torn or the matrix
    receipt,  \* cell -> None, Torn or [status, id]
    pc,       \* where the invocation is; "idle" between two
    env,      \* provenance of the invocation
    manifest, \* its manifest
    resume,   \* is_resume
    cell,     \* the loop's cell
    refused,  \* why the last invocation was refused
    faults, invocations,
    (* History, for the properties: *)
    used,     \* provenances of the invocations so far
    done,     \* cells whose finished work the invocation found
    lost,     \* cells whose receipt was lost and that were not recorded since
    cut       \* whether planned_argv.jsonl is what a dry run cut short left

Cells == 1..CellCount

disk == <<run, planned, matrix, receipt>>
vars == <<run, planned, matrix, receipt, pc, env, manifest, resume, cell, refused,
          faults, invocations, used, done, lost, cut>>

Records == [status : {"COMPLETED", "FAILED"}, id : Provenances]
States == {"STARTED", "RUNNING", "FAILED", "COMPLETED"}
Manifests == [prov : Provenances, cells : [Cells -> Records \cup {None}],
              state : States, mixed : BOOLEAN]

ASSUME FileAssumption == {None, Corrupt, Torn} \cap (Manifests \cup Records) = {}

NoCells == [c \in Cells |-> None]
Fresh(p, cells) == [prov |-> p, cells |-> cells, state |-> "STARTED", mixed |-> FALSE]
Readable(c) == receipt[c] \notin {None, Torn}
Completed(r) == r # None /\ r.status = "COMPLETED"
HasEvidence(c) == Readable(c) /\ Completed(receipt[c])

Init ==
    /\ run = None /\ planned = None /\ matrix = None
    /\ receipt = [c \in Cells |-> None]
    /\ pc = "idle" /\ env = None /\ manifest = None /\ resume = FALSE /\ cell = 1
    /\ refused = None
    /\ faults = 0 /\ invocations = 0
    /\ used = {} /\ done = {} /\ lost = {} /\ cut = FALSE

------------------------------------------------------------------------------
(* Opening the run *)

\* Mutant: a run that is rebuilt starts with no records.
RebuiltEmpty == NoCells

\* The records of the receipts that say COMPLETED, with their own provenance.
RebuiltCells == [c \in Cells |-> IF HasEvidence(c) THEN receipt[c] ELSE None]

\* Cells finished for what is on disk: the receipt says COMPLETED, and so does
\* run.json, or it is unreadable.
Done == {c \in Cells : /\ run # None /\ HasEvidence(c)
                       /\ run = Corrupt \/ Completed(run.cells[c])}

Open(p) ==
    /\ pc = "idle" /\ invocations < MaxInvocations
    /\ invocations' = invocations + 1
    /\ env' = p /\ used' = used \cup {p}
    /\ resume' = (run # None)
    /\ done' = Done
    /\ cell' = 1
    /\ UNCHANGED <<disk, faults, lost, cut>>

Refuse(why) == refused' = why /\ pc' = "idle" /\ manifest' = None
Proceed(next, m) == refused' = None /\ pc' = next /\ manifest' = m

StartFresh(p) ==
    /\ Open(p) /\ run = None
    /\ Proceed("plan", Fresh(p, NoCells))

StartRebuilding(p) ==
    /\ Open(p) /\ run = Corrupt
    /\ Proceed("plan", Fresh(p, RebuiltCells))

ResumeSame(p) ==
    /\ Open(p) /\ run \notin {None, Corrupt} /\ run.prov = p
    /\ IF planned = Command[p] THEN Proceed("matrix", run) ELSE Refuse("plan")

\* Mutant: the records of the cells take the new provenance with them.
ResumeChangedRelabelling(p, accept) ==
    /\ Open(p) /\ run \notin {None, Corrupt} /\ run.prov # p
    /\ IF accept
       THEN Proceed("matrix", [run EXCEPT !.prov = p, !.cells =
                [c \in Cells |-> IF Completed(run.cells[c]) THEN [run.cells[c] EXCEPT !.id = p]
                                 ELSE run.cells[c]]])
       ELSE Refuse("provenance")

\* accept is --accept-provenance-change.  run.json changes with the next cell.
ResumeChanged(p, accept) ==
    /\ Open(p) /\ run \notin {None, Corrupt} /\ run.prov # p
    /\ IF accept THEN Proceed("matrix", [run EXCEPT !.prov = p]) ELSE Refuse("provenance")

\* --mode=dry-run writes its plan to the same root, over what is there, and may be
\* cut short after open() has emptied the file.
DryRun(p) ==
    /\ pc = "idle" /\ invocations < MaxInvocations
    /\ invocations' = invocations + 1
    /\ used' = used \cup {p}
    /\ planned' \in {Command[p], Torn} /\ cut' = (planned' = Torn)
    /\ refused' = None
    /\ UNCHANGED <<run, matrix, receipt, pc, env, manifest, resume, cell, faults, done, lost>>

Local == UNCHANGED <<env, resume, faults, invocations, used, done>>
SameHistory == UNCHANGED <<lost, cut>>

\* Mutant: only a rebuilt run writes it.
WritePlanRebuilding ==
    /\ pc = "plan"
    /\ planned' = IF resume THEN Command[env] ELSE planned
    /\ pc' = "manifest" /\ cut' = FALSE
    /\ UNCHANGED <<run, matrix, receipt, manifest, cell, refused, lost>> /\ Local

\* The whole file, or what the invocation left of it when it was cut short.
WritePlan ==
    /\ pc = "plan"
    /\ \/ planned' = Command[env] /\ pc' = "manifest" /\ UNCHANGED manifest
       \/ planned' = Torn /\ pc' = "idle" /\ manifest' = None
    /\ cut' = FALSE
    /\ UNCHANGED <<run, matrix, receipt, cell, refused, lost>> /\ Local

WriteManifest ==
    /\ pc = "manifest"
    /\ run' = manifest
    /\ pc' = "matrix"
    /\ UNCHANGED <<planned, matrix, receipt, manifest, cell, refused>> /\ Local /\ SameHistory

\* A fresh run copies the matrix; the copy may be cut short, or find a file that
\* changed since it was hashed, which ends the invocation.
ArchiveMatrix ==
    /\ pc = "matrix" /\ ~resume
    /\ \/ matrix' = Matrix[env] /\ pc' = "revalidate" /\ UNCHANGED manifest
       \/ matrix' = Torn /\ pc' = "idle" /\ manifest' = None
    /\ UNCHANGED <<run, planned, receipt, cell, refused>> /\ Local /\ SameHistory

CheckMatrix ==
    /\ pc = "matrix" /\ resume
    /\ IF matrix = Matrix[manifest.prov] THEN Proceed("revalidate", manifest)
       ELSE Refuse("matrix")
    /\ UNCHANGED <<disk, cell>> /\ Local /\ SameHistory

------------------------------------------------------------------------------
(* Running the cells *)

Revalidate ==
    /\ pc = "revalidate"
    /\ manifest' = [manifest EXCEPT !.cells =
           [c \in Cells |-> IF Completed(manifest.cells[c]) /\ HasEvidence(c)
                            THEN manifest.cells[c] ELSE None]]
    /\ pc' = "cells"
    /\ UNCHANGED <<disk, cell, refused>> /\ Local /\ SameHistory

\* Only cells revalidated as completed have a record before their turn.
Skip ==
    /\ pc = "cells" /\ cell \in Cells /\ manifest.cells[cell] # None
    /\ cell' = cell + 1
    /\ UNCHANGED <<disk, pc, manifest, refused>> /\ Local /\ SameHistory

\* The old directory, its receipt in it, is moved aside.
StartCell ==
    /\ pc = "cells" /\ cell \in Cells /\ manifest.cells[cell] = None
    /\ receipt' = [receipt EXCEPT ![cell] = None]
    /\ pc' = "running"
    /\ UNCHANGED <<run, planned, matrix, manifest, cell, refused>> /\ Local /\ SameHistory

\* The process ends, or times out, and the receipt is written, or half of it.
EndCell ==
    /\ pc = "running"
    /\ \/ /\ \E s \in {"COMPLETED", "FAILED"} :
               receipt' = [receipt EXCEPT ![cell] = [status |-> s, id |-> env]]
          /\ pc' = "record" /\ UNCHANGED manifest
       \/ receipt' = [receipt EXCEPT ![cell] = Torn] /\ pc' = "idle" /\ manifest' = None
    /\ UNCHANGED <<run, planned, matrix, cell, refused>> /\ Local /\ SameHistory

Recorded == [manifest EXCEPT !.cells[cell] = receipt[cell], !.state = "RUNNING"]

RecordCell ==
    /\ pc = "record"
    /\ manifest' = Recorded /\ run' = Recorded
    /\ cell' = cell + 1
    /\ pc' = "cells"
    /\ lost' = lost \ {cell}
    /\ UNCHANGED <<planned, matrix, receipt, refused, cut>> /\ Local

Seen(m) == {m.cells[c].id : c \in {c \in Cells : m.cells[c] # None}}

\* Mutant: mixed only if the cells disagree with each other.
FinishedAmongCells ==
    [manifest EXCEPT
        !.state = IF \E c \in Cells : manifest.cells[c].status = "FAILED" THEN "FAILED"
                  ELSE "COMPLETED",
        !.mixed = @ \/ Cardinality(Seen(manifest)) > 1]

\* Every cell has a record; failed ones are of this invocation.  Nothing takes
\* mixed_provenance back.
Finished ==
    [manifest EXCEPT
        !.state = IF \E c \in Cells : manifest.cells[c].status = "FAILED" THEN "FAILED"
                  ELSE "COMPLETED",
        !.mixed = @ \/ (Seen(manifest) # {} /\ Seen(manifest) # {env})]

Finish ==
    /\ pc = "cells" /\ cell \notin Cells
    /\ run' = Finished
    /\ pc' = "idle" /\ manifest' = None
    /\ UNCHANGED <<planned, matrix, receipt, cell, refused>> /\ Local /\ SameHistory

------------------------------------------------------------------------------

Interrupted ==
    /\ pc # "idle"
    /\ pc' = "idle" /\ manifest' = None
    /\ UNCHANGED <<disk, cell, refused>> /\ Local /\ SameHistory

\* External: what the script's comments expect of the disk between invocations.
Damage ==
    /\ pc = "idle" /\ faults < MaxFaults
    /\ faults' = faults + 1
    /\ \/ run # None /\ run' = Corrupt /\ UNCHANGED <<receipt, lost>>
       \/ \E c \in Cells : /\ receipt' = [receipt EXCEPT ![c] = None]
                          /\ lost' = lost \cup {c} /\ UNCHANGED run
    /\ UNCHANGED <<planned, matrix, pc, env, manifest, resume, cell, refused, invocations,
                   used, done, cut>>

Next ==
    \/ \E p \in Provenances : \/ StartFresh(p) \/ StartRebuilding(p) \/ ResumeSame(p)
                              \/ \E accept \in BOOLEAN : ResumeChanged(p, accept)
                              \/ DryRun(p)
    \/ WritePlan \/ WriteManifest \/ ArchiveMatrix \/ CheckMatrix
    \/ Revalidate \/ Skip \/ StartCell \/ EndCell \/ RecordCell \/ Finish
    \/ Interrupted \/ Damage

Spec == Init /\ [][Next]_vars

------------------------------------------------------------------------------
(* Properties *)

\* A COMPLETED record of run.json is the receipt of its cell, its provenance
\* included, through accepted changes, rebuilt manifests and crashes; only a cell
\* whose receipt was lost may have a record of an older attempt.
AttributedUnlessLost ==
    run \notin {None, Corrupt} => \A c \in Cells \ lost :
        Completed(run.cells[c]) => HasEvidence(c) /\ receipt[c] = run.cells[c]

\* A run that ends while a cell was measured under another provenance than its own,
\* by its record, or by its receipt if that was never lost, is marked mixed.
MixedTold ==
    [][Finish => ((\E c \in Cells : \/ run'.cells[c].id # run'.prov
                                    \/ c \notin lost /\ receipt[c].id # run'.prov)
                  => run'.mixed)]_vars

\* The comment on the mark: a run whose cells were measured under more than one
\* provenance must say so, and the receipts are the authoritative record.  Not so
\* where an older record outlived its receipt: the cell was run again under an
\* accepted change and the invocation ended before the cell was recorded.
MixedToldOfReceipts ==
    [][Finish => ((\E c \in Cells : Readable(c) /\ receipt[c].id # run'.prov)
                  => run'.mixed)]_vars

\* No cell is run again that the invocation found finished: its receipt and its
\* record say COMPLETED, or its receipt does and run.json was unreadable.
RecordedWorkKept == [][StartCell => cell \notin done]_vars

\* A plan is refused only where a dry run was cut short over the root's plan or the
\* provenances used have different commands, a matrix only where the copy is
\* missing or cut short or theirs differ, a provenance only where two were used.
ResumesOnceArchived ==
    /\ refused = "plan" => cut \/ \E p, q \in used : Command[p] # Command[q]
    /\ refused = "matrix" => \/ matrix \in {None, Torn}
                             \/ \E p, q \in used : Matrix[p] # Matrix[q]
    /\ refused = "provenance" => \E p, q \in used : p # q

==============================================================================
