----------------------------- MODULE RevisionRun -----------------------------
(***************************************************************************)
(* scripts/run_revision_benchmarks.py in its executable modes: a run of    *)
(* the revision matrix phase by phase, --resume of what a crash or a       *)
(* failure left, the structural part of the verification, and the seal.    *)
(* Every write of run.json, phases.jsonl, events.jsonl and a receipt is a  *)
(* step; the process may end between two of them or in the middle of one,  *)
(* which leaves the file Torn.  A time is the number of the invocation.    *)
(* Identity and provenance of a resume are those of the run: any other is  *)
(* refused before the root is touched.  resume.jsonl, which only the seal  *)
(* hashes, is left out.                                                    *)
(***************************************************************************)
EXTENDS Naturals, SequencesExt

CONSTANTS
    CellCount,      \* cells are 1..CellCount in the order of the matrix
    LastPhase,      \* PHASES: 0 is preflight, then the phases with cells
    PhaseOf,        \* phase_for_cell
    Spawned,        \* cells whose invocation_status is RUN; the others NO_SPAWN
    None, Torn,     \* an absent and an unreadable file
    MaxInvocations, \* bound on invocations
    MaxFaults       \* bound on receipts lost between them

Cells == 1..CellCount
Verification == LastPhase + 1
Seal == LastPhase + 2
Phases == 0..Seal

ASSUME CellAssumption ==
    /\ CellCount \in Nat /\ LastPhase \in Nat
    /\ PhaseOf \in [Cells -> 1..LastPhase] /\ Spawned \subseteq Cells
ASSUME BoundAssumption == MaxInvocations \in Nat /\ MaxFaults \in Nat

Attempts == 1..MaxInvocations
Marks == {"STARTED", "COMPLETED"}

Manifests == [state : {"PLANNED", "RUNNING", "VERIFYING", "COMPLETED", "FAILED"},
              status : [Phases -> Marks \cup {"PENDING"}],
              sequence : Nat, spawned : Nat, resumes : Nat]
PhaseRecords == [phase : Phases, state : Marks, time : Nat]
EventRecords == [seq : Nat, cell : Cells, event : {"START", "END"}, ok : BOOLEAN, time : Nat]
Receipts == [status : {"NO_SPAWN", "COMPLETED", "FAILED"}, time : Nat, start : Nat, end : Nat]
Archives == [phases : Seq(PhaseRecords), events : Seq(EventRecords),
             receipts : [Cells -> Receipts \cup {None, Torn}]]

ASSUME FileAssumption ==
    /\ None # Torn
    /\ {None, Torn} \cap (Manifests \cup Receipts \cup Archives) = {}
    /\ None \notin {"installed", "checked"}

VARIABLES
    root,       \* does the results root exist?
    run,        \* run.json: None, Torn or a manifest
    planned,    \* planned_argv.jsonl: all records are there
    phases,     \* phases.jsonl: Torn or the records
    events,     \* events.jsonl: Torn or the records
    receipt,    \* cell -> None, Torn or its receipt
    files,      \* the cells whose directory is not empty
    superseded, \* attempt -> None or what is below superseded/attempt-n
    verified,   \* verification/receipt.json says PASS
    seal,       \* None, "installed", or "checked" with its checksum file
    pc, manifest, phase, mark, cell,
    complete,   \* completed_cells, and the cells run since
    time, faults

evidence == <<phases, events, receipt, files>>
disk == <<root, run, planned, evidence, superseded, verified, seal>>
local == <<phase, mark, cell, complete>>
counts == <<time, faults>>
vars == <<disk, pc, manifest, local, counts>>

Init ==
    /\ root = FALSE /\ run = None /\ planned = FALSE
    /\ phases = <<>> /\ events = <<>>
    /\ receipt = [c \in Cells |-> None] /\ files = {}
    /\ superseded = [n \in Attempts |-> None]
    /\ verified = FALSE /\ seal = None
    /\ pc = "idle" /\ manifest = None
    /\ phase = 0 /\ mark = "STARTED" /\ cell = None /\ complete = {}
    /\ time = 0 /\ faults = 0

Ends == pc' = "idle" /\ manifest' = None

\* run()'s handler marks the run.json on disk, unless the process ends before.
Failed == IF run \in {None, Torn} THEN run ELSE [run EXCEPT !.state = "FAILED"]
Fails == run' \in {run, Failed} /\ Ends

------------------------------------------------------------------------------
(* A fresh run *)

Fresh ==
    /\ pc = "idle" /\ ~root /\ time < MaxInvocations
    /\ time' = time + 1 /\ root' = TRUE
    /\ pc' = "create"
    /\ manifest' = [state |-> "PLANNED", status |-> [p \in Phases |-> "PENDING"],
                    sequence |-> 0, spawned |-> 0, resumes |-> 0]
    /\ phase' = 0 /\ mark' = "STARTED" /\ complete' = {}
    /\ UNCHANGED <<run, planned, evidence, superseded, verified, seal, cell, faults>>

WriteInitial ==
    /\ pc = "create"
    /\ run' = manifest /\ pc' = "plan"
    /\ UNCHANGED <<root, planned, evidence, superseded, verified, seal, manifest,
                   local, counts>>

RecordPlans ==
    /\ pc = "plan"
    /\ planned' = TRUE /\ pc' = "running"
    /\ UNCHANGED <<root, run, evidence, superseded, verified, seal, manifest, local, counts>>

\* manifest["state"] = s; write_json; on to next.
WriteState(s, next) ==
    /\ manifest' = [manifest EXCEPT !.state = s]
    /\ run' = manifest' /\ pc' = next
    /\ UNCHANGED <<root, planned, evidence, superseded, verified, seal, cell, complete, counts>>

\* Enters the loop at phase, which is resume_index; every cell is complete when
\* that is verification.
WriteRunning ==
    /\ pc = "running"
    /\ WriteState("RUNNING", IF phase = Verification THEN "verifying" ELSE "phase")
    /\ UNCHANGED <<phase, mark>>

\* _phase
WritePhase ==
    /\ pc = "phase"
    /\ manifest' = [manifest EXCEPT !.status[phase] = mark]
    /\ run' = manifest' /\ pc' = "stream"
    /\ UNCHANGED <<root, planned, evidence, superseded, verified, seal, local,
                   counts>>

AppendPhase ==
    /\ pc = "stream"
    /\ phases' = Append(phases, [phase |-> phase, state |-> mark, time |-> time])
    /\ CASE mark = "STARTED" /\ phase = 0 ->
                pc' = "phase" /\ mark' = "COMPLETED" /\ UNCHANGED phase
         [] mark = "STARTED" /\ phase \in 1..LastPhase ->
                pc' = "cells" /\ UNCHANGED <<phase, mark>>
         [] mark = "STARTED" /\ phase = Verification ->
                pc' = "verify" /\ UNCHANGED <<phase, mark>>
         [] mark = "STARTED" /\ phase = Seal ->
                pc' = "finish" /\ UNCHANGED <<phase, mark>>
         [] mark = "COMPLETED" /\ phase = LastPhase ->
                pc' = "verifying" /\ UNCHANGED <<phase, mark>>
         [] OTHER -> pc' = "phase" /\ phase' = phase + 1 /\ mark' = "STARTED"
    /\ UNCHANGED <<root, run, planned, events, receipt, files, superseded, verified, seal,
                   manifest, cell, complete, counts>>

------------------------------------------------------------------------------
(* _run_one *)

Pending == {c \in Cells : PhaseOf[c] = phase /\ c \notin complete}

NoCellLeft ==
    /\ pc = "cells" /\ Pending = {}
    /\ mark' = "COMPLETED" /\ pc' = "phase"
    /\ UNCHANGED <<disk, manifest, phase, cell, complete, counts>>

Event(s, e, ok) == [seq |-> s, cell |-> cell', event |-> e, ok |-> ok, time |-> time]

StartCell ==
    /\ pc = "cells" /\ Pending # {}
    /\ cell' = CHOOSE c \in Pending : \A d \in Pending : c <= d
    /\ files' = files \cup {cell'}
    /\ IF cell' \in Spawned
       THEN /\ manifest' = [manifest EXCEPT !.sequence = @ + 1]
            /\ events' = Append(events, Event(manifest'.sequence, "START", TRUE))
            /\ pc' = "producer"
       ELSE pc' = "receipt" /\ UNCHANGED <<manifest, events>>
    /\ UNCHANGED <<root, run, planned, phases, receipt, superseded, verified, seal, phase,
                   mark, complete, counts>>

\* The producer exits, or is stopped at its timeout.
EndCell ==
    /\ pc = "producer"
    /\ UNCHANGED cell
    /\ manifest' = [manifest EXCEPT !.sequence = @ + 1]
    /\ \E ok \in BOOLEAN : events' = Append(events, Event(manifest'.sequence, "END", ok))
    /\ pc' = "receipt"
    /\ UNCHANGED <<root, run, planned, phases, receipt, files, superseded, verified, seal,
                   phase, mark, complete, counts>>

Status ==
    IF cell \notin Spawned THEN "NO_SPAWN"
    ELSE IF events[Len(events)].ok THEN "COMPLETED" ELSE "FAILED"

\* A failed producer ends the invocation, after its receipt.
WriteReceipt ==
    /\ pc = "receipt"
    /\ receipt' = [receipt EXCEPT ![cell] =
           [status |-> Status, time |-> time,
            start |-> IF cell \in Spawned THEN manifest.sequence - 1 ELSE 0,
            end |-> IF cell \in Spawned THEN manifest.sequence ELSE 0]]
    /\ IF Status = "FAILED" THEN Fails /\ UNCHANGED complete
       ELSE /\ manifest' = [manifest EXCEPT !.spawned = IF cell \in Spawned THEN @ + 1 ELSE @]
            /\ complete' = complete \cup {cell}
            /\ pc' = "cells" /\ UNCHANGED run
    /\ UNCHANGED <<root, planned, phases, events, files, superseded, verified, seal, phase,
                   mark, cell, counts>>

------------------------------------------------------------------------------
(* --resume *)

\* Where the records of a cell stand in events.jsonl.
EventsOf(c) == {i \in DOMAIN events : events[i].cell = c}

\* They are its START and then its END with exit code 0.
RanOnce(c) == \E i, j \in EventsOf(c) :
    /\ i < j /\ EventsOf(c) = {i, j}
    /\ events[i].event = "START" /\ events[j].event = "END" /\ events[j].ok

\* _cell_is_complete: the receipt's hashes and argv bind what the producer left.
CellIsComplete(c) ==
    /\ receipt[c] \notin {None, Torn}
    /\ IF c \in Spawned
       THEN receipt[c].status = "COMPLETED" /\ RanOnce(c)
       ELSE receipt[c].status = "NO_SPAWN" /\ EventsOf(c) = {}

Complete == {c \in Cells : CellIsComplete(c)}

\* The first phase that owes a cell; preflight never does.
ResumeIndex ==
    LET owing == {p \in 1..LastPhase : \E c \in Cells : PhaseOf[c] = p /\ c \notin Complete}
    IN  IF owing = {} THEN Verification ELSE CHOOSE p \in owing : \A q \in owing : p <= q

\* Mutant: the state of run.json says it all.
AdmissionByState == run # Torn /\ run.state # "COMPLETED"

\* _require_resumable_manifest
Admission == seal = None /\ ~verified /\ run # Torn /\ run.state # "COMPLETED"

Attempt == manifest.resumes + 1

\* Refused outside run()'s handler, or inside it, which marks run.json.
Resume ==
    /\ pc = "idle" /\ run # None /\ time < MaxInvocations
    /\ time' = time + 1
    /\ IF Admission /\ planned /\ events # Torn /\ superseded[run.resumes + 1] = None
       THEN /\ manifest' = run /\ complete' = Complete
            /\ phase' = ResumeIndex /\ mark' = "STARTED" /\ pc' = "archive"
            /\ UNCHANGED run
       ELSE /\ run' \in {run, IF Admission THEN Failed ELSE run}
            /\ UNCHANGED <<pc, manifest, phase, mark, complete>>
    /\ UNCHANGED <<root, planned, evidence, superseded, verified, seal, cell, faults>>

Repairing == UNCHANGED <<root, planned, verified, seal, local, counts>>

MakeArchive ==
    /\ pc = "archive"
    /\ superseded' = [superseded EXCEPT ![Attempt] =
           [phases |-> <<>>, events |-> <<>>, receipts |-> [c \in Cells |-> None]]]
    /\ pc' = "dropPhases"
    /\ UNCHANGED <<run, evidence, manifest>> /\ Repairing

\* STARTED and COMPLETED of every phase below p.
PhasesBelow(p) == [i \in 1..(2 * p) |-> <<(i - 1) \div 2, IF i % 2 = 1 THEN "STARTED" ELSE "COMPLETED">>]
Observed == [i \in DOMAIN phases |-> <<phases[i].phase, phases[i].state>>]

DropPhases ==
    /\ pc = "dropPhases"
    /\ IF phases # Torn /\ IsPrefix(PhasesBelow(phase), Observed)
       THEN /\ superseded' = [superseded EXCEPT ![Attempt].phases =
                   SubSeq(phases, 2 * phase + 1, Len(phases))]
            /\ pc' = "cutPhases" /\ UNCHANGED <<run, manifest>>
       ELSE Fails /\ UNCHANGED superseded
    /\ UNCHANGED evidence /\ Repairing

CutPhases ==
    /\ pc = "cutPhases"
    /\ phases' = SubSeq(phases, 1, 2 * phase)
    /\ pc' = "dropEvents"
    /\ UNCHANGED <<run, events, receipt, files, superseded, manifest>> /\ Repairing

Retained == {i \in DOMAIN events : events[i].cell \in complete}

\* The records of s at these places, in their order.
Subsequence(s, places) ==
    [n \in 1..Cardinality(places) |->
        s[CHOOSE k \in places : Cardinality({j \in places : j <= k}) = n]]

Kept == Subsequence(events, Retained)

DropEvents ==
    /\ pc = "dropEvents"
    /\ superseded' = [superseded EXCEPT ![Attempt].events =
           Subsequence(events, DOMAIN events \ Retained)]
    /\ pc' = "cutEvents"
    /\ UNCHANGED <<run, evidence, manifest>> /\ Repairing

\* Mutant: the kept events keep their numbers.
CutEventsOnly ==
    /\ pc = "cutEvents"
    /\ events' = Kept
    /\ pc' = "renumber"
    /\ UNCHANGED <<run, phases, receipt, files, superseded, manifest>> /\ Repairing

CutEvents ==
    /\ pc = "cutEvents"
    /\ events' = [i \in DOMAIN Kept |-> [Kept[i] EXCEPT !.seq = i]]
    /\ pc' = "renumber"
    /\ UNCHANGED <<run, phases, receipt, files, superseded, manifest>> /\ Repairing

Renumbered(c) == [receipt[c] EXCEPT !.start = events[Min(EventsOf(c))].seq,
                                    !.end = events[Max(EventsOf(c))].seq]
Misnumbered == {c \in complete : EventsOf(c) # {} /\ receipt[c] # Renumbered(c)}

RenumberReceipt(c) ==
    /\ pc = "renumber" /\ c \in Misnumbered
    /\ receipt' = [receipt EXCEPT ![c] = Renumbered(c)]
    /\ UNCHANGED <<run, phases, events, files, superseded, pc, manifest>> /\ Repairing

ReceiptsAgree ==
    /\ pc = "renumber" /\ Misnumbered = {}
    /\ pc' = "move"
    /\ UNCHANGED <<run, evidence, superseded, manifest>> /\ Repairing

\* The cells to run again.
Stale == files \ complete

\* Mutant: the directory is deleted.
DeleteCell(c) ==
    /\ pc = "move" /\ c \in Stale
    /\ receipt' = [receipt EXCEPT ![c] = None] /\ files' = files \ {c}
    /\ UNCHANGED <<run, phases, events, superseded, pc, manifest>> /\ Repairing

MoveCell(c) ==
    /\ pc = "move" /\ c \in Stale
    /\ superseded' = [superseded EXCEPT ![Attempt].receipts[c] = receipt[c]]
    /\ receipt' = [receipt EXCEPT ![c] = None] /\ files' = files \ {c}
    /\ UNCHANGED <<run, phases, events, pc, manifest>> /\ Repairing

WriteResumed ==
    /\ pc = "move" /\ Stale = {}
    /\ manifest' = [manifest EXCEPT !.resumes = Attempt, !.sequence = Len(events),
           !.spawned = Cardinality(complete \cap Spawned),
           !.status = [p \in Phases |-> IF p < phase THEN "COMPLETED" ELSE "PENDING"]]
    /\ run' = manifest' /\ pc' = "running"
    /\ UNCHANGED <<evidence, superseded>> /\ Repairing

------------------------------------------------------------------------------
(* Verification and seal *)

WriteVerifying ==
    /\ pc = "verifying"
    /\ WriteState("VERIFYING", "phase")
    /\ phase' = Verification /\ mark' = "STARTED"

\* _check_phases: every phase up to last in order, and last only STARTED.
PhasesExact(last) == Observed = Append(PhasesBelow(last), <<last, "STARTED">>)

\* _check_events
EventsExact ==
    /\ \A i \in DOMAIN events : events[i].seq = i
    /\ \A c \in Spawned : RanOnce(c)

\* _check_receipts
ReceiptsExact ==
    \A c \in Cells :
        /\ receipt[c] \notin {None, Torn}
        /\ receipt[c].status = IF c \in Spawned THEN "COMPLETED" ELSE "NO_SPAWN"
        /\ c \in Spawned => /\ receipt[c].start = events[Min(EventsOf(c))].seq
                            /\ receipt[c].end = events[Max(EventsOf(c))].seq

Verifies(last) == PhasesExact(last) /\ EventsExact /\ ReceiptsExact

\* The checks of the families' artifacts, which are not modelled, may fail as well.
Verify ==
    /\ pc = "verify"
    /\ \/ /\ Verifies(Verification)
          /\ verified' = TRUE /\ manifest' = run
          /\ pc' = "phase" /\ mark' = "COMPLETED" /\ UNCHANGED run
       \/ Fails /\ UNCHANGED <<verified, mark>>
    /\ UNCHANGED <<root, planned, evidence, superseded, seal, phase, cell, complete, counts>>

WriteCompleted ==
    /\ pc = "finish"
    /\ WriteState("COMPLETED", "seal")
    /\ UNCHANGED <<phase, mark>>

\* seal_revision_benchmarks.py from the command line.
SealByHand ==
    /\ pc = "idle" /\ run \notin {None, Torn}
    /\ seal = None /\ run.state = "COMPLETED" /\ verified
    /\ pc' = "seal"
    /\ UNCHANGED <<disk, manifest, local, counts>>

InstallSeal ==
    /\ pc = "seal"
    /\ seal' = "installed" /\ pc' = "checksum"
    /\ UNCHANGED <<root, run, planned, evidence, superseded, verified, manifest, local, counts>>

InstallChecksum ==
    /\ pc = "checksum"
    /\ seal' = "checked" /\ Ends
    /\ UNCHANGED <<root, run, planned, evidence, superseded, verified, local,
                   counts>>

------------------------------------------------------------------------------
(* What happens to the process and to the root *)

\* An exception anywhere else, or the end of the process; the seal's own command
\* has no manifest and no handler.
Interrupted ==
    /\ pc # "idle"
    /\ IF manifest = None THEN UNCHANGED run /\ Ends ELSE Fails
    /\ UNCHANGED <<root, planned, evidence, superseded, verified, seal, local, counts>>

\* External: the process ends inside a write, which leaves its file Torn.
\* verification/receipt.json and the seal are not torn: the first is read for its
\* presence only, the second is linked into place.
TornWrite ==
    /\ \/ /\ pc \in {"create", "running", "phase", "move", "verifying", "finish"}
          /\ run' = Torn /\ UNCHANGED evidence
       \/ pc \in {"stream", "cutPhases"} /\ phases' = Torn
          /\ UNCHANGED <<run, events, receipt, files>>
       \/ pc \in {"producer", "cutEvents"} /\ events' = Torn
          /\ UNCHANGED <<run, phases, receipt, files>>
       \/ pc = "receipt" /\ receipt' = [receipt EXCEPT ![cell] = Torn]
          /\ UNCHANGED <<run, phases, events, files>>
       \/ /\ pc = "renumber"
          /\ \E c \in Misnumbered : receipt' = [receipt EXCEPT ![c] = Torn]
          /\ UNCHANGED <<run, phases, events, files>>
    /\ Ends
    /\ UNCHANGED <<root, planned, superseded, verified, seal, local, counts>>

\* External: a receipt is lost, or its directory changed, between invocations.
LoseReceipt(c) ==
    /\ pc = "idle" /\ faults < MaxFaults /\ receipt[c] # None /\ ~verified
    /\ faults' = faults + 1
    /\ receipt' = [receipt EXCEPT ![c] = None]
    /\ UNCHANGED <<root, run, planned, phases, events, files, superseded, verified, seal, pc,
                   manifest, local, time>>

Next ==
    \/ Fresh \/ WriteInitial \/ RecordPlans \/ WriteRunning \/ WritePhase \/ AppendPhase
    \/ NoCellLeft \/ StartCell \/ EndCell \/ WriteReceipt
    \/ Resume \/ MakeArchive \/ DropPhases \/ CutPhases \/ DropEvents \/ CutEvents
    \/ ReceiptsAgree \/ WriteResumed
    \/ \E c \in Cells : RenumberReceipt(c) \/ MoveCell(c) \/ LoseReceipt(c)
    \/ WriteVerifying \/ Verify \/ WriteCompleted
    \/ SealByHand \/ InstallSeal \/ InstallChecksum
    \/ Interrupted \/ TornWrite

Spec == Init /\ [][Next]_vars

------------------------------------------------------------------------------
(* Properties *)

\* A run that gets as far as its verification, through any crashes, failures,
\* lost receipts and resumes, has the streams and receipts of one that never
\* crashed, and counts every spawned producer once.
VerifiesLikeFresh ==
    pc = "verify" => Verifies(Verification) /\ manifest.spawned = Cardinality(Spawned)

SameEvent(e, f) == e.cell = f.cell /\ e.event = f.event /\ e.time = f.time

\* What a step leaves of a record of events.jsonl and of phases.jsonl, and of a
\* whole receipt: it is where it was, or below superseded/.
EventsStay ==
    events # Torn /\ events' # Torn => \A i \in DOMAIN events :
        \/ \E j \in DOMAIN events' : SameEvent(events[i], events'[j])
        \/ \E n \in Attempts : superseded'[n] # None
              /\ \E j \in DOMAIN superseded'[n].events : SameEvent(events[i], superseded'[n].events[j])
PhasesStay ==
    phases # Torn /\ phases' # Torn => \A i \in DOMAIN phases :
        \/ \E j \in DOMAIN phases' : phases'[j] = phases[i]
        \/ \E n \in Attempts : superseded'[n] # None
              /\ \E j \in DOMAIN superseded'[n].phases : phases[i] = superseded'[n].phases[j]
ReceiptsStay ==
    \A c \in Cells : receipt[c] \notin {None, Torn} =>
        \/ receipt'[c] # None /\ (receipt'[c] # Torn => receipt'[c].time = receipt[c].time)
        \/ \E n \in Attempts : superseded'[n] # None /\ superseded'[n].receipts[c] = receipt[c]

\* A whole record leaves a stream, and a receipt its directory, only for
\* superseded/: no step of a resume that is not cut short in a write loses one.
NothingDestroyed ==
    [][pc # "idle" => EventsStay /\ PhasesStay /\ ReceiptsStay]_vars

\* What was verified and sealed stays as it was verified: nothing rewrites it.
SealedStaysVerified == seal # None => verified /\ Verifies(Seal)

==============================================================================
