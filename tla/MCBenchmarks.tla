---------------------------- MODULE MCBenchmarks ----------------------------
(* The two programs around the benchmarks that keep files, the Table IX      *)
(* runner and the preparation of datasets with their loader.  They share     *)
(* nothing: a behaviour is one program's, and the other stays as it began.   *)
EXTENDS MCTable9Sweep, MCRealDatasetLoad

VARIABLE program  \* "sweep" or "loader"

BenchmarksInit ==
    /\ program \in {"sweep", "loader"}
    /\ Init /\ LoadInit
    /\ program = "sweep" => dir = Absent

Sweep == program = "sweep" /\ UNCHANGED <<loadVars, program>>
Loader == program = "loader" /\ UNCHANGED <<vars, program>>

\* The actions of Next and of LoadNext, one by one.
BenchmarksNext ==
    \/ Sweep /\ \E p \in Provenances : StartFresh(p)
    \/ Sweep /\ \E p \in Provenances : StartRebuilding(p)
    \/ Sweep /\ \E p \in Provenances : ResumeSame(p)
    \/ Sweep /\ \E p \in Provenances, accept \in BOOLEAN : ResumeChanged(p, accept)
    \/ Sweep /\ \E p \in Provenances : DryRun(p)
    \/ Sweep /\ WritePlan
    \/ Sweep /\ WriteManifest
    \/ Sweep /\ ArchiveMatrix
    \/ Sweep /\ CheckMatrix
    \/ Sweep /\ Revalidate
    \/ Sweep /\ Skip
    \/ Sweep /\ StartCell
    \/ Sweep /\ EndCell
    \/ Sweep /\ RecordCell
    \/ Sweep /\ Finish
    \/ Sweep /\ Interrupted
    \/ Sweep /\ Damage
    \/ Loader /\ \E g \in Prepared : Stage(g)
    \/ Loader /\ RenameAway
    \/ Loader /\ RenameIn
    \/ Loader /\ RenameFails
    \/ Loader /\ RemoveBackup
    \/ Loader /\ Killed
    \/ Loader /\ ReadManifest
    \/ Loader /\ ResolvePaths
    \/ Loader /\ \E role \in DOMAIN NextRole : ReadFile(role)
    \/ Loader /\ Parse
    \/ Loader /\ LoadAgain

BenchmarksSpec == BenchmarksInit /\ [][BenchmarksNext]_<<vars, loadVars, program>>
==============================================================================
