---------------------------- MODULE MCRevisionRun ----------------------------
(* Two phases with cells: a producer and a cell that is not spawned in the    *)
(* first, one producer in the second.                                         *)
EXTENDS RevisionRun

MCPhaseOf == <<1, 1, 2>>
MCSpawned == {1, 3}
==============================================================================
