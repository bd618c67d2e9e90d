---------------------------- MODULE MCTable9Sweep ----------------------------
(* Two cells; a second provenance with the same commands (a rebuilt binary), *)
(* one with other commands (threads), and one with another matrix.           *)
EXTENDS Table9Sweep

MCCommand == [p \in Provenances |-> IF p = "threads" THEN "argv8" ELSE "argv16"]
MCMatrix == [p \in Provenances |-> IF p = "matrix" THEN "matrix2" ELSE "matrix1"]
==============================================================================
