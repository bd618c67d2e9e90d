-------------------------- MODULE MCCiphertextStore --------------------------
(* Two callers, two owners and one name that is neither, epochs 0..2 so that *)
(* the largest epoch is reached, two parameter sets and two crypto bindings. *)
EXTENDS CiphertextStore, TLC

CONSTANTS t1, t2
MCSymmetry == Permutations({t1, t2})
==============================================================================
