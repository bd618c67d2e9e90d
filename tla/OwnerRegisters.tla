---------------------------- MODULE OwnerRegisters ----------------------------
(***************************************************************************)
(* What the cloud's ciphertext store promises its two owners: one          *)
(* versioned register per owner.  A step installs the next version of one  *)
(* owner's ciphertext; versions are neither skipped nor reused, and the    *)
(* other owner's register does not move.                                   *)
(***************************************************************************)
EXTENDS Naturals

CONSTANTS Owners, Payloads, MaxEpoch

VARIABLES epoch, payload

Init ==
    /\ epoch = [o \in Owners |-> 0]
    /\ payload \in [Owners -> Payloads]

Install(o, p) ==
    /\ epoch[o] < MaxEpoch
    /\ epoch' = [epoch EXCEPT ![o] = @ + 1]
    /\ payload' = [payload EXCEPT ![o] = p]

Next == \E o \in Owners, p \in Payloads : Install(o, p)

Spec == Init /\ [][Next]_<<epoch, payload>>
===============================================================================
