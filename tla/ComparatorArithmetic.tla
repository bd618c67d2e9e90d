------------------------- MODULE ComparatorArithmetic -------------------------
(* What the models of the comparators share: GMP's mpz_powm, and the set of the *)
(* elements of a vector. *)
EXTENDS Integers

PowMod(b, e, q) == LET power[i \in 0 .. e] == IF i = 0 THEN 1 % q ELSE (power[i - 1] * b) % q
                   IN power[e]

Members(s) == {s[i] : i \in DOMAIN s}
==============================================================================
