--------------------------- MODULE MCSlotCircuits ---------------------------
(* All pairs of small signatures for the counts; for the threshold circuit,  *)
(* every number of matches of up to nine coordinates against every tau.      *)
EXTENDS SlotCircuits

Signatures(k, values) == [0..(k - 1) -> values]

Count(circuit, k, m, xs, ys) ==
    [circuit |-> circuit, k |-> k, m |-> m, giant |-> "Horner", tau |-> 1, xs |-> xs, ys |-> ys]

\* y differs from x = 0 in its last coordinates.
Decisions(k) ==
    [circuit : {"Threshold"}, k : {k}, m : {2}, giant : {"Horner", "Tree"}, tau : 0..(k + 1),
     xs : {{[i \in 0..(k - 1) |-> 0]}},
     ys : {{[i \in 0..(k - 1) |-> IF i < matching THEN 0 ELSE 1] : matching \in 0..k}}]

\* A polynomial of this degree, for degrees with powers below x^s deeper than x^s.
Deep(k, giant) ==
    {[circuit |-> "Threshold", k |-> k, m |-> 2, giant |-> giant, tau |-> k,
      xs |-> {[i \in 0..(k - 1) |-> 0]}, ys |-> {[i \in 0..(k - 1) |-> 0]}]}

MCInstances ==
    {Count("OneHot", 1, 2, Signatures(1, 0..2), Signatures(1, 0..2)),
     Count("OneHot", 2, 3, Signatures(2, 0..3), Signatures(2, 0..3)),
     Count("OneHot", 3, 2, Signatures(3, 0..2), Signatures(3, 0..1)),
     Count("Sqrt", 1, 4, Signatures(1, 0..4), Signatures(1, 0..4)),
     Count("Sqrt", 2, 4, Signatures(2, 0..4), Signatures(2, 0..3)),
     Count("Sqrt", 3, 4, Signatures(3, {0, 1, 3}), Signatures(3, {1, 2})),
     Count("Sqrt", 1, 16, Signatures(1, 0..16), Signatures(1, 0..15)),
     Count("Sqrt", 2, 16, Signatures(2, {3, 6}), Signatures(2, {2, 3, 6, 10}))}
    \cup UNION {Decisions(k) : k \in 1..9} \cup Deep(55, "Horner") \cup Deep(63, "Tree")
==============================================================================
