---------------------------- MODULE PjsBaseline ----------------------------
(***************************************************************************)
(* What every comparator of the benchmarks promises to its callers         *)
(* (include/baselines/pjs_baseline.h): a query on two sets is answered with *)
(* the similarity of those sets or refused with an exception, whatever ran *)
(* before it or beside it. A comparator is impaired when its last set-up   *)
(* call ended in an exception; nothing is promised of it until a set-up    *)
(* call succeeds.                                                          *)
(***************************************************************************)
CONSTANTS Callers,      \* threads that may have a query open
          Inputs,       \* pairs of sets, as the vectors a caller passes
          Similarity(_) \* the answer owed to a pair of sets

VARIABLES query,        \* per caller: its pair and how the query stands
          impaired      \* a set-up call failed and none has succeeded since

Idle == [pair |-> <<>>, stands |-> "idle", answer |-> <<>>]

Init == query = [c \in Callers |-> Idle] /\ impaired = FALSE

SetUp == (\A c \in Callers : query[c].stands # "asked") /\ impaired' \in BOOLEAN /\ UNCHANGED query

Ask(c) == /\ query[c].stands = "idle"
          /\ \E p \in Inputs, s \in {"asked", "refused"} :
                query' = [query EXCEPT ![c] = [@ EXCEPT !.pair = p, !.stands = s]]
          /\ UNCHANGED impaired

\* An impaired comparator may return anything.
Answer(c) == /\ query[c].stands = "asked"
             /\ query' = [query EXCEPT ![c] = [@ EXCEPT !.stands = "answered", !.answer = query'[c].answer]]
             /\ impaired \/ query'[c].answer = Similarity(query[c].pair)
             /\ UNCHANGED impaired

Refuse(c) == /\ query[c].stands = "asked"
             /\ query' = [query EXCEPT ![c].stands = "refused"]
             /\ UNCHANGED impaired

Leave(c) == /\ query[c].stands \in {"answered", "refused"}
            /\ query' = [query EXCEPT ![c] = Idle]
            /\ UNCHANGED impaired

Next == SetUp \/ \E c \in Callers : Ask(c) \/ Answer(c) \/ Refuse(c) \/ Leave(c)

Spec == Init /\ [][Next]_<<query, impaired>>
=============================================================================
