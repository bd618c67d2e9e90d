------------------------------- MODULE Bcg12 -------------------------------
(***************************************************************************)
(* BCG12 (src/baselines/bcg12.cpp): Jaccard similarity by private set      *)
(* intersection cardinality, RunDgt12 (dgt12_psica.cpp), on the elements   *)
(* of two sets or on their MinHash signatures tagged with the coordinate.  *)
(* Elements are hashed into a prime-order group, a finite field            *)
(* (group_ff.cpp) or a curve (group_ec.cpp), raised to R_a, R_b, shuffled, *)
(* and raised to 1/R_a before the tags are compared.                       *)
(*                                                                         *)
(* The six loops of RunDgt12 are OpenMP regions: an iteration's calls into *)
(* the group are steps of the thread that owns it. EcGroup gives every     *)
(* thread known at its construction a BN_CTX; a later thread shares one    *)
(* fallback under a mutex and sets a flag, which the next call from        *)
(* sequential code turns into an exception. An exception that leaves a     *)
(* region ends the process.                                                *)
(*                                                                         *)
(* Groups are computed, as the order-Q subgroup of Z_P*. Digest stands for *)
(* the wide hashes reduced mod P, tags and encodings are injective.        *)
(***************************************************************************)
EXTENDS ComparatorArithmetic, Sequences, FiniteSets

CONSTANTS
    Sets,           \* vectors a caller may pass
    K,              \* params_.k
    Seeds,          \* hash seeds, the least is the default
    Rank(_, _, _),  \* MinHasher::HashRank: seed, coordinate, element
    P, Q,           \* modulus and group order
    Digest(_, _),   \* item, retry counter
    Retries,        \* retry counters that occur
    ExpDraws,       \* numbers the random source is seen to give for an exponent
    FixedExps,      \* what a test's ExponentSource returns for R_a and R_b
    IndexDraws,     \* indices CsprngIndexBelow is seen to draw
    MaxThreads      \* bound: omp_get_max_threads()

ASSUME Bcg12Assumption == MaxThreads \in Nat \ {0} /\ K \in Nat \ {0} /\ Q \in Nat /\ P \in Nat

\* FFGroup::ValidateParams and the standard curve: P and Q are primes, Q divides the
\* order. Exponents are unsigned; what a test fixes is a unit.
ASSUME GroupAssumption ==
    /\ P > 1 /\ Q > 1 /\ (P - 1) % Q = 0
    /\ \A d \in 2 .. P - 1 : P % d # 0
    /\ \A d \in 2 .. Q - 1 : Q % d # 0
    /\ ExpDraws \subseteq Nat /\ FixedExps[1] \in 1 .. Q - 1 /\ FixedExps[2] \in 1 .. Q - 1

\* Elements, seeds and ranks are unsigned.
ASSUME InputAssumption ==
    /\ \A s \in Sets : s \in Seq(Nat)
    /\ Seeds \subseteq Nat /\ Seeds # {}
    /\ \A h \in Seeds, i \in 0 .. K - 1, s \in Sets : \A v \in Members(s) : Rank(h, i, v) \in Nat

VARIABLES
    mode, backend,  \* params_: "exact" or "minhash", "FF" or "EC"
    seed,           \* params_.minhash_seed
    hasher,         \* the seed of hasher_, or None
    pool,           \* size of ctxs_, 0 while there is no group_
    overflow,       \* ctx_overflow_
    threads,        \* omp_get_max_threads()
    query,          \* the query: its inputs, place and data
    worker,         \* per thread of the team: its part of the loop and its call
    strayed         \* history: the query used the fallback context

object == <<mode, backend, seed, hasher, pool>>
vars == <<object, overflow, threads, query, worker, strayed>>

Tids == 0 .. MaxThreads - 1
None == -1

-----------------------------------------------------------------------------
(* The group *)

Cofactor == (P - 1) \div Q
InSubgroup(g) == g > 1 /\ PowMod(g, Q, P) = 1

\* FF rejects 0 and what the cofactor takes to the identity; EC rejects what is
\* no point of the curve.
Accepts(group, item, r) == IF group = "FF" THEN PowMod(Digest(item, r), Cofactor, P) \notin {0, 1}
                           ELSE InSubgroup(Digest(item, r))
FirstAccepted(group, item) == CHOOSE r \in Retries : /\ Accepts(group, item, r)
                                                     /\ \A s \in Retries : s < r => ~Accepts(group, item, s)
Hashed(group, item) == LET t == Digest(item, FirstAccepted(group, item))
                       IN IF group = "FF" THEN PowMod(t, Cofactor, P) ELSE t
HashToGroup(item) == Hashed(backend, item)

Exp(g, e) == PowMod(g, e, P)
Invertible(e) == \E i \in 1 .. Q - 1 : (e * i) % Q = 1
ExpInverse(g, e) == PowMod(g, CHOOSE i \in 1 .. Q - 1 : (e * i) % Q = 1, P)
RandomExponents == {e \in ExpDraws : e # 0 /\ e < Q}

-----------------------------------------------------------------------------
(* Items *)

Sorted(S) == CHOOSE s \in [1 .. Cardinality(S) -> S] :
                \A i, j \in DOMAIN s : i < j => s[i] < s[j]

\* ComputeSignature, coordinate i
Signature(h, s, i) == LET ranks == {Rank(h, i, v) : v \in Members(s)}
                      IN CHOOSE w \in ranks : \A x \in ranks : w <= x

\* EncodeRawItem of std::set's order, or EncodeTaggedItem of the signature.
Items(s) == IF mode = "exact" THEN [i \in 1 .. Cardinality(Members(s)) |-> <<1, Sorted(Members(s))[i]>>]
            ELSE [i \in 1 .. K |-> <<2, Signature(hasher, s, i - 1), i - 1>>]

Estimate(card, x, y) ==
    LET union == Cardinality(Members(x)) + Cardinality(Members(y)) - card
    IN IF mode = "minhash" THEN <<card, K>> ELSE IF union = 0 THEN <<1, 1>> ELSE <<card, union>>

\* What may be hashed in one query, and that the hash is collision free on it: a
\* digest of 3072 bits for the field, of the curve's size for the curve.
Elements == UNION {Members(s) : s \in Sets}
RawItems == {<<1, v>> : v \in Elements}
TaggedItems == UNION {{<<2, Rank(h, i, v), i>> : v \in Elements, i \in 0 .. K - 1} : h \in Seeds}

ASSUME HashAssumption ==
    /\ Retries \subseteq Nat
    /\ \A kind \in {RawItems, TaggedItems} : \A u \in kind, group \in {"FF", "EC"} :
          /\ \A r \in Retries : Digest(u, r) \in 0 .. P - 1
          /\ \E r \in Retries : Accepts(group, u, r)
          /\ \A v \in kind : Hashed(group, u) = Hashed(group, v) => u = v

-----------------------------------------------------------------------------
(* Set-up, between queries *)

Default == CHOOSE s \in Seeds : \A r \in Seeds : s <= r
Idle == [stands |-> "idle", x |-> <<>>, y |-> <<>>, asked |-> Default, fixed |-> FALSE,
         a |-> <<>>, b |-> <<>>, phase |-> "none", out |-> <<>>, done |-> <<>>,
         ra |-> 0, rb |-> 0, pi |-> <<>>, answer |-> <<>>]
Resting == [next |-> 1, last |-> 0, call |-> 1, at |-> "ready"]

Quiet == query.stands \in {"idle", "answered", "refused"}

Init == /\ mode \in {"exact", "minhash"} /\ backend \in {"FF", "EC"}
        /\ seed = Default /\ hasher = None
        /\ pool = 0 /\ overflow = FALSE
        /\ threads \in 1 .. MaxThreads
        /\ query = Idle /\ worker = [t \in Tids |-> Resting] /\ strayed = FALSE

\* Mutant: a hasher that exists is kept.
RehashOnce(s) == IF mode = "minhash" /\ hasher = None THEN s ELSE hasher

Rehash(s) == IF mode = "minhash" THEN s ELSE hasher

Setup == /\ Quiet
         /\ pool' = threads /\ overflow' = FALSE
         /\ hasher' = Rehash(seed)
         /\ UNCHANGED <<mode, backend, seed, threads, query, worker, strayed>>

\* The hasher is built even when Setup() has not run.
SetHashSeed(s) == /\ Quiet
                  /\ seed' = s /\ hasher' = Rehash(s)
                  /\ UNCHANGED <<mode, backend, pool, overflow, threads, query, worker, strayed>>

\* omp_set_num_threads by the program around the comparator.
SetThreads(n) == /\ Quiet /\ threads' = n
                 /\ UNCHANGED <<object, overflow, query, worker, strayed>>

-----------------------------------------------------------------------------
(* RunDgt12: regions and the sequential code between them *)

Regions == {"hashA", "hashB", "round1", "blindA", "blindB", "unblind"}
After(ph) == CASE ph = "hashA" -> "hashB"  [] ph = "hashB" -> "drawA"
               [] ph = "drawA" -> "round1" [] ph = "round1" -> "drawB"
               [] ph = "drawB" -> "blindA" [] ph = "blindA" -> "shuffle"
               [] ph = "shuffle" -> "blindB" [] ph = "blindB" -> "unblind"

Iterations(q, ph) == Len(IF ph \in {"hashB", "blindB"} THEN q.b ELSE q.a)

\* schedule(static): contiguous parts, the first threads take the remainder.
Smaller(i, j) == IF i < j THEN i ELSE j
Start(n, t) == t * (n \div threads) + Smaller(t, n % threads)
Fork(q, ph) == worker' = [t \in Tids |->
    IF ph \in Regions /\ t < threads
    THEN [Resting EXCEPT !.next = Start(Iterations(q, ph), t) + 1, !.last = Start(Iterations(q, ph), t + 1)]
    ELSE Resting]
Enter(q, ph) == /\ query' = [q EXCEPT !.phase = ph,
                     !.out = IF ph \in Regions THEN [i \in 1 .. Iterations(q, ph) |-> 0] ELSE q.out]
                /\ Fork(q, ph)

Refuse == query' = [Idle EXCEPT !.stands = "refused", !.x = query.x, !.y = query.y, !.asked = query.asked]

RunQuery(x, y, fixed) ==
    /\ query.stands = "idle" /\ strayed' = FALSE
    /\ LET begun == [Idle EXCEPT !.x = x, !.y = y, !.asked = seed, !.fixed = fixed]
       IN IF pool = 0 \/ (mode = "minhash" /\ (hasher = None \/ x = <<>> \/ y = <<>>))
          THEN query' = [begun EXCEPT !.stands = "refused", !.fixed = FALSE] /\ UNCHANGED worker
          ELSE Enter([begun EXCEPT !.stands = "asked", !.a = Items(x), !.b = Items(y)], "hashA")
    /\ UNCHANGED <<object, overflow, threads>>

InRegion == query.stands = "asked" /\ query.phase \in Regions
Busy(t) == worker[t].next <= worker[t].last

\* What iteration i leaves in its slot.
Computed(ph, i) ==
    CASE ph = "hashA"   -> HashToGroup(query.a[i])
      [] ph = "hashB"   -> HashToGroup(query.b[i])
      [] ph = "round1"  -> Exp(query.done.hashA[i], query.ra)
      [] ph = "blindA"  -> Exp(query.done.round1[i], query.rb)
      [] ph = "blindB"  -> Exp(query.done.hashB[query.pi[i]], query.rb)
      [] ph = "unblind" -> ExpInverse(query.done.shuffled[i], query.ra)

\* Tags are hashes of Serialize, a second call into the group.
Calls(ph) == IF ph \in {"blindB", "unblind"} THEN 2 ELSE 1

Terminate == /\ query' = [Idle EXCEPT !.stands = "aborted", !.x = query.x, !.y = query.y, !.asked = query.asked]
             /\ worker' = [t \in Tids |-> Resting]

\* CheckOverflow, then Ctx: a team of one is not omp_in_parallel().
BeginCall(t) ==
    /\ InRegion /\ Busy(t) /\ worker[t].at = "ready"
    /\ IF backend = "EC" /\ threads = 1 /\ overflow
       THEN overflow' = FALSE /\ Terminate /\ UNCHANGED strayed
       ELSE /\ worker' = [worker EXCEPT ![t].at = IF backend = "FF" \/ t < pool THEN "inside" ELSE "waiting"]
            /\ overflow' = (overflow \/ worker'[t].at = "waiting")
            /\ strayed' = (strayed \/ worker'[t].at = "waiting")
            /\ UNCHANGED query
    /\ UNCHANGED <<object, threads>>

\* Mutant: the lock is released before the context is used.
LockFallbackBriefly(t) ==
    /\ InRegion /\ worker[t].at = "waiting"
    /\ worker' = [worker EXCEPT ![t].at = "inside"]
    /\ UNCHANGED <<object, overflow, threads, query, strayed>>

\* Mutant: the mutex is locked where the flag is raised and again for the context.
LockFallbackTwice(t) ==
    /\ InRegion /\ worker[t].at = "waiting"
    /\ ~\E s \in Tids : s >= pool /\ worker[s].at # "ready"
    /\ worker' = [worker EXCEPT ![t].at = "inside"]
    /\ UNCHANGED <<object, overflow, threads, query, strayed>>

\* lock of overflow_mutex_; the first holder has made the context under it.
LockFallback(t) ==
    /\ InRegion /\ worker[t].at = "waiting"
    /\ ~\E s \in Tids : s >= pool /\ worker[s].at = "inside"
    /\ worker' = [worker EXCEPT ![t].at = "inside"]
    /\ UNCHANGED <<object, overflow, threads, query, strayed>>

Works(t) == ~(query.phase = "unblind" /\ worker[t].call = 1 /\ ~Invertible(query.ra))

EndCall(t) ==
    /\ InRegion /\ worker[t].at = "inside" /\ Works(t)
    /\ IF worker[t].call < Calls(query.phase)
       THEN worker' = [worker EXCEPT ![t].call = @ + 1, ![t].at = "ready"] /\ UNCHANGED query
       ELSE /\ query' = [query EXCEPT !.out[worker[t].next] = Computed(query.phase, worker[t].next)]
            /\ worker' = [worker EXCEPT ![t].call = 1, ![t].at = "ready", ![t].next = @ + 1]
    /\ UNCHANGED <<object, overflow, threads, strayed>>

\* The library fails, or the exponent has no inverse: nothing in a region catches.
CallThrows(t) ==
    /\ InRegion /\ worker[t].at = "inside"
    /\ backend = "EC" \/ ~Works(t)
    /\ Terminate
    /\ UNCHANGED <<object, overflow, threads, strayed>>

Store(name, vec) == [query EXCEPT !.done = [n \in DOMAIN query.done \cup {name} |->
                                               IF n = name THEN vec ELSE query.done[n]]]
Matches == LET tb == Members(query.done.blindB)
           IN Cardinality({i \in DOMAIN query.out : query.out[i] \in tb})

\* The barrier at the end of a region.
Join ==
    /\ InRegion /\ \A t \in Tids : ~Busy(t)
    /\ IF query.phase = "unblind"
       THEN /\ query' = [Idle EXCEPT !.stands = "answered", !.x = query.x, !.y = query.y, !.asked = query.asked,
                            !.fixed = query.fixed, !.answer = Estimate(Matches, query.x, query.y)]
            /\ UNCHANGED worker
       ELSE Enter(Store(query.phase, query.out), After(query.phase))
    /\ UNCHANGED <<object, overflow, threads, strayed>>

\* FisherYatesCsprng(n): the index vector after the swaps of n down to 2.
Swap(s, i, j) == [s EXCEPT ![i] = s[j], ![j] = s[i]]
Shuffles(n) == LET from[i \in 1 .. n] == IF i = n THEN {[l \in 1 .. n |-> l]}
                                         ELSE {Swap(s, i + 1, j + 1) : s \in from[i + 1], j \in IndexDraws \cap 0 .. i}
               IN IF n = 0 THEN {<<>>} ELSE from[1]

DrawA(r) ==
    /\ query.phase = "drawA"
    /\ Enter([query EXCEPT !.ra = r], "round1")
    /\ UNCHANGED <<object, overflow, threads, strayed>>

DrawB(r, pi) ==
    /\ query.phase = "drawB"
    /\ Enter([query EXCEPT !.rb = r, !.pi = pi], "blindA")
    /\ UNCHANGED <<object, overflow, threads, strayed>>

Shuffle(pi) ==
    /\ query.phase = "shuffle"
    /\ Enter(Store("shuffled", [i \in DOMAIN query.a |-> query.done.blindA[pi[i]]]), "blindB")
    /\ UNCHANGED <<object, overflow, threads, strayed>>

\* Mutant: RandomExponent without CheckOverflow.
ChecksNothing == FALSE

\* RandomExponent's CheckOverflow, outside every region.
ChecksOverflow == query.phase \in {"drawA", "drawB"} /\ backend = "EC" /\ ~query.fixed
Sequential ==
    /\ query.stands = "asked" /\ ~(ChecksOverflow /\ overflow)
    /\ \/ \E r \in IF query.fixed THEN {FixedExps[1]} ELSE RandomExponents : DrawA(r)
       \/ \E r \in IF query.fixed THEN {FixedExps[2]} ELSE RandomExponents, pi \in Shuffles(Len(query.b)) : DrawB(r, pi)
       \/ \E pi \in Shuffles(Len(query.a)) : Shuffle(pi)

\* A vector of at most one entry is shuffled without drawing.
AsksRandomness ==
    \/ query.phase \in {"drawA", "drawB"} /\ ~query.fixed
    \/ query.phase = "drawB" /\ Len(query.b) > 1
    \/ query.phase = "shuffle" /\ Len(query.a) > 1

\* The overflow is told, or the random source fails.
SequentialThrows ==
    /\ query.stands = "asked"
    /\ (ChecksOverflow /\ overflow) \/ AsksRandomness
    /\ overflow' = (overflow /\ ~ChecksOverflow)
    /\ Refuse
    /\ UNCHANGED <<object, threads, worker, strayed>>

Leave == /\ query.stands \in {"answered", "refused"}
         /\ query' = Idle /\ strayed' = FALSE
         /\ UNCHANGED <<object, overflow, threads, worker>>

CallStep(t) == BeginCall(t) \/ LockFallback(t) \/ EndCall(t) \/ CallThrows(t)
Advance == Join \/ Sequential \/ SequentialThrows

Next == \/ Setup \/ \E s \in Seeds : SetHashSeed(s) \/ \E n \in 1 .. MaxThreads : SetThreads(n)
        \/ \E x, y \in Sets, fixed \in {f \in BOOLEAN : f => mode = "exact"} : RunQuery(x, y, fixed)
        \/ \E t \in Tids : CallStep(t)
        \/ Advance \/ Leave

\* Threads inside a query run on; nobody must make a call.
Fairness == WF_vars(Advance) /\ \A t \in Tids : WF_vars(CallStep(t))

Spec == Init /\ [][Next]_vars /\ Fairness

-----------------------------------------------------------------------------
(* Properties *)

\* The similarity owed, from the plain sets.
Owed(p) ==
    LET x == Members(p[1])  y == Members(p[2])
    IN IF p[3] = "minhash"
       THEN <<Cardinality({i \in 0 .. K - 1 : Signature(p[4], p[1], i) = Signature(p[4], p[2], i)}), K>>
       ELSE IF x \cup y = {} THEN <<1, 1>> ELSE <<Cardinality(x \cap y), Cardinality(x \cup y)>>
Standing == [pair |-> IF query.stands = "idle" THEN <<>> ELSE <<query.x, query.y, mode, query.asked>>,
             stands |-> IF query.stands = "aborted" THEN "asked" ELSE query.stands,
             answer |-> query.answer]
Promise == INSTANCE PjsBaseline WITH
    Callers <- {1},
    Inputs <- Sets \X Sets \X {"exact", "minhash"} \X Seeds,
    Similarity <- Owed, query <- [c \in {1} |-> Standing], impaired <- FALSE

\* A query is answered with the similarity of its two sets under the seed in force
\* when it began, whatever the team size, the exponents and the shuffles, or it
\* throws; a query whose process dies is never answered (bcg12.cpp RunQuery).
AnswersExactly == Promise!Spec

Context(t) == IF t < pool THEN t ELSE MaxThreads

\* No BN_CTX is used by two threads at a time (group_ec.cpp Ctx: "handing two
\* threads the same one races").
ContextExclusive == backend = "EC" =>
    \A s, t \in Tids : s # t /\ worker[s].at = "inside" /\ worker[t].at = "inside" => Context(s) # Context(t)

\* A query of the comparator that needed the fallback context is not answered:
\* the flag its threads raise is seen at one of the two exponent draws
\* (group_ec.cpp:361-365). Fixed exponents of a test skip both checks.
OverflowSurfaces == query.stands = "answered" /\ ~query.fixed => ~strayed

\* Every query ends, in an answer, an exception or the end of the process.
QueriesEnd == query.stands = "asked" ~> query.stands # "asked"
=============================================================================
