-------------------------------- MODULE Sj16 --------------------------------
(***************************************************************************)
(* SJ16, the Paillier comparator (src/baselines/sj16.cpp, paillier.cpp,    *)
(* csprng.h). A query encrypts the indicator vector of X element by        *)
(* element in an OpenMP loop, multiplies the ciphertexts at the elements   *)
(* of Y, masks the product and decrypts it: the callers hold two shares of *)
(* the size of the intersection. In precompute mode the randomizers rho^N  *)
(* come from a pool the caller fills before; a query reserves all it needs *)
(* with a compare-and-swap on pool_index_ before its loop.                 *)
(*                                                                         *)
(* Paillier is computed, with a small modulus. A loop iteration is a step, *)
(* iterations run in any order. Drawing randomness throws when the         *)
(* operating system has none. Set-up calls are made while no query is      *)
(* open: they assign members without synchronization.                      *)
(***************************************************************************)
EXTENDS ComparatorArithmetic, Sequences, FiniteSets

CONSTANTS
    Callers,        \* threads that call RunProtocol
    Inputs,         \* pairs of vectors they pass
    Universes,      \* universe sizes passed to SetUniverse
    ForcedMasks,    \* masks passed to RunProtocolWithMask
    MaskDraws,      \* numbers RandomMpz is seen to draw below N
    Nonces,         \* numbers RandomCoprime is seen to draw
    Primes,         \* primes DrawHalfBitPrime may return; a product may be a bit short
    KeyBits,        \* required length of N
    PoolSizes,      \* counts passed to PrepareRandomizerPool
    MaxCalls        \* bound: set-up calls made and queries begun

ASSUME Sj16Assumption ==
    /\ PoolSizes \subseteq Nat /\ Universes \subseteq Nat \ {0} /\ MaxCalls \in Nat
    /\ Nonces \subseteq Nat /\ MaskDraws \subseteq Nat
    /\ \A pair \in Inputs : Members(pair[1]) \cup Members(pair[2]) \subseteq Nat
    /\ \A p \in Primes : p \in Nat /\ p > 1 /\ \A d \in 2 .. p - 1 : p % d # 0

VARIABLES
    precompute,     \* constructor argument
    keyed,          \* keyed_
    paillier,       \* paillier_: n_, n_sq_, lambda_, mu_
    n,              \* n_ of SJ16, copied after KeyGen
    m,              \* m_, 0 before SetUniverse
    rhoPool,        \* rho_pool_
    poolIndex,      \* pool_index_
    call,           \* per caller: its query
    used,           \* history: how often each pool entry was multiplied into a ciphertext
    damaged,        \* history: which of key and pool the last set-up call left unfinished
    calls           \* bound on the history

setup == <<precompute, keyed, paillier, n, m, rhoPool, damaged>>
sjVars == <<setup, poolIndex, call, used, calls>>

-----------------------------------------------------------------------------
(* Arithmetic *)

Divides(d, v) == v % d = 0
Gcd(a, b) == CHOOSE d \in 1 .. b : /\ Divides(d, a) /\ Divides(d, b)
                                   /\ \A e \in d + 1 .. b : ~(Divides(e, a) /\ Divides(e, b))
ModInverse(a, q) == CHOOSE i \in 0 .. q - 1 : (a * i) % q = 1 % q

\* RandomCoprime: every draw of [0, k) that is not 0 and shares no factor with k.
Units(k) == {r \in Nonces : r # 0 /\ r < k /\ Gcd(r, k) = 1}

Lambda(p, q) == ((p - 1) * (q - 1)) \div Gcd(p - 1, q - 1)
FullLength(p, q) == p * q >= 2 ^ (KeyBits - 1) /\ p * q < 2 ^ KeyBits
LambdaInvertible(p, q) == Gcd(Lambda(p, q), p * q) = 1

\* A modulus has at least 1024 bits, a universe is a number of 32 bits.
ASSUME UniverseAssumption ==
    \A u \in Universes : \A p, q \in Primes : FullLength(p, q) => u < p * q

KeyWith(p, q, mu) == [n |-> p * q, nsq |-> (p * q) * (p * q), lambda |-> Lambda(p, q), mu |-> mu]
Key(p, q) == KeyWith(p, q, ModInverse(Lambda(p, q), p * q))
NoKey == [n |-> 0, nsq |-> 0, lambda |-> 0, mu |-> 0]

\* What an exception in a later round of KeyGen's loop leaves behind: a product
\* that was too short, or a modulus whose lambda has no inverse.
HalfKeys ==
    LET draws == {s \in Primes \X Primes : s[1] # s[2]}
        full == {s \in draws : FullLength(s[1], s[2])}
    IN {[paillier EXCEPT !.n = s[1] * s[2]] : s \in draws \ full}
       \cup {KeyWith(s[1], s[2], paillier.mu) : s \in {t \in full : ~LambdaInvertible(t[1], t[2])}}

EncryptWith(msg, rhoN, k, ksq) == (((((msg % k) * k) + 1) % ksq) * rhoN) % ksq
AddCipher(a, b) == (a * b) % paillier.nsq

\* L(c^lambda mod N^2) * mu mod N; mpz_divexact promises nothing when N does not divide.
Decrypt(c) == LET u == PowMod(c, paillier.lambda, paillier.nsq)
              IN IF u > 0 /\ Divides(paillier.n, u - 1)
                 THEN {(((u - 1) \div paillier.n) * paillier.mu) % paillier.n}
                 ELSE 0 .. paillier.n - 1

-----------------------------------------------------------------------------
(* Set-up *)

Blank == [pc |-> "idle", pair |-> <<>>, mask |-> 0, cur |-> 0, base |-> 0,
          z |-> <<>>, left |-> {}, failed |-> FALSE, answer |-> <<>>]
NoneOpen == \A c \in Callers : call[c].pc \in {"idle", "answered", "refused"}
SetUp == NoneOpen /\ calls < MaxCalls /\ calls' = calls + 1
NoneUsed(size) == [i \in 1 .. size |-> 0]

SjInit == /\ precompute \in BOOLEAN
          /\ keyed = FALSE /\ paillier = NoKey /\ n = 0 /\ m = 0
          /\ rhoPool = <<>> /\ poolIndex = 0 /\ used = <<>>
          /\ call = [c \in Callers |-> Blank]
          /\ damaged = {} /\ calls = 0

\* Mutant: the randomizers of the old modulus stay.
SetupKeepingPool ==
    /\ SetUp
    /\ \E p, q \in Primes : /\ p # q /\ FullLength(p, q) /\ LambdaInvertible(p, q)
                            /\ paillier' = Key(p, q) /\ n' = p * q
    /\ keyed' = TRUE /\ damaged' = {}
    /\ UNCHANGED <<precompute, m, call, rhoPool, poolIndex, used>>

SjSetup ==
    /\ SetUp
    /\ \E p, q \in Primes : /\ p # q /\ FullLength(p, q) /\ LambdaInvertible(p, q)
                            /\ paillier' = Key(p, q) /\ n' = p * q
    /\ keyed' = TRUE /\ rhoPool' = <<>> /\ poolIndex' = 0 /\ used' = <<>> /\ damaged' = {}
    /\ UNCHANGED <<precompute, m, call>>

SetupFails ==
    /\ SetUp
    /\ paillier' \in HalfKeys \cup {paillier}
    /\ damaged' = IF paillier' = paillier THEN damaged ELSE damaged \cup {"key"}
    /\ UNCHANGED <<precompute, keyed, n, m, rhoPool, poolIndex, call, used>>

SetUniverse(u) ==
    /\ SetUp /\ u # m
    /\ m' = u
    /\ UNCHANGED <<precompute, keyed, paillier, n, rhoPool, poolIndex, call, used, damaged>>

\* The first made entries are drawn, the rest are as assign() left them.
Filled(count, made, rho) == [i \in 1 .. count |-> IF i <= made THEN PowMod(rho[i], n, n * n) ELSE 0]

PrepareRandomizerPool(count) ==
    /\ SetUp /\ keyed
    /\ \E rho \in [1 .. count -> Units(n)] : rhoPool' = Filled(count, count, rho)
    /\ poolIndex' = 0 /\ used' = NoneUsed(count) /\ damaged' = damaged \ {"pool"}
    /\ UNCHANGED <<precompute, keyed, paillier, n, m, call>>

\* RandomCoprime throws: the vector has its new size and pool_index_ its old value.
PrepareThrows(count) ==
    /\ SetUp /\ keyed
    /\ \E made \in 0 .. count - 1 : \E rho \in [1 .. made -> Units(n)] : rhoPool' = Filled(count, made, rho)
    /\ used' = NoneUsed(count) /\ damaged' = damaged \cup {"pool"}
    /\ UNCHANGED <<precompute, keyed, paillier, n, m, poolIndex, call>>

-----------------------------------------------------------------------------
(* A query *)

Fresh == -1          \* no mask is passed: RunProtocol draws it when it is needed
Indicator(v) == [i \in 0 .. m - 1 |-> IF i \in Members(v) THEN 1 ELSE 0]

Admitted(pair, mask) ==
    /\ mask = Fresh \/ mask \in 0 .. n - 1
    /\ keyed /\ m # 0
    /\ \A e \in Members(pair[1]) \cup Members(pair[2]) : e < m

Throw(c) == call' = [call EXCEPT ![c] = [Blank EXCEPT !.pc = "refused", !.pair = call[c].pair]]

RunProtocol(c, pair, mask) ==
    /\ call[c].pc = "idle" /\ calls < MaxCalls
    /\ call' = [call EXCEPT ![c] =
          IF Admitted(pair, mask)
          THEN [Blank EXCEPT !.pair = pair, !.mask = mask, !.left = 0 .. m - 1,
                             !.z = [i \in 0 .. m - 1 |-> 0],
                             !.pc = IF precompute THEN "load" ELSE "encrypt"]
          ELSE [Blank EXCEPT !.pair = pair, !.pc = "refused"]]
    /\ calls' = calls + 1
    /\ UNCHANGED <<setup, poolIndex, used>>

ReserveLoad(c) ==
    /\ call[c].pc = "load"
    /\ call' = [call EXCEPT ![c].pc = "reserve", ![c].cur = poolIndex]
    /\ UNCHANGED <<setup, poolIndex, used, calls>>

Short(c) == call[c].cur + m + 1 > Len(rhoPool)

ReserveThrows(c) ==
    /\ call[c].pc = "reserve" /\ Short(c)
    /\ Throw(c)
    /\ UNCHANGED <<setup, poolIndex, used, calls>>

\* Mutant: the index is stored without the comparison.
ReserveTakesLate(c) ==
    /\ call[c].pc = "reserve" /\ ~Short(c)
    /\ poolIndex' = call[c].cur + m + 1
    /\ call' = [call EXCEPT ![c].pc = "encrypt", ![c].base = call[c].cur]
    /\ UNCHANGED <<setup, used, calls>>

ReserveTakes(c) ==
    /\ call[c].pc = "reserve" /\ ~Short(c)
    /\ poolIndex = call[c].cur
    /\ poolIndex' = call[c].cur + m + 1
    /\ call' = [call EXCEPT ![c].pc = "encrypt", ![c].base = call[c].cur]
    /\ UNCHANGED <<setup, used, calls>>

\* Mutant: the retry goes on with the index it read first.
ReserveRetriesStale(c) ==
    /\ call[c].pc = "reserve" /\ ~Short(c)
    /\ poolIndex # call[c].cur
    /\ UNCHANGED <<setup, poolIndex, call, used, calls>>

\* Another caller was faster.
ReserveRetries(c) ==
    /\ call[c].pc = "reserve" /\ ~Short(c)
    /\ poolIndex # call[c].cur
    /\ call' = [call EXCEPT ![c].cur = poolIndex]
    /\ UNCHANGED <<setup, poolIndex, used, calls>>

\* EncMsg: the ciphertexts it may produce; entry counts from 0 as in the code.
EncMsg(msg, entry) ==
    IF precompute THEN {EncryptWith(msg, rhoPool[entry + 1], n, n * n)}
    ELSE {EncryptWith(msg, PowMod(rho, paillier.n, paillier.nsq), paillier.n, paillier.nsq) : rho \in Units(paillier.n)}
Spend(entry) == used' = IF precompute THEN [used EXCEPT ![entry + 1] = @ + 1] ELSE used

EncryptAt(c, i) ==
    /\ call[c].pc = "encrypt" /\ i \in call[c].left
    /\ \E ct \in EncMsg(Indicator(call[c].pair[1])[i], call[c].base + i) :
          call' = [call EXCEPT ![c].z[i] = ct, ![c].left = @ \ {i}]
    /\ Spend(call[c].base + i)
    /\ UNCHANGED <<setup, poolIndex, calls>>

\* Paillier::Encrypt throws; the handler of the iteration keeps the exception.
EncryptThrows(c, i) ==
    /\ call[c].pc = "encrypt" /\ i \in call[c].left /\ ~precompute
    /\ call' = [call EXCEPT ![c].failed = TRUE, ![c].left = @ \ {i}]
    /\ UNCHANGED <<setup, poolIndex, used, calls>>

\* Whether an iteration sees the flag in time is not determined.
EncryptSkips(c, i) ==
    /\ call[c].pc = "encrypt" /\ i \in call[c].left /\ call[c].failed
    /\ call' = [call EXCEPT ![c].left = @ \ {i}]
    /\ UNCHANGED <<setup, poolIndex, used, calls>>

\* The product over the positions of Y, in their order.
ProductAt(z, y) == LET S[i \in 0 .. m] == IF i = 0 THEN 1
                                          ELSE IF i - 1 \in Members(y) THEN AddCipher(S[i - 1], z[i - 1])
                                          ELSE S[i - 1]
                   IN S[m]
MasksFor(c) == IF call[c].mask = Fresh THEN {r \in MaskDraws : r < n} ELSE {call[c].mask}
Serializable(c) == \A i \in DOMAIN call[c].z : call[c].z[i] < paillier.nsq

\* The fraction reported: a query on two empty sets is a match. The size of the
\* union is unsigned in the code: below zero stands for a wrapped value.
JaccardOf(inter, pair) == LET uni == Cardinality(Members(pair[1])) + Cardinality(Members(pair[2])) - inter
                          IN IF uni = 0 THEN <<1, 1>> ELSE <<inter, uni>>
Exact(pair) == JaccardOf(Cardinality(Members(pair[1]) \cap Members(pair[2])), pair)

\* The shares are x1 and (n - r) % n; the harness adds them. Serializing Z for the
\* communication account comes last and may still throw.
Finish(c) ==
    /\ call[c].pc = "encrypt" /\ call[c].left = {} /\ ~call[c].failed
    /\ \E r \in MasksFor(c) : \E e \in EncMsg(r, call[c].base + m) :
       \E x1 \in Decrypt(AddCipher(ProductAt(call[c].z, call[c].pair[2]), e)) :
          IF Serializable(c)
          THEN call' = [call EXCEPT ![c] = [Blank EXCEPT !.pc = "answered", !.pair = call[c].pair,
                           !.answer = JaccardOf((x1 + ((n - r) % n)) % n, call[c].pair)]]
          ELSE Throw(c)
    /\ Spend(call[c].base + m)
    /\ UNCHANGED <<setup, poolIndex, calls>>

\* The kept exception is thrown again, or the mask or its nonce cannot be drawn.
FinishThrows(c) ==
    /\ call[c].pc = "encrypt" /\ call[c].left = {}
    /\ call[c].failed \/ call[c].mask = Fresh \/ ~precompute
    /\ Throw(c)
    /\ UNCHANGED <<setup, poolIndex, used, calls>>

TakeResult(c) ==
    /\ call[c].pc \in {"answered", "refused"}
    /\ call' = [call EXCEPT ![c] = Blank]
    /\ UNCHANGED <<setup, poolIndex, used, calls>>

Reserve(c) == ReserveLoad(c) \/ ReserveThrows(c) \/ ReserveTakes(c) \/ ReserveRetries(c)
Iterate(c) == \E i \in 0 .. m - 1 : EncryptAt(c, i) \/ EncryptThrows(c, i) \/ EncryptSkips(c, i)
Step(c) == Reserve(c) \/ Iterate(c) \/ Finish(c) \/ FinishThrows(c)

SjNext == \/ SjSetup \/ SetupFails
          \/ \E u \in Universes : SetUniverse(u)
          \/ \E count \in PoolSizes : PrepareRandomizerPool(count) \/ PrepareThrows(count)
          \/ \E c \in Callers : \/ \E pair \in Inputs, mask \in ForcedMasks \cup {Fresh} : RunProtocol(c, pair, mask)
                                \/ Step(c) \/ TakeResult(c)

\* Threads inside a query run on; nobody must make a call. A reservation that
\* loses the race repeats, so it ends only because the pool is finite.
SjFairness == \A c \in Callers : WF_sjVars(Step(c))

SjSpec == SjInit /\ [][SjNext]_sjVars /\ SjFairness

-----------------------------------------------------------------------------
(* Properties *)

Stands(c) == IF call[c].pc \in {"idle", "answered", "refused"} THEN call[c].pc ELSE "asked"
SjPromise == INSTANCE PjsBaseline WITH
    Similarity <- Exact,
    query <- [c \in Callers |-> [pair |-> call[c].pair, stands |-> Stands(c),
                                 answer |-> IF call[c].pc = "answered" THEN call[c].answer ELSE <<>>]],
    impaired <- damaged # {}

\* Whatever other queries run beside it, whichever iterations of the encryption
\* loop throw and whatever randomness is drawn, a query returns the Jaccard
\* similarity of its own two sets or throws (sj16.cpp RunProtocolImpl).
SjAnswersExactly == SjPromise!Spec

\* No entry of the randomizer pool goes into two ciphertexts (sj16.cpp
\* ReservePool: the compare-and-swap hands disjoint blocks to racing callers).
RandomizerOnce == \A i \in DOMAIN used : used[i] <= 1

\* A query that was begun ends: the reservation loop does not spin forever and a
\* failed iteration does not hang the others.
SjQueriesEnd == \A c \in Callers : call[c].pc # "idle" ~> call[c].pc \in {"answered", "refused"}
=============================================================================
