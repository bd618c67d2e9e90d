------------------------- MODULE DynamicRefreshProofs -------------------------
(***************************************************************************)
(* For any owners, elements, rank functions and seeds: signatures of two   *)
(* hash seeds never meet. Two checks carry it. DynamicPiccard::Encrypt     *)
(* refuses a structure of another seed, so an envelope names the seed of   *)
(* the signature in it (EnvelopesHonest). The store compares the seeds the *)
(* envelopes name, so its slots hold one seed (OneSeedStored), and what is *)
(* read from it is a copy.                                                 *)
(*                                                                         *)
(* And a decrypted match count is that of the owners' sets. The lemmas of  *)
(* BottomStructureProofs on one array carry over to an owner's structure   *)
(* (Faithful); a structure whose prefix is not eaten up is encrypted to    *)
(* the buckets of its set (Exact), and the way to an answer copies that.   *)
(***************************************************************************)
EXTENDS DynamicRefresh, FiniteSetTheorems, TLAPS

Honest(envelope) == envelope.seed = envelope.bytes.of.seed

\* An envelope on its way names the seed of the signature in it.
EnvelopesHonest ==
    /\ DOMAIN outbox = Owners
    /\ \A o \in Owners : outbox[o] # None => Honest(outbox[o])

OneSeed(pair) == pair # None =>
    /\ DOMAIN pair = Owners
    /\ \A o \in Owners : Honest(pair[o])
    /\ \A o, p \in Owners : SameBinding(pair[o], pair[p])

\* The slots, and a pair read from them, hold envelopes of one seed.
OneSeedStored == OneSeed(slot) /\ OneSeed(read)

OneSeedAnswered == answer # None => answer.of[1].seed = answer.of[2].seed

IInv == EnvelopesHonest /\ OneSeedStored /\ OneSeedAnswered

\* The envelope of an upload is honest: the structure was made under the seed of
\* the engine, and that is the seed the envelope names.
LEMMA UploadHonest ==
    ASSUME NEW o, NEW e, RequireCurrentHashCrs(structure[o])
    PROVE  Honest(MakeVersionedCiphertext(o, e, EncryptFeature(structure[o])))
<1>1. EncryptFeature(structure[o]).of.seed = seed
    BY DEF EncryptFeature, RequireCurrentHashCrs
<1>2. Serialize(EncryptFeature(structure[o])).of = EncryptFeature(structure[o]).of
    BY DEF Serialize, EncryptFeature
<1> QED
    BY <1>1, <1>2 DEF Honest, MakeVersionedCiphertext

\* A replacement of the same binding keeps the pair of one seed.
LEMMA ReplaceKeepsOneSeed ==
    ASSUME NEW o \in Owners, NEW pair, pair # None, OneSeed(pair), NEW envelope,
           Honest(envelope), SameBinding(pair[o], envelope)
    PROVE  OneSeed([pair EXCEPT ![o] = envelope])
BY DEF OneSeed, SameBinding

LEMMA InitIInv == Init => IInv
BY DEF Init, IInv, EnvelopesHonest, OneSeedStored, OneSeed, OneSeedAnswered

LEMMA UploadKeeps ==
    ASSUME IInv, NEW o \in Owners, Upload(o)
    PROVE  IInv'
<1>1. EnvelopesHonest'
    BY UploadHonest DEF Upload, IInv, EnvelopesHonest
<1>2. OneSeedStored' /\ OneSeedAnswered'
    BY DEF Upload, IInv, OneSeedStored, OneSeedAnswered, OneSeed
<1> QED
    BY <1>1, <1>2 DEF IInv

LEMMA CreateKeeps ==
    ASSUME IInv, CreateStore
    PROVE  IInv'
<1>1. EnvelopesHonest'
    BY DEF CreateStore, EnvelopesHonest
<1>2. OneSeed(slot)'
    BY DEF CreateStore, IInv, EnvelopesHonest, OneSeedStored, OneSeed
<1>3. OneSeed(read)' /\ OneSeedAnswered'
    BY DEF CreateStore, IInv, OneSeedStored, OneSeedAnswered, OneSeed
<1> QED
    BY <1>1, <1>2, <1>3 DEF IInv, OneSeedStored

LEMMA ReplaceKeeps ==
    ASSUME IInv, NEW o \in Owners, TryReplace(o)
    PROVE  IInv'
<1>1. EnvelopesHonest'
    BY DEF TryReplace, IInv, EnvelopesHonest
<1>2. OneSeed(slot)'
    <2>1. CASE slot' = slot
        BY <2>1 DEF IInv, OneSeedStored, OneSeed
    <2>2. CASE SameBinding(slot[o], outbox[o]) /\ slot' = [slot EXCEPT ![o] = outbox[o]]
        <3>1. OneSeed([slot EXCEPT ![o] = outbox[o]])
            BY <2>2, ReplaceKeepsOneSeed DEF TryReplace, IInv, EnvelopesHonest, OneSeedStored
        <3> QED
            BY <2>2, <3>1 DEF OneSeed
    <2> QED
        BY <2>1, <2>2 DEF TryReplace
<1>3. OneSeed(read)' /\ OneSeedAnswered'
    BY DEF TryReplace, IInv, OneSeedStored, OneSeedAnswered, OneSeed
<1> QED
    BY <1>1, <1>2, <1>3 DEF IInv, OneSeedStored

\* A match count is computed from a pair of one seed, or by the owners' engine
\* from two structures of its own seed.
LEMMA AnswerKeeps ==
    ASSUME IInv, EvaluatePair \/ (\E x, y \in Owners : Run(x, y))
    PROVE  IInv'
<1>1. ASSUME EvaluatePair PROVE IInv'
    <2>1. PICK x \in Owners, y \in Owners : answer' = Result(read[x].bytes, read[y].bytes)
        BY <1>1 DEF EvaluatePair
    <2>2. read[x].bytes.of.seed = read[y].bytes.of.seed
        BY <1>1 DEF EvaluatePair, IInv, OneSeedStored, OneSeed, Honest, SameBinding
    <2>3. OneSeedAnswered'
        BY <2>1, <2>2 DEF Result, OneSeedAnswered
    <2>4. EnvelopesHonest' /\ OneSeedStored'
        BY <1>1 DEF EvaluatePair, IInv, EnvelopesHonest, OneSeedStored, OneSeed
    <2> QED
        BY <2>3, <2>4 DEF IInv
<1>2. ASSUME NEW x \in Owners, NEW y \in Owners, Run(x, y) PROVE IInv'
    <2>1. answer'.of[1].seed = seed /\ answer'.of[2].seed = seed
        BY <1>2 DEF Run, Result, EncryptFeature, RequireCurrentHashCrs
    <2>2. OneSeedAnswered'
        BY <2>1 DEF OneSeedAnswered
    <2>3. EnvelopesHonest' /\ OneSeedStored'
        BY <1>2 DEF Run, IInv, EnvelopesHonest, OneSeedStored, OneSeed
    <2> QED
        BY <2>2, <2>3 DEF IInv
<1> QED
    BY <1>1, <1>2

LEMMA NextIInv == IInv /\ [Next]_vars => IInv'
<1> SUFFICES ASSUME IInv, [Next]_vars PROVE IInv'
    OBVIOUS
<1>1. ASSUME UNCHANGED <<outbox, slot, read, answer>> PROVE IInv'
    BY <1>1 DEF IInv, EnvelopesHonest, OneSeedStored, OneSeed, OneSeedAnswered
<1>2. CASE \E s \in Seeds : SetHashSeed(s)
    BY <1>1, <1>2 DEF SetHashSeed
<1>3. ASSUME NEW o \in Owners,
             (\E S \in Sets : InitSet(o, S)) \/ (\E e \in Elem : Insert(o, e) \/ Delete(o, e))
      PROVE  IInv'
    BY <1>1, <1>3 DEF InitSet, Insert, Delete, Update
<1>4. CASE \E o \in Owners : Upload(o) \/ TryReplace(o)
    BY <1>4, UploadKeeps, ReplaceKeeps
<1>5. CASE CreateStore
    BY <1>5, CreateKeeps
<1>6. CASE ReadPair
    BY <1>6 DEF ReadPair, IInv, EnvelopesHonest, OneSeedStored, OneSeed, OneSeedAnswered
<1>7. CASE EvaluatePair \/ \E x, y \in Owners : Run(x, y)
    BY <1>7, AnswerKeeps
<1>8. CASE UNCHANGED vars
    BY <1>1, <1>8 DEF vars
<1> QED
    BY <1>2, <1>3, <1>4, <1>5, <1>6, <1>7, <1>8 DEF Next

LEMMA IInvTogether == IInv => OneSeedMeets
BY DEF IInv, OneSeedStored, OneSeed, OneSeedAnswered, OneSeedMeets, Together, Honest, SameBinding

\* Whatever the owners do and in whatever order uploads, replacements, reads and
\* changes of the seed happen, signatures of different hash seeds never meet.
THEOREM SeedsNeverMeet == Spec => []OneSeedMeets
<1> QED
    BY InitIInv, NextIInv, IInvTogether, PTL DEF Spec

-----------------------------------------------------------------------------
(* The lemmas of BottomStructureProofs on one array *)

Bottoms == INSTANCE BottomStructureProofs WITH
    RankFunctions <- {}, rank <- <<>>, bottom <- <<>>, requiresRebuild <- FALSE,
    input <- {}, given <- {}, complete <- FALSE, deletes <- 0

\* The instances count and order as this module does.
LEMMA SameFinite ==
    /\ \A S : Arrays!Cardinality(S) = Cardinality(S)
    /\ \A S : Bottoms!Cardinality(S) = Cardinality(S)
    /\ \A S : Bottoms!IsFiniteSet(S) = IsFiniteSet(S)
<1>1. \A S : Arrays!Cardinality(S) = Cardinality(S)
    BY DEF Arrays!Cardinality, Cardinality
<1>2. \A S : Bottoms!Cardinality(S) = Cardinality(S)
    BY DEF Bottoms!Cardinality, Cardinality
<1>3. \A S : Bottoms!IsFiniteSet(S) = IsFiniteSet(S)
    BY DEF Bottoms!IsFiniteSet, IsFiniteSet
<1> QED
    BY <1>1, <1>2, <1>3

LEMMA SameArrays ==
    /\ \A S : Arrays!LeastRank(S) = Bottoms!LeastRank(S)
    /\ \A b, w : Arrays!InsertIntoSorted(b, w) = Bottoms!InsertIntoSorted(b, w)
<1>1. \A S : Arrays!LeastRank(S) = Bottoms!LeastRank(S)
    BY DEF Arrays!LeastRank, Bottoms!LeastRank
<1>2. ASSUME NEW b, NEW w PROVE Arrays!InsertIntoSorted(b, w) = Bottoms!InsertIntoSorted(b, w)
    BY SameFinite DEF Arrays!InsertIntoSorted, Bottoms!InsertIntoSorted,
       Arrays!LargestRank, Bottoms!LargestRank
<1> QED
    BY <1>1, <1>2

LEMMA LeastRankIn ==
    ASSUME NEW S, S \subseteq Nat, IsFiniteSet(S), S # {}
    PROVE  Arrays!LeastRank(S) \in S /\ \A y \in S : Arrays!LeastRank(S) <= y
<1>1. Bottoms!IsFiniteSet(S)
    BY SameFinite
<1>2. Bottoms!LeastRank(S) \in S /\ \A y \in S : Bottoms!LeastRank(S) <= y
    BY <1>1, Bottoms!LeastRankProperty, RefreshAssumption, RankAssumption, SameFinite
<1> QED
    BY <1>2, SameArrays

LEMMA InsertBounded ==
    ASSUME NEW b \in SUBSET Nat, IsFiniteSet(b), Cardinality(b) <= D, NEW w \in Nat
    PROVE  LET c == Arrays!InsertIntoSorted(b, w)
           IN  c \subseteq b \cup {w} /\ IsFiniteSet(c) /\ Cardinality(c) <= D /\ c # {}
<1> DEFINE c == Bottoms!InsertIntoSorted(b, w)
<1>1. Bottoms!IsFiniteSet(b) /\ Bottoms!Cardinality(b) <= D
    BY SameFinite
<1>2. c \subseteq b \cup {w} /\ Bottoms!IsFiniteSet(c) /\ Bottoms!Cardinality(c) <= D /\ c # {}
    BY <1>1, Bottoms!InsertDropsAboveFull, RefreshAssumption, RankAssumption, SameFinite
<1> QED
    BY <1>2, SameFinite, SameArrays

LEMMA InsertKeepsPrefix ==
    ASSUME NEW b \in SUBSET Nat, IsFiniteSet(b), Cardinality(b) <= D, NEW w \in Nat,
           NEW v \in Nat, v \notin Arrays!InsertIntoSorted(b, w),
           NEW n \in Nat, n <= D,
           v \in b \cup {w} \/ Cardinality({x \in b : x < v}) >= n
    PROVE  Cardinality({x \in Arrays!InsertIntoSorted(b, w) : x < v}) >= n
<1> DEFINE c == Bottoms!InsertIntoSorted(b, w)
<1>1. /\ Bottoms!IsFiniteSet(b) /\ Bottoms!Cardinality(b) <= D
      /\ v \notin c
      /\ v \in b \cup {w} \/ Bottoms!Cardinality({x \in b : x < v}) >= n
    BY SameFinite, SameArrays
<1>2. Bottoms!Cardinality({x \in c : x < v}) >= n
    BY <1>1, Bottoms!InsertKeepsPrefix, RefreshAssumption, RankAssumption, SameFinite
<1> QED
    BY <1>2, SameFinite, SameArrays

LEMMA SubsetCounts ==
    ASSUME NEW T, IsFiniteSet(T), NEW S \in SUBSET T
    PROVE  /\ IsFiniteSet(S) /\ Cardinality(S) \in Nat /\ Cardinality(T) \in Nat
           /\ Cardinality(S) <= Cardinality(T)
BY FS_Subset, FS_CardinalityType

\* What Build puts into an array: as many ranks as fit, and all others behind them.
LEMMA SmallestRanksFill ==
    ASSUME NEW S \in SUBSET Nat, IsFiniteSet(S), S # {}
    PROVE  LET c == Arrays!SmallestRanks(S)
           IN  /\ c \subseteq S /\ IsFiniteSet(c) /\ c # {} /\ Cardinality(c) <= D
               /\ \A w \in S \ c : Cardinality({x \in c : x < w}) >= D
<1> DEFINE Below(w) == {x \in S : x < w}
           c == Arrays!SmallestRanks(S)
<1>1. c = {w \in S : Cardinality(Below(w)) < D}
    BY SameFinite DEF Arrays!SmallestRanks
<1>2. D \in Nat /\ D > 0
    BY RefreshAssumption
<1>3. c \subseteq S /\ IsFiniteSet(c)
    BY <1>1, SubsetCounts
<1>4. \A w \in S : Cardinality(Below(w)) \in Nat /\ IsFiniteSet(Below(w))
    BY SubsetCounts
<1>5. \A x \in S : x \in Nat
    OBVIOUS
<1> HIDE DEF c
<1>6. c # {}
    <2>1. PICK m \in S : \A y \in S : m <= y
        BY LeastRankIn
    <2>2. ASSUME NEW x \in S, x < m PROVE FALSE
        <3>1. x \in Nat /\ m \in Nat /\ m <= x
            BY <1>5, <2>1
        <3> QED
            BY <2>2, <3>1
    <2>3. Below(m) = {}
        BY <2>2
    <2> QED
        BY <1>1, <1>2, <2>1, <2>3, FS_EmptySet
<1>7. Cardinality(c) <= D
    <2>1. PICK g \in c : \A y \in c : y <= g
        <3>1. Bottoms!IsFiniteSet(c) /\ c \subseteq Nat
            BY <1>3, SameFinite
        <3> QED
            BY <1>6, <3>1, Bottoms!LargestRankProperty, RefreshAssumption, RankAssumption, SameFinite
    <2>2. c \ {g} \subseteq Below(g)
        BY <1>5, <1>3, <2>1
    <2>3. Cardinality(c \ {g}) <= Cardinality(Below(g)) /\ Cardinality(Below(g)) < D
        BY <1>1, <1>4, <2>1, <2>2, SubsetCounts
    <2>4. Cardinality(c \ {g}) = Cardinality(c) - 1 /\ Cardinality(c) \in Nat
        BY <1>3, <2>1, FS_RemoveElement, FS_CardinalityType
    <2> QED
        <3>1. Cardinality(Below(g)) \in Nat
            BY <1>3, <1>4, <2>1
        <3> QED
            BY <1>2, <2>3, <2>4, <3>1
<1>8. ASSUME NEW w \in S \ c PROVE Cardinality({x \in c : x < w}) >= D
    <2>1. PICK v \in S \ c : \A y \in S \ c : v <= y
        <3>1. S \ c \subseteq Nat /\ IsFiniteSet(S \ c)
            BY SubsetCounts
        <3> QED
            BY <1>8, <3>1, LeastRankIn
    <2>2. Below(v) \subseteq {x \in c : x < w}
        <3> SUFFICES ASSUME NEW x \in S, x < v PROVE x \in c /\ x < w
            OBVIOUS
        <3>1. x \in Nat /\ v \in Nat /\ w \in Nat /\ v <= w
            BY <1>5, <2>1
        <3>2. x < w /\ ~(v <= x)
            BY <3>1
        <3> QED
            BY <2>1, <3>2
    <2>3. Cardinality(Below(v)) >= D
        BY <1>1, <1>2, <1>4, <2>1
    <2>4. IsFiniteSet({x \in c : x < w})
        BY <1>3, SubsetCounts
    <2>5. Cardinality(Below(v)) <= Cardinality({x \in c : x < w})
        BY <2>2, <2>4, SubsetCounts
    <2> QED
        BY <1>2, <1>4, <2>1, <2>3, <2>4, <2>5, SubsetCounts
<1> QED
    BY <1>3, <1>6, <1>7, <1>8 DEF c

-----------------------------------------------------------------------------
(* Signatures of the owners' sets *)

RanksOf(b, i) == {Rank(b.seed, i, e) : e \in b.members}

Structures == [seed : Seeds, members : SUBSET Elem, lost : 0 .. D, rebuild : BOOLEAN,
               bottom : [Coord -> SUBSET Nat]]

\* The arrays of b hold ranks of its set only, and lost at most one position of
\* the exact prefix for each deletion.
Faithful(b) ==
    /\ b \in Structures
    /\ \A i \in Coord :
        /\ IsFiniteSet(b.bottom[i]) /\ Cardinality(b.bottom[i]) <= D
        /\ b.bottom[i] \subseteq RanksOf(b, i)
        /\ ~b.rebuild => b.bottom[i] # {}
        /\ \A w \in RanksOf(b, i) \ b.bottom[i] :
               Cardinality({x \in b.bottom[i] : x < w}) >= D - b.lost

LEMMA RanksOfSet ==
    ASSUME NEW s \in Seeds, NEW i \in Coord, NEW S \in SUBSET Elem
    PROVE  LET R == {Rank(s, i, e) : e \in S}
           IN  R \subseteq Nat /\ IsFiniteSet(R) /\ (S # {} => R # {})
<1>1. IsFiniteSet(S)
    BY RankAssumption, FS_Subset
<1>2. IsFiniteSet({Rank(s, i, e) : e \in S})
    <2> DEFINE f == [e \in S |-> Rank(s, i, e)]
    <2>1. f \in Surjection(S, {Rank(s, i, e) : e \in S})
        BY DEF Surjection
    <2> QED
        BY <1>1, <2>1, FS_Surjection
<1> QED
    BY <1>2, RankAssumption DEF Coord

LEMMA BuildFaithful ==
    ASSUME seed \in Seeds, NEW S \in SUBSET Elem, S # {}
    PROVE  Faithful(Build(S))
<1> DEFINE R(i) == {Rank(seed, i, e) : e \in S}
           b == Build(S)
<1>1. \A i \in Coord : R(i) \in SUBSET Nat /\ IsFiniteSet(R(i)) /\ R(i) # {}
    BY RanksOfSet
<1>2. /\ b.seed = seed /\ b.members = S /\ b.lost = 0 /\ b.rebuild = FALSE
      /\ b.bottom = [i \in Coord |-> Arrays!SmallestRanks(R(i))]
    BY DEF Build
<1> HIDE DEF b, R
<1>3. ASSUME NEW i \in Coord
      PROVE  /\ b.bottom[i] \subseteq R(i) /\ IsFiniteSet(b.bottom[i]) /\ b.bottom[i] # {}
             /\ Cardinality(b.bottom[i]) <= D
             /\ \A w \in R(i) \ b.bottom[i] : Cardinality({x \in b.bottom[i] : x < w}) >= D
    <2>1. b.bottom[i] = Arrays!SmallestRanks(R(i))
        BY <1>2
    <2> QED
        BY <1>1, <2>1, SmallestRanksFill
<1>4. b.bottom \in [Coord -> SUBSET Nat]
    BY <1>1, <1>2, <1>3
<1>5. b \in Structures
    BY <1>2, <1>4, RefreshAssumption DEF b, Build, Structures
<1>6. \A i \in Coord : RanksOf(b, i) = R(i)
    BY <1>2 DEF RanksOf, R
<1>7. D - b.lost = D
    BY <1>2, RefreshAssumption
<1>8. Faithful(b)
    BY <1>2, <1>3, <1>5, <1>6, <1>7 DEF Faithful
<1> QED
    BY <1>8 DEF b

\* What Faithful says of one array.
LEMMA FaithfulArray ==
    ASSUME NEW b, Faithful(b), NEW i \in Coord
    PROVE  /\ b.bottom[i] \in SUBSET Nat /\ IsFiniteSet(b.bottom[i]) /\ Cardinality(b.bottom[i]) <= D
           /\ b.bottom[i] \subseteq RanksOf(b, i) /\ (~b.rebuild => b.bottom[i] # {})
           /\ \A w \in RanksOf(b, i) \ b.bottom[i] :
                  Cardinality({x \in b.bottom[i] : x < w}) >= D - b.lost
           /\ RanksOf(b, i) \subseteq Nat /\ IsFiniteSet(RanksOf(b, i))
           /\ b.seed \in Seeds /\ b.members \subseteq Elem /\ b.lost \in 0 .. D
           /\ b.rebuild \in BOOLEAN
<1>1. /\ b.bottom[i] \in SUBSET Nat /\ b.seed \in Seeds /\ b.members \subseteq Elem
      /\ b.lost \in 0 .. D /\ b.rebuild \in BOOLEAN
    BY DEF Faithful, Structures
<1>2. RanksOf(b, i) \subseteq Nat /\ IsFiniteSet(RanksOf(b, i))
    BY <1>1, RanksOfSet DEF RanksOf
<1> QED
    BY <1>1, <1>2 DEF Faithful

LEMMA InsertFaithful ==
    ASSUME NEW b, Faithful(b), NEW e \in Elem
    PROVE  Faithful(Inserted(b, e))
<1> DEFINE W(i) == Rank(b.seed, i, e)
           c == Inserted(b, e)
<1>1. /\ b \in Structures /\ b.seed \in Seeds /\ b.lost \in 0 .. D
      /\ \A i \in Coord : W(i) \in Nat
    BY RankAssumption DEF Faithful, Structures, Coord
<1>2. /\ c.seed = b.seed /\ c.members = b.members \cup {e} /\ c.lost = b.lost
      /\ c.rebuild = b.rebuild
      /\ c.bottom = [i \in Coord |-> Arrays!InsertIntoSorted(b.bottom[i], W(i))]
    BY <1>1 DEF Inserted, Structures
<1>3. \A i \in Coord : RanksOf(c, i) = RanksOf(b, i) \cup {W(i)}
    BY <1>2 DEF RanksOf
<1> HIDE DEF c, W
<1>4. ASSUME NEW i \in Coord
      PROVE  /\ c.bottom[i] \subseteq RanksOf(c, i) /\ IsFiniteSet(c.bottom[i])
             /\ Cardinality(c.bottom[i]) <= D /\ c.bottom[i] # {}
             /\ c.bottom[i] \subseteq Nat
             /\ \A w \in RanksOf(c, i) \ c.bottom[i] :
                    Cardinality({x \in c.bottom[i] : x < w}) >= D - c.lost
    <2>1. c.bottom[i] = Arrays!InsertIntoSorted(b.bottom[i], W(i))
        BY <1>2
    <2>2. /\ c.bottom[i] \subseteq b.bottom[i] \cup {W(i)} /\ IsFiniteSet(c.bottom[i])
          /\ Cardinality(c.bottom[i]) <= D /\ c.bottom[i] # {}
        BY <1>1, <2>1, FaithfulArray, InsertBounded
    <2>3. c.bottom[i] \subseteq RanksOf(c, i) /\ c.bottom[i] \subseteq Nat
        BY <1>1, <1>3, <2>2, FaithfulArray
    <2>4. ASSUME NEW v \in RanksOf(c, i) \ c.bottom[i]
          PROVE  Cardinality({x \in c.bottom[i] : x < v}) >= D - c.lost
        <3>1. v \in Nat
            BY <1>1, <1>3, <2>4, FaithfulArray
        <3>2. D - b.lost \in Nat /\ D - b.lost <= D
            BY <1>1, RefreshAssumption
        <3>3. v \in b.bottom[i] \cup {W(i)} \/ Cardinality({x \in b.bottom[i] : x < v}) >= D - b.lost
            BY <1>3, <2>4, FaithfulArray
        <3>4. v \notin Arrays!InsertIntoSorted(b.bottom[i], W(i))
            BY <2>1, <2>4
        <3> DEFINE n == D - b.lost
        <3>5. n \in Nat /\ n <= D /\ (v \in b.bottom[i] \cup {W(i)} \/ Cardinality({x \in b.bottom[i] : x < v}) >= n)
            BY <3>2, <3>3
        <3>6. b.bottom[i] \in SUBSET Nat /\ IsFiniteSet(b.bottom[i]) /\ Cardinality(b.bottom[i]) <= D
            BY FaithfulArray
        <3> HIDE DEF n
        <3>7. Cardinality({x \in Arrays!InsertIntoSorted(b.bottom[i], W(i)) : x < v}) >= n
            BY <1>1, <3>1, <3>4, <3>5, <3>6, InsertKeepsPrefix
        <3> QED
            BY <1>2, <2>1, <3>7 DEF n
    <2> QED
        BY <2>2, <2>3, <2>4
<1>5. c \in Structures
    <2>1. c.bottom \in [Coord -> SUBSET Nat]
        BY <1>2, <1>4
    <2>2. c = [b EXCEPT !.members = c.members, !.bottom = c.bottom]
        BY <1>1, <1>2 DEF c, Inserted, Structures
    <2>3. c.members \in SUBSET Elem
        BY <1>1, <1>2 DEF Structures
    <2> QED
        BY <1>1, <2>1, <2>2, <2>3 DEF Structures
<1>6. Faithful(c)
    BY <1>4, <1>5 DEF Faithful
<1> QED
    BY <1>6 DEF c

\* One array loses the rank of a deleted member, so at most one position of its
\* exact prefix, and none when the element was no member.
LEMMA EraseKeepsPrefix ==
    ASSUME NEW a \in SUBSET Nat, IsFiniteSet(a), NEW w \in Nat, NEW v \in Nat, NEW n \in Nat,
           Cardinality({x \in a : x < v}) >= n
    PROVE  /\ Cardinality({x \in a \ {w} : x < v}) >= n - 1
           /\ w \notin a => Cardinality({x \in a \ {w} : x < v}) >= n
<1> DEFINE P == {x \in a : x < v}
           Q == {x \in a \ {w} : x < v}
<1>1. Q = P \ {w} /\ P \in SUBSET a
    OBVIOUS
<1>2. w \notin a => Q = P
    OBVIOUS
<1>3. IsFiniteSet(P) /\ Cardinality(P) \in Nat
    BY <1>1, SubsetCounts
<1> HIDE DEF P, Q
<1>4. Cardinality(Q) = IF w \in P THEN Cardinality(P) - 1 ELSE Cardinality(P)
    BY <1>1, <1>3, FS_RemoveElement
<1>5. Cardinality(P) >= n
    BY DEF P
<1>6. Cardinality(Q) >= n - 1 /\ (w \notin a => Cardinality(Q) >= n)
    BY <1>2, <1>3, <1>4, <1>5
<1> QED
    BY <1>6 DEF Q

LEMMA DeleteFaithful ==
    ASSUME CollisionFree, NEW b, Faithful(b), NEW e \in Elem
    PROVE  Faithful(Deleted(b, e))
<1> DEFINE W(i) == Rank(b.seed, i, e)
           c == Deleted(b, e)
           kept == [i \in Coord |-> Arrays!EraseRank(b.bottom[i], W(i))]
<1>1. /\ b \in Structures /\ b.seed \in Seeds /\ b.lost \in 0 .. D /\ b.members \subseteq Elem
      /\ \A i \in Coord : W(i) \in Nat
    BY RankAssumption DEF Faithful, Structures, Coord
<1>2. /\ c.seed = b.seed /\ c.members = b.members \ {e}
      /\ c.lost = IF e \in b.members /\ b.lost < D THEN b.lost + 1 ELSE b.lost
      /\ c.rebuild = (\E i \in Coord : kept[i] = {})
      /\ c.bottom = kept
    BY <1>1 DEF Deleted, Structures
<1>3. c = [b EXCEPT !.members = c.members, !.bottom = kept, !.lost = c.lost,
                    !.rebuild = c.rebuild]
    BY <1>1, <1>2 DEF Deleted, Structures
<1>4. \A i \in Coord : \A f \in b.members : W(i) = Rank(b.seed, i, f) => e = f
    BY <1>1 DEF CollisionFree
<1>5. \A i \in Coord : kept[i] = b.bottom[i] \ {W(i)}
    BY DEF Arrays!EraseRank
<1>6. \A i \in Coord : W(i) = Rank(b.seed, i, e)
    OBVIOUS
<1> HIDE DEF c, W, kept
<1>7. ASSUME NEW i \in Coord PROVE RanksOf(c, i) = RanksOf(b, i) \ {W(i)}
    <2>1. RanksOf(c, i) = {Rank(b.seed, i, f) : f \in b.members \ {e}}
        BY <1>2 DEF RanksOf
    <2> QED
        BY <1>4, <1>6, <2>1 DEF RanksOf
<1>8. e \notin b.members => \A i \in Coord : W(i) \notin RanksOf(b, i)
    BY <1>4 DEF RanksOf
<1>9. /\ e \in b.members /\ b.lost < D => c.lost = b.lost + 1
      /\ ~(e \in b.members /\ b.lost < D) => c.lost = b.lost
      /\ b.lost \in Nat /\ D \in Nat /\ b.lost <= D
    BY <1>1, <1>2, RefreshAssumption
<1>10. c.lost \in 0 .. D /\ c.rebuild \in BOOLEAN
    <2>1. c.rebuild \in BOOLEAN
        BY <1>2
    <2>2. c.lost \in 0 .. D
        BY <1>9
    <2> QED
        BY <2>1, <2>2
<1>11. ASSUME NEW i \in Coord
      PROVE  /\ c.bottom[i] \subseteq RanksOf(c, i) /\ IsFiniteSet(c.bottom[i])
             /\ Cardinality(c.bottom[i]) <= D /\ c.bottom[i] \subseteq Nat
             /\ ~c.rebuild => c.bottom[i] # {}
             /\ \A w \in RanksOf(c, i) \ c.bottom[i] :
                    Cardinality({x \in c.bottom[i] : x < w}) >= D - c.lost
    <2>1. c.bottom[i] = b.bottom[i] \ {W(i)}
        BY <1>2, <1>5
    <2>2. c.bottom[i] \subseteq RanksOf(c, i) /\ c.bottom[i] \subseteq Nat
        BY <1>7, <2>1, FaithfulArray
    <2>3. IsFiniteSet(c.bottom[i]) /\ Cardinality(c.bottom[i]) <= D
        <3>1. c.bottom[i] \in SUBSET b.bottom[i]
            BY <2>1
        <3> QED
            BY <3>1, FaithfulArray, SubsetCounts, RefreshAssumption
    <2>4. ~c.rebuild => c.bottom[i] # {}
        BY <1>2
    <2>5. ASSUME NEW v \in RanksOf(c, i) \ c.bottom[i]
          PROVE  Cardinality({x \in c.bottom[i] : x < v}) >= D - c.lost
        <3>1. v \in RanksOf(b, i) \ b.bottom[i] /\ v \in Nat
            BY <1>7, <2>1, <2>5, FaithfulArray
        <3>2. D - b.lost \in Nat /\ Cardinality({x \in b.bottom[i] : x < v}) >= D - b.lost
            BY <1>1, <3>1, FaithfulArray, RefreshAssumption
        <3>3. /\ Cardinality({x \in c.bottom[i] : x < v}) >= (D - b.lost) - 1
              /\ W(i) \notin b.bottom[i] => Cardinality({x \in c.bottom[i] : x < v}) >= D - b.lost
            BY <1>1, <2>1, <3>1, <3>2, FaithfulArray, EraseKeepsPrefix, SMTT(20)
        <3>4. Cardinality({x \in c.bottom[i] : x < v}) \in Nat
            BY <2>3, SubsetCounts
        <3>5. CASE e \in b.members /\ b.lost < D
            BY <1>9, <3>3, <3>4, <3>5
        <3>6. CASE e \in b.members /\ ~(b.lost < D)
            <4>1. c.lost = D
                BY <1>9, <3>6
            <4> QED
                BY <1>9, <3>4, <4>1
        <3>7. CASE e \notin b.members
            <4>1. c.lost = b.lost /\ W(i) \notin b.bottom[i]
                BY <1>8, <1>9, <3>7, FaithfulArray
            <4> QED
                BY <3>3, <4>1
        <3> QED
            BY <3>5, <3>6, <3>7
    <2> QED
        BY <2>2, <2>3, <2>4, <2>5
<1>12. c \in Structures
    <2>1. kept \in [Coord -> SUBSET Nat]
        BY <1>5, <1>1 DEF kept, Structures, Arrays!EraseRank
    <2>2. c.members \in SUBSET Elem
        BY <1>1, <1>2
    <2> QED
        BY <1>1, <1>10, <1>3, <2>1, <2>2 DEF Structures
<1>13. Faithful(c)
    BY <1>11, <1>12 DEF Faithful
<1> QED
    BY <1>13 DEF c

\* The least rank of an array whose prefix is not eaten up is the set's MinHash.
LEMMA SignatureOfSet ==
    ASSUME NEW b, Faithful(b), ~b.rebuild, b.lost < D, NEW i \in Coord
    PROVE  EncodeSignature(GetSignature(b))[i] = Bucket(b.seed, i, b.members)
<1> DEFINE a == b.bottom[i]
           R == RanksOf(b, i)
           m == Arrays!LeastRank(R)
           n == Arrays!LeastRank(a)
<1>1. /\ a \subseteq Nat /\ IsFiniteSet(a) /\ a # {} /\ a \subseteq R
      /\ R \subseteq Nat /\ IsFiniteSet(R) /\ b.lost \in 0 .. D
      /\ \A w \in R \ a : Cardinality({x \in a : x < w}) >= D - b.lost
    BY FaithfulArray
<1> HIDE DEF a, R
<1>2. m \in R /\ \A y \in R : m <= y
    BY <1>1, LeastRankIn
<1>3. n \in a /\ \A y \in a : n <= y
    BY <1>1, LeastRankIn
<1> HIDE DEF m, n
<1>4. m \in a
    <2> SUFFICES ASSUME m \notin a PROVE FALSE
        OBVIOUS
    <2>1. Cardinality({x \in a : x < m}) >= D - b.lost
        BY <1>1, <1>2
    <2>2. ASSUME NEW x \in a, x < m PROVE FALSE
        <3>1. x \in Nat /\ m \in Nat /\ m <= x
            BY <1>1, <1>2
        <3> QED
            BY <2>2, <3>1
    <2>3. {x \in a : x < m} = {}
        BY <2>2
    <2>4. Cardinality({x \in a : x < m}) = 0
        BY <2>3, FS_EmptySet
    <2> QED
        BY <1>1, <2>1, <2>4, RefreshAssumption
<1>5. m = n
    <2>1. m \in Nat /\ n \in Nat /\ m <= n /\ n <= m
        BY <1>1, <1>2, <1>3, <1>4
    <2> QED
        BY <2>1
<1>6. EncodeSignature(GetSignature(b))[i] = n % M
    BY DEF EncodeSignature, GetSignature, n, a
<1>7. Bucket(b.seed, i, b.members) = m % M
    BY DEF Bucket, RanksOf, m, R
<1> QED
    BY <1>5, <1>6, <1>7

-----------------------------------------------------------------------------
(* Match counts of the owners' sets *)

\* The feature of a ciphertext is that of the set it was made from.
Exact(ct) == ct.of.exact => \A i \in Coord : ct.feature[i] = Bucket(ct.of.seed, i, ct.of.members)

StructuresFaithful ==
    /\ seed \in Seeds /\ DOMAIN structure = Owners
    /\ \A o \in Owners : structure[o] # None => Faithful(structure[o])

OutboxExact == \A o \in Owners : outbox[o] # None => Exact(outbox[o].bytes)
PairExact(pair) == pair # None => \A o \in Owners : Exact(pair[o].bytes)

SetInv == CollisionFree =>
    /\ StructuresFaithful
    /\ OutboxExact /\ PairExact(slot) /\ PairExact(read)
    /\ AnswerOfSets

LEMMA EncryptionExact ==
    ASSUME NEW b, Faithful(b), ~b.rebuild
    PROVE  Exact(EncryptFeature(b)) /\ Exact(Serialize(EncryptFeature(b)))
<1> DEFINE ct == EncryptFeature(b)
           bytes == Serialize(ct)
<1>1. /\ ct.feature = EncodeSignature(GetSignature(b)) /\ ct.of.seed = b.seed
      /\ ct.of.members = b.members /\ ct.of.exact = (b.lost < D)
    BY DEF EncryptFeature
<1>2. bytes.feature = ct.feature /\ bytes.of = ct.of
    BY DEF Serialize, EncryptFeature
<1> HIDE DEF ct, bytes
<1>3. Exact(ct)
    BY <1>1, SignatureOfSet, ZenonT(40) DEF Exact
<1>4. Exact(bytes)
    BY <1>2, <1>3 DEF Exact
<1> QED
    BY <1>3, <1>4 DEF ct, bytes

\* The match count of two exact ciphertexts is that of their sets.
LEMMA ResultOfSets ==
    ASSUME NEW x, Exact(x), NEW y, Exact(y), answer' = Result(x, y)
    PROVE  AnswerOfSets'
<1>1. answer'.count = MatchCount(x, y) /\ answer'.of[1] = x.of /\ answer'.of[2] = y.of
    BY DEF Result
<1>2. ASSUME x.of.exact, y.of.exact
      PROVE  MatchCount(x, y) = Cardinality({i \in Coord : Bucket(x.of.seed, i, x.of.members)
                                                           = Bucket(y.of.seed, i, y.of.members)})
    <2>1. {i \in Coord : x.feature[i] = y.feature[i]}
          = {i \in Coord : Bucket(x.of.seed, i, x.of.members) = Bucket(y.of.seed, i, y.of.members)}
        BY <1>2 DEF Exact
    <2> QED
        BY <2>1 DEF MatchCount
<1> QED
    BY <1>1, <1>2 DEF AnswerOfSets

LEMMA InitSetInv == Init => SetInv
BY DEF Init, SetInv, StructuresFaithful, OutboxExact, PairExact, AnswerOfSets

LEMMA UpdateFaithful ==
    ASSUME CollisionFree, StructuresFaithful, NEW o \in Owners,
           (\E S \in Sets : InitSet(o, S)) \/ (\E e \in Elem : Insert(o, e) \/ Delete(o, e))
    PROVE  StructuresFaithful'
<1>1. ASSUME NEW b, Faithful(b), Update(o, b) PROVE StructuresFaithful'
    BY <1>1 DEF Update, StructuresFaithful
<1>2. ASSUME NEW S \in Sets, InitSet(o, S) PROVE StructuresFaithful'
    <2>1. S \in SUBSET Elem /\ S # {} /\ seed \in Seeds
        BY <1>2, RefreshAssumption DEF InitSet, StructuresFaithful
    <2>2. Faithful(Build(S))
        BY <2>1, BuildFaithful
    <2> QED
        BY <1>1, <1>2, <2>2 DEF InitSet
<1>3. ASSUME Usable(o) PROVE Faithful(structure[o])
    BY <1>3 DEF Usable, StructuresFaithful
<1>4. ASSUME NEW e \in Elem, Insert(o, e) PROVE StructuresFaithful'
    BY <1>1, <1>3, <1>4, InsertFaithful DEF Insert
<1>5. ASSUME NEW e \in Elem, Delete(o, e) PROVE StructuresFaithful'
    BY <1>1, <1>3, <1>5, DeleteFaithful DEF Delete
<1> QED
    BY <1>2, <1>4, <1>5

LEMMA NextSetInv == IInv /\ SetInv /\ [Next]_vars => SetInv'
<1> SUFFICES ASSUME IInv, SetInv, [Next]_vars, CollisionFree
             PROVE  /\ StructuresFaithful'
                    /\ OutboxExact' /\ PairExact(slot)' /\ PairExact(read)'
                    /\ AnswerOfSets'
    BY DEF SetInv, CollisionFree
<1>1. StructuresFaithful /\ OutboxExact /\ PairExact(slot) /\ PairExact(read) /\ AnswerOfSets
    BY DEF SetInv
<1>2. ASSUME UNCHANGED <<outbox, slot, read, answer>>
      PROVE  OutboxExact' /\ PairExact(slot)' /\ PairExact(read)' /\ AnswerOfSets'
    BY <1>1, <1>2 DEF OutboxExact, PairExact, AnswerOfSets
<1>3. ASSUME UNCHANGED <<seed, structure>> PROVE StructuresFaithful'
    BY <1>1, <1>3 DEF StructuresFaithful
<1>4. CASE \E s \in Seeds : SetHashSeed(s)
    <2>1. StructuresFaithful'
        BY <1>1, <1>4 DEF SetHashSeed, StructuresFaithful
    <2> QED
        BY <1>2, <1>4, <2>1 DEF SetHashSeed
<1>5. ASSUME NEW o \in Owners,
             (\E S \in Sets : InitSet(o, S)) \/ (\E e \in Elem : Insert(o, e) \/ Delete(o, e))
      PROVE  StructuresFaithful' /\ UNCHANGED <<outbox, slot, read, answer>>
    <2>1. StructuresFaithful'
        BY <1>1, <1>5, UpdateFaithful
    <2> QED
        BY <1>5, <2>1 DEF InitSet, Insert, Delete, Update
<1>6. ASSUME NEW o \in Owners, Usable(o)
      PROVE  Exact(EncryptFeature(structure[o])) /\ Exact(Serialize(EncryptFeature(structure[o])))
    BY <1>1, <1>6, EncryptionExact DEF Usable, StructuresFaithful
<1>7. ASSUME NEW o \in Owners, Upload(o)
      PROVE  /\ OutboxExact' /\ UNCHANGED <<seed, structure, slot, read, answer>>
    <2>1. \A p \in Owners \ {o} : outbox'[p] = outbox[p]
        BY <1>7 DEF Upload, IInv, EnvelopesHonest
    <2>2. outbox'[o].bytes = Serialize(EncryptFeature(structure[o]))
        BY <1>7 DEF Upload, IInv, EnvelopesHonest, MakeVersionedCiphertext
    <2>3. Exact(outbox'[o].bytes)
        BY <1>6, <1>7, <2>2 DEF Upload
    <2> QED
        BY <1>1, <1>7, <2>1, <2>3 DEF Upload, OutboxExact
<1>8. ASSUME NEW o \in Owners, TryReplace(o)
      PROVE  /\ OutboxExact' /\ PairExact(slot)' /\ UNCHANGED <<seed, structure, read, answer>>
    <2>1. OutboxExact'
        BY <1>1, <1>8 DEF TryReplace, OutboxExact, IInv, EnvelopesHonest
    <2>2. Exact(outbox[o].bytes) /\ slot # None /\ DOMAIN slot = Owners
        BY <1>1, <1>8 DEF TryReplace, OutboxExact, IInv, OneSeedStored, OneSeed
    <2>3. slot' = slot \/ slot' = [slot EXCEPT ![o] = outbox[o]]
        BY <1>8 DEF TryReplace
    <2>4. PairExact(slot)'
        BY <1>1, <2>2, <2>3 DEF PairExact
    <2> QED
        BY <1>8, <2>1, <2>4 DEF TryReplace
<1>9. ASSUME CreateStore
      PROVE  /\ OutboxExact' /\ PairExact(slot)' /\ UNCHANGED <<seed, structure, read, answer>>
    BY <1>1, <1>9 DEF CreateStore, OutboxExact, PairExact
<1>10. ASSUME ReadPair
       PROVE  /\ PairExact(read)' /\ UNCHANGED <<seed, structure, outbox, slot, answer>>
    BY <1>1, <1>10 DEF ReadPair, PairExact
<1>11. ASSUME EvaluatePair
       PROVE  /\ AnswerOfSets' /\ PairExact(read)' /\ UNCHANGED <<seed, structure, outbox, slot>>
    <2>1. PICK x \in Owners, y \in Owners : answer' = Result(read[x].bytes, read[y].bytes)
        BY <1>11 DEF EvaluatePair
    <2>2. Exact(read[x].bytes) /\ Exact(read[y].bytes)
        BY <1>1, <1>11 DEF EvaluatePair, PairExact
    <2>3. AnswerOfSets'
        BY <2>1, <2>2, ResultOfSets
    <2> QED
        BY <1>11, <2>3 DEF EvaluatePair, PairExact
<1>12. ASSUME NEW x \in Owners, NEW y \in Owners, Run(x, y)
       PROVE  AnswerOfSets' /\ UNCHANGED <<seed, structure, outbox, slot, read>>
    BY <1>6, <1>12, ResultOfSets DEF Run
<1>13. ASSUME UNCHANGED <<outbox>> PROVE OutboxExact'
    BY <1>1, <1>13 DEF OutboxExact
<1>14. ASSUME UNCHANGED <<slot>> PROVE PairExact(slot)'
    BY <1>1, <1>14 DEF PairExact
<1>15. ASSUME UNCHANGED <<read>> PROVE PairExact(read)'
    BY <1>1, <1>15 DEF PairExact
<1>16. ASSUME UNCHANGED <<answer>> PROVE AnswerOfSets'
    BY <1>1, <1>16 DEF AnswerOfSets
<1>17. CASE \E o \in Owners : \/ \E S \in Sets : InitSet(o, S)
                              \/ \E e \in Elem : Insert(o, e) \/ Delete(o, e)
    BY <1>2, <1>5, <1>17
<1>18. CASE \E o \in Owners : Upload(o)
    BY <1>3, <1>7, <1>14, <1>15, <1>16, <1>18
<1>19. CASE \E o \in Owners : TryReplace(o)
    BY <1>3, <1>8, <1>15, <1>16, <1>19
<1>20. CASE CreateStore \/ ReadPair
    BY <1>3, <1>9, <1>10, <1>13, <1>14, <1>15, <1>16, <1>20
<1>21. CASE EvaluatePair \/ \E x, y \in Owners : Run(x, y)
    BY <1>3, <1>11, <1>12, <1>13, <1>14, <1>15, <1>21
<1>22. CASE UNCHANGED vars
    BY <1>2, <1>3, <1>22 DEF vars
<1> QED
    BY <1>4, <1>17, <1>18, <1>19, <1>20, <1>21, <1>22 DEF Next

\* Every decrypted match count is that of the owners' sets, whatever updates,
\* uploads, replacements and reads led to it and in whatever order, for owners
\* that lost fewer members than the arrays are deep and ranks that differ.
THEOREM CountsOfSets == Spec => []AnswerOfSets
<1>1. SetInv => AnswerOfSets
    BY DEF SetInv, AnswerOfSets
<1> QED
    BY InitIInv, NextIInv, InitSetInv, NextSetInv, <1>1, PTL DEF Spec
=============================================================================
