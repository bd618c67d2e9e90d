------------------------ MODULE BottomStructureProofs ------------------------
(***************************************************************************)
(* Proofs about BottomStructure for every set of elements, number of       *)
(* coordinates, depth and set of rank functions.                           *)
(*                                                                         *)
(* The argument: an insertion drops a rank only above a full array         *)
(* (InsertDropsAboveFull), so a rank missing from the array always has     *)
(* D - deletes smaller ranks in it (MissingBehindPrefix), and as long as   *)
(* that number is positive the smallest rank of the set is not missing.    *)
(***************************************************************************)
EXTENDS BottomStructure, FiniteSetTheorems, WellFoundedInduction, TLAPS

(* Order statistics of finite sets of naturals.  A set {y \in S : y > x}   *)
(* that is minimal for inclusion is empty: its x is the largest rank.      *)

LEMMA LargestExists ==
    ASSUME NEW S, S \subseteq Nat, IsFiniteSet(S), S # {}
    PROVE  \E x \in S : \A y \in S : y <= x
  <1> DEFINE Above(x) == {y \in S : y > x}
             T == {Above(x) : x \in S}
  <1>1. IsWellFoundedOn(StrictSubsetOrdering(S), SUBSET S)
    BY FS_StrictSubsetOrderingWellFounded, FS_FiniteSubsetsOfFinite
  <1>2. T \subseteq SUBSET S /\ T # {}
    OBVIOUS
  <1>3. PICK U \in T : \A V \in T : <<V, U>> \notin StrictSubsetOrdering(S)
    BY <1>1, <1>2, WFMin
  <1>4. PICK x \in S : U = Above(x)
    BY <1>3
  <1>5. ASSUME NEW y \in S, ~(y <= x) PROVE FALSE
    <2> y \in Nat /\ x \in Nat /\ y > x /\ \A z \in S : z \in Nat
      BY <1>5
    <2>1. y \in Above(x) /\ y \notin Above(y)
      OBVIOUS
    <2>2. ASSUME NEW z \in Above(y) PROVE z \in Above(x)
      <3>1. z \in S /\ z \in Nat /\ z > y
        OBVIOUS
      <3>2. z > x
        BY <3>1
      <3>3. QED
        BY <3>1, <3>2
    <2>3. <<Above(y), U>> \in StrictSubsetOrdering(S)
      BY <2>1, <2>2, <1>4 DEF StrictSubsetOrdering
    <2>4. QED
      BY <2>3, <1>3, <1>5
  <1>6. QED
    BY <1>4, <1>5

LEMMA LeastExists ==
    ASSUME NEW S, S \subseteq Nat, IsFiniteSet(S), S # {}
    PROVE  \E x \in S : \A y \in S : x <= y
  <1> DEFINE Below(x) == {y \in S : y < x}
             T == {Below(x) : x \in S}
  <1>1. IsWellFoundedOn(StrictSubsetOrdering(S), SUBSET S)
    BY FS_StrictSubsetOrderingWellFounded, FS_FiniteSubsetsOfFinite
  <1>2. T \subseteq SUBSET S /\ T # {}
    OBVIOUS
  <1>3. PICK U \in T : \A V \in T : <<V, U>> \notin StrictSubsetOrdering(S)
    BY <1>1, <1>2, WFMin
  <1>4. PICK x \in S : U = Below(x)
    BY <1>3
  <1>5. ASSUME NEW y \in S, ~(x <= y) PROVE FALSE
    <2> y \in Nat /\ x \in Nat /\ y < x /\ \A z \in S : z \in Nat
      BY <1>5
    <2>1. y \in Below(x) /\ y \notin Below(y)
      OBVIOUS
    <2>2. ASSUME NEW z \in Below(y) PROVE z \in Below(x)
      <3>1. z \in S /\ z \in Nat /\ z < y
        OBVIOUS
      <3>2. z < x
        BY <3>1
      <3>3. QED
        BY <3>1, <3>2
    <2>3. <<Below(y), U>> \in StrictSubsetOrdering(S)
      BY <2>1, <2>2, <1>4 DEF StrictSubsetOrdering
    <2>4. QED
      BY <2>3, <1>3, <1>5
  <1>6. QED
    BY <1>4, <1>5

LEMMA LargestRankProperty ==
    ASSUME NEW S, S \subseteq Nat, IsFiniteSet(S), S # {}
    PROVE  /\ LargestRank(S) \in S
           /\ \A y \in S : y <= LargestRank(S)
  BY LargestExists DEF LargestRank

LEMMA LeastRankProperty ==
    ASSUME NEW S, S \subseteq Nat, IsFiniteSet(S), S # {}
    PROVE  /\ LeastRank(S) \in S
           /\ \A y \in S : LeastRank(S) <= y
  BY LeastExists DEF LeastRank

\* The least rank is determined by its two properties.
LEMMA LeastRankUnique ==
    ASSUME NEW S, S \subseteq Nat, IsFiniteSet(S),
           NEW m \in S, \A y \in S : m <= y
    PROVE  LeastRank(S) = m
  <1>1. LeastRank(S) \in S /\ \A y \in S : LeastRank(S) <= y
    BY LeastRankProperty
  <1>2. LeastRank(S) <= m /\ m <= LeastRank(S)
    BY <1>1
  <1>3. LeastRank(S) \in Nat /\ m \in Nat
    BY <1>1
  <1>4. QED
    BY <1>2, <1>3

------------------------------------------------------------------------------
(* InsertIntoSorted *)

\* What an insertion keeps and drops: every rank it drops, the new one or an
\* old one, lies above an array that is full.
LEMMA InsertDropsAboveFull ==
    ASSUME NEW b \in SUBSET Nat, IsFiniteSet(b), Cardinality(b) <= D, NEW w \in Nat
    PROVE  LET c == InsertIntoSorted(b, w)
           IN  /\ c \subseteq b \cup {w}
               /\ IsFiniteSet(c)
               /\ Cardinality(c) <= D
               /\ c # {}
               /\ \A x \in (b \cup {w}) \ c :
                     Cardinality(c) = D /\ \A y \in c : y < x
  <1> DEFINE c == InsertIntoSorted(b, w)
  <1>a. D \in Nat \ {0}
    BY DepthAssumption
  <1>b. Cardinality(b) \in Nat
    BY FS_CardinalityType
  <1>c. \A x \in b : x \in Nat
    OBVIOUS
  <1>1. CASE w \in b
    <2>1. c = b
      BY <1>1, <1>a, <1>b DEF InsertIntoSorted
    <2>2. QED
      BY <2>1, <1>1
  <1>2. CASE w \notin b /\ ~(Cardinality(b) < D \/ \E x \in b : w < x)
    <2>1. c = b
      BY <1>2, <1>a, <1>b DEF InsertIntoSorted
    <2>2. Cardinality(b) = D /\ b # {}
      BY <1>2, <1>a, <1>b, FS_EmptySet
    <2>3. \A y \in b : y < w
      BY <1>2, <1>c
    <2>4. QED
      BY <2>1, <2>2, <2>3
  <1>3. CASE w \notin b /\ (Cardinality(b) < D \/ \E x \in b : w < x)
    <2> DEFINE g == b \cup {w}
    <2>1. IsFiniteSet(g) /\ Cardinality(g) = Cardinality(b) + 1 /\ g \subseteq Nat /\ g # {}
      BY <1>3, FS_AddElement
    <2>2. CASE Cardinality(g) <= D
      <3>1. c = g
        BY <1>3, <2>2, <2>1, <1>a, <1>b DEF InsertIntoSorted
      <3>2. QED
        BY <3>1, <2>1, <2>2
    <2>3. CASE ~(Cardinality(g) <= D)
      <3> DEFINE m == LargestRank(g)
      <3>1. c = g \ {m}
        BY <1>3, <2>3, <2>1, <1>a, <1>b DEF InsertIntoSorted
      <3>2. m \in g /\ \A y \in g : y <= m
        BY <2>1, LargestRankProperty
      <3>3. Cardinality(g) = D + 1
        BY <2>1, <2>3, <1>a, <1>b
      <3>4. IsFiniteSet(c) /\ Cardinality(c) = D
        BY <3>1, <3>2, <3>3, <2>1, <1>a, FS_RemoveElement, SMTT(20)
      <3>5. c # {}
        BY <3>4, <1>a, FS_EmptySet
      <3>6. ASSUME NEW y \in c PROVE y < m
        <4>1. y \in Nat /\ m \in Nat /\ y <= m /\ y # m
          BY <3>1, <3>2, <2>1
        <4>2. QED
          BY <4>1
      <3>7. \A x \in g \ c : x = m
        BY <3>1
      <3>8. c \subseteq b \cup {w}
        BY <3>1
      <3> HIDE DEF m
      <3>9. QED
        BY <3>4, <3>5, <3>6, <3>7, <3>8, <1>a
    <2>4. QED
      BY <2>2, <2>3
  <1>4. QED
    BY <1>1, <1>2, <1>3

\* The number of smaller ranks does not shrink below D for a rank that stays
\* missing: either every smaller rank was kept, or one was dropped and then
\* the array is full of ranks that are smaller still.
LEMMA InsertKeepsPrefix ==
    ASSUME NEW b \in SUBSET Nat, IsFiniteSet(b), Cardinality(b) <= D, NEW w \in Nat,
           NEW v \in Nat, v \notin InsertIntoSorted(b, w),
           NEW n \in Nat, n <= D,
           v \in b \cup {w} \/ Cardinality({x \in b : x < v}) >= n
    PROVE  Cardinality({x \in InsertIntoSorted(b, w) : x < v}) >= n
  <1> DEFINE c == InsertIntoSorted(b, w)
  <1>a. D \in Nat \ {0}
    BY DepthAssumption
  <1>1. /\ c \subseteq b \cup {w} /\ IsFiniteSet(c)
        /\ \A x \in (b \cup {w}) \ c : Cardinality(c) = D /\ \A y \in c : y < x
    BY InsertDropsAboveFull
  <1> HIDE DEF c
  <1>2. CASE \E x \in (b \cup {w}) \ c : x <= v
    <2>1. PICK x \in (b \cup {w}) \ c : x <= v
      BY <1>2
    <2>2. Cardinality(c) = D /\ \A y \in c : y < x
      BY <1>1, <2>1
    <2>3. \A y \in c : y \in Nat
      BY <1>1
    <2>4. {y \in c : y < v} = c
      BY <2>1, <2>2, <2>3
    <2>5. QED
      BY <2>2, <2>4, <1>a DEF c
  <1>3. CASE ~ \E x \in (b \cup {w}) \ c : x <= v
    <2>1. v \notin b \cup {w}
      BY <1>3 DEF c
    <2>2. ASSUME NEW x \in b, x < v PROVE x \in c
      <3>1. x \in Nat /\ x <= v
        BY <2>2
      <3>2. QED
        BY <3>1, <1>3
    <2>3. IsFiniteSet({x \in c : x < v})
      BY <1>1, FS_Subset
    <2>4. /\ IsFiniteSet({x \in b : x < v})
          /\ Cardinality({x \in b : x < v}) <= Cardinality({x \in c : x < v})
      BY <2>2, <2>3, FS_Subset
    <2>5. /\ Cardinality({x \in b : x < v}) \in Nat
          /\ Cardinality({x \in c : x < v}) \in Nat
      BY <2>3, <2>4, FS_CardinalityType
    <2>6. QED
      BY <2>1, <2>4, <2>5 DEF c
  <1>4. QED
    BY <1>2, <1>3

------------------------------------------------------------------------------
(* The inductive invariant *)

\* While Initialize runs, no completed call stands behind the arrays, and
\* every array is nonempty from the first element on.
LoopInv ==
    Running => ~complete /\ (given # {} => \A i \in Coord : bottom[i] # {})

IInv ==
    /\ TypeOK
    /\ NoForeignRank
    /\ MissingBehindPrefix
    /\ SignatureDefined
    /\ LoopInv

ArraysOK ==
    /\ bottom \in [Coord -> SUBSET Nat]
    /\ \A i \in Coord : IsFiniteSet(bottom[i]) /\ Cardinality(bottom[i]) <= D

LEMMA RankType ==
    ASSUME TypeOK
    PROVE  rank \in [Coord -> [Elem -> Nat]]
  BY RankAssumption DEF TypeOK

\* What Insert and one turn of Initialize's loop share: element e is merged
\* into every array.
LEMMA MergeElement ==
    ASSUME IInv, NEW e \in Elem,
           bottom' = [i \in Coord |-> InsertIntoSorted(bottom[i], rank[i][e])],
           given' = given \cup {e}, UNCHANGED <<rank, deletes>>
    PROVE  /\ ArraysOK' /\ NoForeignRank' /\ MissingBehindPrefix'
           /\ \A i \in Coord : bottom'[i] # {}
  <1>a. rank \in [Coord -> [Elem -> Nat]] /\ given \in SUBSET Elem
    BY RankType DEF IInv, TypeOK
  <1>b. ASSUME NEW i \in Coord
        PROVE  /\ bottom[i] \in SUBSET Nat /\ IsFiniteSet(bottom[i])
               /\ Cardinality(bottom[i]) <= D /\ rank[i][e] \in Nat
               /\ bottom'[i] = InsertIntoSorted(bottom[i], rank[i][e])
               /\ Ranks(i, given)' = Ranks(i, given) \cup {rank[i][e]}
    <2>1. bottom[i] \in SUBSET Nat /\ IsFiniteSet(bottom[i]) /\ Cardinality(bottom[i]) <= D
      BY DEF IInv, TypeOK
    <2>2. rank[i][e] \in Nat
      BY <1>a
    <2>3. bottom'[i] = InsertIntoSorted(bottom[i], rank[i][e])
      OBVIOUS
    <2>4. Ranks(i, given)' = Ranks(i, given) \cup {rank[i][e]}
      BY DEF Ranks
    <2>5. QED
      BY <2>1, <2>2, <2>3, <2>4
  <1>c. ASSUME NEW i \in Coord
        PROVE  /\ bottom'[i] \subseteq bottom[i] \cup {rank[i][e]}
               /\ IsFiniteSet(bottom'[i]) /\ Cardinality(bottom'[i]) <= D
               /\ bottom'[i] # {}
    BY <1>b, InsertDropsAboveFull
  <1>1. ArraysOK'
    <2>1. \A i \in Coord : bottom'[i] \in SUBSET Nat
      BY <1>b, <1>c
    <2>2. bottom' \in [Coord -> SUBSET Nat]
      BY <2>1
    <2>3. QED
      BY <2>2, <1>c DEF ArraysOK
  <1>2. NoForeignRank'
    BY <1>b, <1>c DEF NoForeignRank, IInv
  <1>3. MissingBehindPrefix'
    <2> SUFFICES ASSUME CollisionFree', NEW i \in Coord,
                        NEW v \in Ranks(i, given)' \ bottom'[i]
                 PROVE  Cardinality({x \in bottom'[i] : x < v}) >= D - deletes'
      BY DEF MissingBehindPrefix
    <2>1. CollisionFree
      BY DEF CollisionFree
    <2>2. v \in Nat
      BY <1>a, <1>b DEF Ranks
    <2>3. D - deletes \in Nat /\ D - deletes <= D
      BY DepthAssumption DEF IInv, TypeOK
    <2>4. \/ v \in bottom[i] \cup {rank[i][e]}
          \/ Cardinality({x \in bottom[i] : x < v}) >= D - deletes
      BY <2>1, <1>b DEF IInv, MissingBehindPrefix
    <2> DEFINE n == D - deletes
    <2>5. v \notin InsertIntoSorted(bottom[i], rank[i][e])
      BY <1>b
    <2>6. n \in Nat /\ n <= D /\ n = D - deletes'
      BY <2>3
    <2> HIDE DEF n
    <2>7. \/ v \in bottom[i] \cup {rank[i][e]}
          \/ Cardinality({x \in bottom[i] : x < v}) >= n
      BY <2>4 DEF n
    <2>8. Cardinality({x \in InsertIntoSorted(bottom[i], rank[i][e]) : x < v}) >= n
      <3> DEFINE b == bottom[i]
                 w == rank[i][e]
      <3>1. /\ b \in SUBSET Nat /\ IsFiniteSet(b) /\ Cardinality(b) <= D /\ w \in Nat
            /\ v \in Nat /\ v \notin InsertIntoSorted(b, w) /\ n \in Nat /\ n <= D
            /\ (v \in b \cup {w} \/ Cardinality({x \in b : x < v}) >= n)
        BY <1>b, <2>2, <2>5, <2>6, <2>7
      <3> HIDE DEF b, w
      <3>2. Cardinality({x \in InsertIntoSorted(b, w) : x < v}) >= n
        BY <3>1, InsertKeepsPrefix
      <3>3. QED
        BY <3>2 DEF b, w
    <2>9. QED
      BY <1>b, <2>6, <2>8
  <1>4. QED
    BY <1>1, <1>2, <1>3, <1>c

LEMMA InitIInv == Init => IInv
  <1> SUFFICES ASSUME Init PROVE IInv
    OBVIOUS
  <1>1. TypeOK
    <2>1. \A i \in Coord : bottom[i] = {}
      BY DEF Init
    <2>2. bottom \in [Coord -> SUBSET Nat]
      BY DEF Init
    <2>3. IsFiniteSet({}) /\ Cardinality({}) = 0
      BY FS_EmptySet
    <2>4. \A i \in Coord : IsFiniteSet(bottom[i]) /\ Cardinality(bottom[i]) <= D
      BY <2>1, <2>3, DepthAssumption
    <2>5. deletes \in 0..D
      BY DepthAssumption DEF Init
    <2>6. input = {} /\ given = {} /\ rank \in RankFunctions
      BY DEF Init
    <2>7. requiresRebuild \in BOOLEAN /\ complete \in BOOLEAN
      BY DEF Init
    <2>8. QED
      BY <2>2, <2>4, <2>5, <2>6, <2>7 DEF TypeOK
  <1>2. NoForeignRank /\ MissingBehindPrefix
    BY DEF Init, NoForeignRank, MissingBehindPrefix, Ranks
  <1>3. SignatureDefined /\ LoopInv
    BY DEF Init, SignatureDefined, LoopInv, Usable, Running
  <1>4. QED
    BY <1>1, <1>2, <1>3 DEF IInv

\* Deleting one rank costs the prefix at most one position.
LEMMA DeletePreserves ==
    ASSUME IInv, NEW e \in Elem, Delete(e)
    PROVE  IInv'
  <1> USE DEF Delete
  <1>a. rank \in [Coord -> [Elem -> Nat]] /\ given \in SUBSET Elem /\ deletes \in 0..D
    BY RankType DEF IInv, TypeOK
  <1>b. ASSUME NEW i \in Coord
        PROVE  /\ bottom[i] \in SUBSET Nat /\ IsFiniteSet(bottom[i])
               /\ Cardinality(bottom[i]) <= D
               /\ bottom'[i] = bottom[i] \ {rank[i][e]}
               /\ Ranks(i, given)' \subseteq Ranks(i, given)
               /\ Ranks(i, given) \subseteq Ranks(i, given)' \cup {rank[i][e]}
               /\ bottom[i] \subseteq Ranks(i, given)
    <2>1. bottom[i] \in SUBSET Nat /\ IsFiniteSet(bottom[i]) /\ Cardinality(bottom[i]) <= D
      BY DEF IInv, TypeOK
    <2>2. bottom'[i] = bottom[i] \ {rank[i][e]}
      BY DEF EraseRank
    <2>3. /\ Ranks(i, given)' \subseteq Ranks(i, given)
          /\ Ranks(i, given) \subseteq Ranks(i, given)' \cup {rank[i][e]}
      BY DEF Ranks
    <2>4. QED
      BY <2>1, <2>2, <2>3 DEF IInv, NoForeignRank
  <1>c. ASSUME NEW i \in Coord
        PROVE  IsFiniteSet(bottom'[i]) /\ Cardinality(bottom'[i]) <= D
    <2>1. bottom'[i] \in SUBSET bottom[i]
      BY <1>b
    <2>2. /\ IsFiniteSet(bottom'[i]) /\ Cardinality(bottom'[i]) <= Cardinality(bottom[i])
          /\ Cardinality(bottom[i]) \in Nat /\ Cardinality(bottom'[i]) \in Nat
      BY <1>b, <2>1, FS_Subset, FS_CardinalityType
    <2>3. QED
      BY <2>2, <1>b, DepthAssumption
  <1>1. TypeOK'
    <2>1. bottom' \in [Coord -> SUBSET Nat]
      BY <1>b
    <2>2. requiresRebuild' \in BOOLEAN
      OBVIOUS
    <2>3. deletes' \in 0..D
      BY <1>a, DepthAssumption
    <2>4. QED
      BY <2>1, <2>2, <2>3, <1>c DEF TypeOK, IInv, Running, Usable
  <1>2. NoForeignRank'
    BY <1>b DEF NoForeignRank
  <1>3. MissingBehindPrefix'
    <2> SUFFICES ASSUME CollisionFree', NEW i \in Coord,
                        NEW v \in Ranks(i, given)' \ bottom'[i]
                 PROVE  Cardinality({x \in bottom'[i] : x < v}) >= D - deletes'
      BY DEF MissingBehindPrefix
    <2>1. CollisionFree
      BY DEF CollisionFree
    <2> DEFINE w == rank[i][e]
               P == {x \in bottom[i] : x < v}
               Q == {x \in bottom'[i] : x < v}
    <2>2. v # w
      BY <2>1, <1>a DEF Ranks, CollisionFree
    <2>3. v \in Ranks(i, given) \ bottom[i]
      BY <1>b, <2>2
    <2>4. Cardinality(P) >= D - deletes
      BY <2>1, <2>3 DEF IInv, MissingBehindPrefix
    <2>5. Q = P \ {w}
      BY <1>b
    <2>6. P \in SUBSET bottom[i]
      OBVIOUS
    <2>7. IsFiniteSet(P) /\ IsFiniteSet(Q)
      BY <1>b, <2>5, <2>6, FS_Subset, FS_RemoveElement
    <2>8. Cardinality(P) \in Nat /\ Cardinality(Q) \in Nat
      BY <2>7, FS_CardinalityType
    <2>9. Cardinality(Q) = IF w \in P THEN Cardinality(P) - 1 ELSE Cardinality(P)
      <3> HIDE DEF P, Q, w
      <3>1. Cardinality(P \ {w}) = IF w \in P THEN Cardinality(P) - 1 ELSE Cardinality(P)
        BY <2>7, FS_RemoveElement
      <3>2. QED
        BY <3>1, <2>5
    <2>10. CASE e \in given
      <3>1. CASE deletes < D
        <4>1. deletes' = deletes + 1
          BY <2>10, <3>1
        <4> HIDE DEF P, Q, w
        <4>2. QED
          BY <4>1, <2>4, <2>8, <2>9, <1>a, DepthAssumption DEF Q
      <3>2. CASE ~(deletes < D)
        <4>1. deletes' = D
          BY <2>10, <3>2, <1>a, DepthAssumption
        <4>2. QED
          BY <4>1, <2>8, DepthAssumption
      <3>3. QED
        BY <3>1, <3>2
    <2>11. CASE e \notin given
      <3>1. w \notin Ranks(i, given)
        BY <2>1, <2>11, <1>a DEF Ranks, CollisionFree
      <3>2. Cardinality(Q) = Cardinality(P)
        BY <3>1, <2>9, <1>b
      <3>3. deletes' = deletes
        BY <2>11
      <3>4. QED
        BY <3>2, <3>3, <2>4
    <2>12. QED
      BY <2>10, <2>11
  <1>4. SignatureDefined'
    BY DEF SignatureDefined, Usable
  <1>5. LoopInv'
    BY DEF LoopInv, Usable, Running
  <1>6. QED
    BY <1>1, <1>2, <1>3, <1>4, <1>5 DEF IInv

LEMMA NextIInv == IInv /\ [Next]_vars => IInv'
  <1> SUFFICES ASSUME IInv, [Next]_vars PROVE IInv'
    OBVIOUS
  <1>a. /\ TypeOK /\ NoForeignRank /\ MissingBehindPrefix /\ SignatureDefined /\ LoopInv
        /\ ArraysOK
    BY DEF IInv, TypeOK, ArraysOK
  <1>1. ASSUME NEW S \in SUBSET Elem, InitializeBegin(S) PROVE IInv'
    <2> USE <1>1 DEF InitializeBegin
    <2>1. ArraysOK'
      <3>1. bottom' \in [Coord -> SUBSET Nat] /\ \A i \in Coord : bottom'[i] = {}
        OBVIOUS
      <3>2. QED
        BY <3>1, FS_EmptySet, DepthAssumption DEF ArraysOK
    <2>2. /\ 0 \in 0..D /\ deletes' = 0
          /\ complete' \in BOOLEAN /\ given' = {}
      <3>1. 0 \in 0..D /\ deletes' = 0
        BY DepthAssumption
      <3>2. complete' \in BOOLEAN /\ given' = {}
        OBVIOUS
      <3>3. QED
        BY <3>1, <3>2
    <2>3. TypeOK'
      BY <1>a, <2>1, <2>2 DEF TypeOK, ArraysOK
    <2>4. NoForeignRank' /\ MissingBehindPrefix'
      BY DEF NoForeignRank, MissingBehindPrefix, Ranks
    <2>5. SignatureDefined' /\ LoopInv'
      BY DEF SignatureDefined, LoopInv, Usable, Running
    <2>6. QED
      BY <2>3, <2>4, <2>5 DEF IInv
  <1>2. ASSUME NEW e \in Elem, InitializeElement(e) PROVE IInv'
    <2> USE <1>2 DEF InitializeElement
    <2>1. /\ ArraysOK' /\ NoForeignRank' /\ MissingBehindPrefix'
          /\ \A i \in Coord : bottom'[i] # {}
      BY MergeElement
    <2>2. TypeOK'
      BY <1>a, <2>1 DEF TypeOK, ArraysOK, Running
    <2>3. SignatureDefined' /\ LoopInv'
      BY <1>a, <2>1 DEF SignatureDefined, LoopInv, Usable, Running
    <2>4. QED
      BY <2>1, <2>2, <2>3 DEF IInv
  <1>3. CASE InitializeEnd
    <2> USE <1>3 DEF InitializeEnd
    <2>1. TypeOK'
      BY <1>a DEF TypeOK, Running
    <2>2. NoForeignRank' /\ MissingBehindPrefix'
      BY <1>a DEF NoForeignRank, MissingBehindPrefix, Ranks, CollisionFree
    <2>3. SignatureDefined' /\ LoopInv'
      BY <1>a DEF SignatureDefined, LoopInv, Usable, Running
    <2>4. QED
      BY <2>1, <2>2, <2>3 DEF IInv
  <1>4. CASE InitializeThrow
    <2> USE <1>4 DEF InitializeThrow, history
    <2>1. TypeOK'
      BY <1>a DEF TypeOK, Running
    <2>2. NoForeignRank' /\ MissingBehindPrefix'
      BY <1>a DEF NoForeignRank, MissingBehindPrefix, Ranks, CollisionFree
    <2>3. SignatureDefined' /\ LoopInv'
      BY <1>a DEF SignatureDefined, LoopInv, Usable, Running
    <2>4. QED
      BY <2>1, <2>2, <2>3 DEF IInv
  <1>5. ASSUME NEW e \in Elem, Insert(e) PROVE IInv'
    <2> USE <1>5 DEF Insert
    <2>1. /\ ArraysOK' /\ NoForeignRank' /\ MissingBehindPrefix'
          /\ \A i \in Coord : bottom'[i] # {}
      BY MergeElement
    <2>2. TypeOK'
      BY <1>a, <2>1 DEF TypeOK, ArraysOK, Running, Usable
    <2>3. SignatureDefined' /\ LoopInv'
      BY <1>a, <2>1 DEF SignatureDefined, LoopInv, Usable, Running
    <2>4. QED
      BY <2>1, <2>2, <2>3 DEF IInv
  <1>6. ASSUME NEW e \in Elem, Delete(e) PROVE IInv'
    BY <1>6, DeletePreserves
  <1>7. CASE UNCHANGED vars
    BY <1>7, <1>a DEF vars, IInv, TypeOK, NoForeignRank, MissingBehindPrefix,
       SignatureDefined, LoopInv, Running, Usable, Ranks, CollisionFree
  <1>8. QED
    BY <1>1, <1>2, <1>3, <1>4, <1>5, <1>6, <1>7 DEF Next

\* The inductive invariant holds in every reachable state of a bottom
\* structure, for every depth, number of coordinates and rank function.
THEOREM SpecIInv == Spec => []IInv
  BY InitIInv, NextIInv, PTL DEF Spec

\* Every reachable state is well typed and keeps every array within depth D.
THEOREM TypeCorrect == Spec => []TypeOK
  <1>1. IInv => TypeOK
    BY DEF IInv
  <1>2. QED
    BY <1>1, SpecIInv, PTL

\* No array ever holds the rank of an element that is not in the owner's set.
THEOREM NeverForeign == Spec => []NoForeignRank
  <1>1. IInv => NoForeignRank
    BY DEF IInv
  <1>2. QED
    BY <1>1, SpecIInv, PTL

\* After n deletions a missing rank is still behind D - n kept ones.
THEOREM PrefixExact == Spec => []MissingBehindPrefix
  <1>1. IInv => MissingBehindPrefix
    BY DEF IInv
  <1>2. QED
    BY <1>1, SpecIInv, PTL

\* Reading the signature of a built structure never meets an empty array.
THEOREM SignatureAlwaysDefined == Spec => []SignatureDefined
  <1>1. IInv => SignatureDefined
    BY DEF IInv
  <1>2. QED
    BY <1>1, SpecIInv, PTL

LEMMA RanksFinite ==
    ASSUME TypeOK, NEW i \in Coord
    PROVE  Ranks(i, given) \subseteq Nat /\ IsFiniteSet(Ranks(i, given))
  <1>1. rank \in [Coord -> [Elem -> Nat]] /\ given \in SUBSET Elem
    BY RankType DEF TypeOK
  <1>2. IsFiniteSet(given)
    BY <1>1, RankAssumption, FS_Subset
  <1>3. Ranks(i, given) \subseteq Nat
    BY <1>1 DEF Ranks
  <1> DEFINE f == [e \in given |-> rank[i][e]]
  <1>4. f \in Surjection(given, Ranks(i, given))
    BY DEF Ranks, Surjection
  <1>5. IsFiniteSet(Ranks(i, given))
    BY <1>2, <1>4, FS_Surjection
  <1>6. QED
    BY <1>3, <1>5

\* With fewer than D deletions the smallest rank of the set is in the array:
\* were it missing, a smaller rank would be there, and the array holds only
\* ranks of the set.
LEMMA PrefixGivesSignature == IInv => SignatureExact
  <1> SUFFICES ASSUME IInv, CollisionFree, Usable, complete, deletes < D, NEW i \in Coord
               PROVE  Signature(i) = MinHash(i, given)
    BY DEF SignatureExact
  <1>1. /\ Ranks(i, given) \subseteq Nat /\ IsFiniteSet(Ranks(i, given))
        /\ bottom[i] \subseteq Ranks(i, given) /\ bottom[i] # {}
        /\ bottom[i] \subseteq Nat /\ IsFiniteSet(bottom[i])
        /\ deletes \in Nat
    BY RanksFinite DEF IInv, TypeOK, NoForeignRank, SignatureDefined
  <1> DEFINE m == LeastRank(Ranks(i, given))
  <1>2. m \in Ranks(i, given) /\ \A y \in Ranks(i, given) : m <= y
    BY <1>1, LeastRankProperty
  <1>3. m \in bottom[i]
    <2> SUFFICES ASSUME m \notin bottom[i] PROVE FALSE
      OBVIOUS
    <2>1. Cardinality({x \in bottom[i] : x < m}) >= D - deletes
      BY <1>2 DEF IInv, MissingBehindPrefix
    <2>2. {x \in bottom[i] : x < m} = {}
      BY <1>1, <1>2
    <2>3. Cardinality({x \in bottom[i] : x < m}) = 0
      BY <2>2, FS_EmptySet
    <2>4. QED
      BY <2>1, <2>3, <1>1, DepthAssumption
  <1>4. \A y \in bottom[i] : m <= y
    BY <1>1, <1>2
  <1> HIDE DEF m
  <1>5. LeastRank(bottom[i]) = m
    BY <1>1, <1>3, <1>4, LeastRankUnique
  <1>6. QED
    BY <1>5 DEF m, Signature, MinHash

\* The signature the owner encrypts is the MinHash of its set while fewer
\* than D members were deleted since the last complete Initialize.
THEOREM SignatureCorrect == Spec => []SignatureExact
  BY PrefixGivesSignature, SpecIInv, PTL

\* Inserts alone leave the arrays a full Initialize of the set would build.
LEMMA InsertOnlyFromPrefix == IInv => InsertOnlyCanonical
  <1> SUFFICES ASSUME IInv, CollisionFree, deletes = 0, NEW i \in Coord
               PROVE  bottom[i] = SmallestRanks(Ranks(i, given))
    BY DEF InsertOnlyCanonical
  <1> DEFINE R == Ranks(i, given)
             b == bottom[i]
  <1>a. /\ R \subseteq Nat /\ IsFiniteSet(R) /\ b \subseteq R /\ b \in SUBSET Nat
        /\ IsFiniteSet(b) /\ Cardinality(b) <= D
    BY RanksFinite DEF IInv, TypeOK, NoForeignRank
  <1>b. \A w \in R \ b : Cardinality({x \in b : x < w}) >= D
    BY DepthAssumption DEF IInv, MissingBehindPrefix
  <1> HIDE DEF R, b
  <1>1. ASSUME NEW w \in R \ b
        PROVE  /\ Cardinality({x \in R : x < w}) >= D
               /\ \A y \in b : y < w
    <2> DEFINE P == {x \in b : x < w}
               Q == {x \in R : x < w}
    <2>1. P \in SUBSET b /\ P \in SUBSET Q /\ Q \in SUBSET R
      BY <1>a
    <2>2. /\ IsFiniteSet(P) /\ IsFiniteSet(Q)
          /\ Cardinality(P) <= Cardinality(Q) /\ Cardinality(P) <= Cardinality(b)
          /\ (Cardinality(b) = Cardinality(P) => b = P)
      BY <2>1, <1>a, FS_Subset
    <2>3. Cardinality(P) \in Nat /\ Cardinality(Q) \in Nat /\ Cardinality(b) \in Nat
      BY <2>2, <1>a, FS_CardinalityType
    <2>4. Cardinality(P) >= D
      BY <1>b
    <2>5. Cardinality(Q) >= D /\ Cardinality(b) = Cardinality(P)
      BY <2>2, <2>3, <2>4, <1>a, DepthAssumption
    <2>6. b = P
      BY <2>5, <2>2
    <2>7. QED
      BY <2>5, <2>6
  <1>2. ASSUME NEW w \in b PROVE Cardinality({x \in R : x < w}) < D
    <2> DEFINE Q == {x \in R : x < w}
    <2>1. ASSUME NEW x \in Q PROVE x \in b \ {w}
      <3>1. x \in Nat /\ w \in Nat /\ x < w
        BY <1>a
      <3>2. x # w /\ ~(w < x)
        BY <3>1
      <3>3. QED
        BY <1>1, <3>2
    <2>2. Q \in SUBSET (b \ {w})
      BY <2>1
    <2>3. IsFiniteSet(b \ {w}) /\ Cardinality(b \ {w}) = Cardinality(b) - 1
      BY <1>a, FS_RemoveElement
    <2>4. IsFiniteSet(Q) /\ Cardinality(Q) <= Cardinality(b \ {w})
      BY <2>2, <2>3, FS_Subset
    <2>5. Cardinality(Q) \in Nat /\ Cardinality(b) \in Nat
      BY <2>4, <1>a, FS_CardinalityType
    <2>6. QED
      BY <2>3, <2>4, <2>5, <1>a, DepthAssumption
  <1>3. ASSUME NEW w \in R \ b PROVE ~(Cardinality({x \in R : x < w}) < D)
    <2>1. Cardinality({x \in R : x < w}) >= D
      BY <1>1
    <2>2. {x \in R : x < w} \in SUBSET R
      OBVIOUS
    <2>3. Cardinality({x \in R : x < w}) \in Nat
      BY <1>a, <2>2, FS_Subset, FS_CardinalityType
    <2>4. QED
      BY <2>1, <2>3, DepthAssumption
  <1>4. b = {w \in R : Cardinality({x \in R : x < w}) < D}
    BY <1>a, <1>2, <1>3
  <1>5. QED
    BY <1>4 DEF SmallestRanks, R, b

\* Without deletions the arrays are what a full Initialize of the owner's set
\* would build, in whatever order the elements came.
THEOREM InsertOnlyCorrect == Spec => []InsertOnlyCanonical
  BY InsertOnlyFromPrefix, SpecIInv, PTL
==============================================================================
