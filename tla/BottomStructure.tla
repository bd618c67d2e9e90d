--------------------------- MODULE BottomStructure ---------------------------
(***************************************************************************)
(* One owner's bottom structure (class piccard::BottomStructure): for each *)
(* of K hash functions the D smallest ranks seen so far, from which the    *)
(* MinHash signature of a changing set is read without rehashing the set.  *)
(*                                                                         *)
(* bottom_[i] is a sorted vector without duplicates; it is modelled by the *)
(* set of its ranks: front() is the minimum and back() the maximum.        *)
(* A rank function stands for MinHasher::HashRank under one public seed.   *)
(* Insert and Delete compute every hash before they write, so a call that  *)
(* throws there changes nothing and is a stuttering step.  Initialize      *)
(* hashes and writes element by element, so it is a loop with one step per *)
(* element and may throw between two of them.                              *)
(***************************************************************************)
EXTENDS Integers, FiniteSets

CONSTANTS
    Elem,          \* the elements an owner may hold
    K,             \* number of hash functions (coordinates)
    D,             \* depth of each bottom array
    RankFunctions  \* the rank functions the public seeds give

Coord == 1..K

ASSUME DepthAssumption == K \in Nat \ {0} /\ D \in Nat \ {0}
ASSUME RankAssumption ==
    /\ RankFunctions \subseteq [Coord -> [Elem -> Nat]]
    /\ IsFiniteSet(Elem)

VARIABLES
    rank,             \* the rank function of this structure's hasher_
    bottom,           \* bottom_: coordinate -> set of at most D ranks
    requiresRebuild,  \* requires_rebuild_
    input,            \* argument of the Initialize call in progress, or {}
    given,            \* history: the set the structure stands for
    complete,         \* history: the last Initialize call returned normally
    deletes           \* history: members deleted since Initialize, up to D

vars == <<rank, bottom, requiresRebuild, input, given, complete, deletes>>
history == <<given, complete, deletes>>

------------------------------------------------------------------------------
(* The arrays *)

\* An order statistic of a nonempty finite set of ranks.
LeastRank(S) == CHOOSE x \in S : \A y \in S : x <= y
LargestRank(S) == CHOOSE x \in S : \A y \in S : y <= x

\* A trim that drops the front of the array instead of its back.
InsertTrimmingFront(b, w) ==
    LET admitted == w \notin b /\ (Cardinality(b) < D \/ \E x \in b : w < x)
        grown == IF admitted THEN b \cup {w} ELSE b
    IN IF Cardinality(grown) > D THEN grown \ {LeastRank(grown)} ELSE grown

\* A rank that is larger than the back is never kept, full array or not.
InsertOnlySmaller(b, w) ==
    LET admitted == w \notin b /\ (b = {} \/ \E x \in b : w < x)
        grown == IF admitted THEN b \cup {w} ELSE b
    IN IF Cardinality(grown) > D THEN grown \ {LargestRank(grown)} ELSE grown

\* No pop_back after the insertion.
InsertUntrimmed(b, w) ==
    LET admitted == w \notin b /\ (Cardinality(b) < D \/ \E x \in b : w < x)
    IN IF admitted THEN b \cup {w} ELSE b

\* InsertIntoSorted: a duplicate is ignored; a rank enters when the array is
\* not full or the rank is below its back; the back is popped beyond depth D.
InsertIntoSorted(b, w) ==
    LET admitted == w \notin b /\ (Cardinality(b) < D \/ \E x \in b : w < x)
        grown == IF admitted THEN b \cup {w} ELSE b
    IN IF Cardinality(grown) > D THEN grown \ {LargestRank(grown)} ELSE grown

\* lower_bound without the equality test: the next larger rank is erased.
EraseLowerBound(b, w) ==
    IF \E x \in b : w <= x THEN b \ {LeastRank({x \in b : w <= x})} ELSE b

\* Delete's lower_bound, equality test and erase on one array.
EraseRank(b, w) == b \ {w}

Ranks(i, S) == {rank[i][e] : e \in S}

\* The D smallest of a set of ranks, stated without the array algorithm.
SmallestRanks(S) == {w \in S : Cardinality({x \in S : x < w}) < D}

\* GetSignature on coordinate i, and the MinHash it stands for.
Signature(i) == LeastRank(bottom[i])
MinHash(i, S) == LeastRank(Ranks(i, S))

------------------------------------------------------------------------------
(* The operations *)

Running == input # {}
Usable == ~requiresRebuild /\ ~Running

Init ==
    /\ rank \in RankFunctions
    /\ bottom = [i \in Coord |-> {}]
    /\ requiresRebuild = TRUE
    /\ input = {}
    /\ given = {}
    /\ complete = FALSE
    /\ deletes = 0

\* An Initialize that keeps what the arrays held before.
InitializeBeginNoClear(S) ==
    /\ ~Running
    /\ S # {}
    /\ input' = S
    /\ given' = {}
    /\ complete' = FALSE
    /\ deletes' = 0
    /\ UNCHANGED <<rank, bottom, requiresRebuild>>

\* Initialize up to its element loop; an empty set throws before any write.
InitializeBegin(S) ==
    /\ ~Running
    /\ S # {}
    /\ bottom' = [i \in Coord |-> {}]
    /\ input' = S
    /\ given' = {}
    /\ complete' = FALSE
    /\ deletes' = 0
    /\ UNCHANGED <<rank, requiresRebuild>>

\* One turn of Initialize's loop.  The vector may name an element twice, and
\* in any order.
InitializeElement(e) ==
    /\ e \in input
    /\ bottom' = [i \in Coord |-> InsertIntoSorted(bottom[i], rank[i][e])]
    /\ given' = given \cup {e}
    /\ UNCHANGED <<rank, requiresRebuild, input, complete, deletes>>

InitializeEnd ==
    /\ Running
    /\ given = input
    /\ requiresRebuild' = FALSE
    /\ input' = {}
    /\ complete' = TRUE
    /\ UNCHANGED <<rank, bottom, given, deletes>>

\* HashRank throws inside the loop: the arrays stay as they are, and so does
\* requires_rebuild_.
InitializeThrow ==
    /\ Running
    /\ input' = {}
    /\ UNCHANGED <<rank, bottom, requiresRebuild, history>>

Insert(e) ==
    /\ Usable
    /\ bottom' = [i \in Coord |-> InsertIntoSorted(bottom[i], rank[i][e])]
    /\ given' = given \cup {e}
    /\ UNCHANGED <<rank, requiresRebuild, input, complete, deletes>>

\* A Delete that looks at the last coordinate only when it asks for a rebuild.
DeleteChecksLastRow(e) ==
    /\ Usable
    /\ bottom' = [i \in Coord |-> EraseRank(bottom[i], rank[i][e])]
    /\ requiresRebuild' = (bottom'[K] = {})
    /\ given' = given \ {e}
    /\ deletes' = IF e \in given /\ deletes < D THEN deletes + 1 ELSE deletes
    /\ UNCHANGED <<rank, input, complete>>

\* The caller may name an element it does not hold.
Delete(e) ==
    /\ Usable
    /\ bottom' = [i \in Coord |-> EraseRank(bottom[i], rank[i][e])]
    /\ requiresRebuild' = (\E i \in Coord : bottom'[i] = {})
    /\ given' = given \ {e}
    /\ deletes' = IF e \in given /\ deletes < D THEN deletes + 1 ELSE deletes
    /\ UNCHANGED <<rank, input, complete>>

Next ==
    \/ \E S \in SUBSET Elem : InitializeBegin(S)
    \/ \E e \in Elem : InitializeElement(e)
    \/ InitializeEnd
    \/ InitializeThrow
    \/ \E e \in Elem : Insert(e)
    \/ \E e \in Elem : Delete(e)

Spec == Init /\ [][Next]_vars

------------------------------------------------------------------------------
(* Properties *)

\* The seed's hash range is wide enough that no two elements share a rank.
CollisionFree ==
    \A i \in Coord : \A e, f \in Elem : rank[i][e] = rank[i][f] => e = f

\* Type invariant, with the depth limit of every array (bottom_structure.h,
\* "sorted vector of up to d").
TypeOK ==
    /\ rank \in RankFunctions
    /\ bottom \in [Coord -> SUBSET Nat]
    /\ \A i \in Coord : IsFiniteSet(bottom[i]) /\ Cardinality(bottom[i]) <= D
    /\ requiresRebuild \in BOOLEAN
    /\ input \in SUBSET Elem
    /\ given \in SUBSET Elem
    /\ Running => given \subseteq input
    /\ complete \in BOOLEAN
    /\ deletes \in 0..D

\* The arrays never hold the rank of an element that left the set, whatever
\* sequence of rebuilds, inserts and deletes led here, even when the range is
\* so small that two elements share a rank (Initialize clears, Delete erases).
NoForeignRank == \A i \in Coord : bottom[i] \subseteq Ranks(i, given)

\* A rank of the set that is missing from array i has at least D - deletes
\* smaller ranks in the array: each deletion eats at most one position of the
\* prefix that is still known to be exact.
MissingBehindPrefix ==
    CollisionFree =>
        \A i \in Coord : \A w \in Ranks(i, given) \ bottom[i] :
            Cardinality({x \in bottom[i] : x < w}) >= D - deletes

\* While fewer than D members were deleted since Initialize, what GetSignature
\* returns is the MinHash of the owner's set, on every coordinate.
SignatureExact ==
    CollisionFree /\ Usable /\ complete /\ deletes < D =>
        \A i \in Coord : Signature(i) = MinHash(i, given)

\* With inserts only, the arrays are those a full Initialize of the same set
\* would build: the order and the batching of the insertions leave no trace.
InsertOnlyCanonical ==
    CollisionFree /\ deletes = 0 =>
        \A i \in Coord : bottom[i] = SmallestRanks(Ranks(i, given))

\* GetSignature never reads the front of an empty array of a structure that a
\* completed Initialize built: Delete asks for a rebuild as soon as any one of
\* the coordinates, not only the last, runs empty.
SignatureDefined ==
    Usable /\ complete => \A i \in Coord : bottom[i] # {}

\* bottom_structure.h:28 "Derive MinHash signature: sig[i] = bottom_[i][0]
\* (smallest value)": what a usable structure returns is the MinHash of the
\* owner's set.
SignatureExactWhileUsable ==
    CollisionFree /\ Usable /\ complete =>
        \A i \in Coord : Signature(i) = MinHash(i, given)
==============================================================================
