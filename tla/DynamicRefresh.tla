---------------------------- MODULE DynamicRefresh ----------------------------
(***************************************************************************)
(* Two owners of changing sets, their DynamicPiccard engine and the cloud: *)
(* the composition of BottomStructure, the encoder, the ciphertext codec   *)
(* and the store that RunSingleOwnerRefresh                                *)
(* (benchmarks/dynamic_refresh_benchmark.cpp) drives for one owner. An     *)
(* owner builds a structure under the engine's hash seed, updates it and   *)
(* uploads the encryption of its signature; the cloud reads the stored     *)
(* pair, evaluates it and the receiver decrypts. The hash seed of the      *)
(* engine may change between calls, structures keep theirs.                *)
(*                                                                         *)
(* The arrays are those of BottomStructure. What is encrypted is the       *)
(* feature vector, by the bucket that is set in each block; the match      *)
(* count is SlotCircuits' result. An operation of the store is atomic here *)
(* (CiphertextStore shows that it is). A call that throws changes nothing. *)
(***************************************************************************)
EXTENDS Integers, FiniteSets

CONSTANTS
    Owners,         \* two owner_set_ids
    Elem,           \* elements
    Sets,           \* sets passed to InitSet
    K, D, M,        \* params_.k, bottom_depth, m
    Seeds,          \* hash seeds
    Rank(_, _, _),  \* MinHasher::HashRank: seed, coordinate, element
    MaxEpoch,       \* bound: the largest epoch an owner uploads
    MaxCalls        \* bound: calls other than uploads and reads

ASSUME RefreshAssumption ==
    /\ {K, D, M} \subseteq Nat \ {0} /\ {MaxEpoch, MaxCalls} \subseteq Nat
    /\ Sets \subseteq SUBSET Elem
ASSUME RankAssumption ==
    /\ IsFiniteSet(Elem)
    /\ \A s \in Seeds : \A i \in 1 .. K : \A e \in Elem : Rank(s, i, e) \in Nat

VARIABLES
    seed,           \* params_.hash_seed of the engine
    structure,      \* per owner: its BottomStructure, or None
    outbox,         \* per owner: an envelope made and not yet at the store, or None
    uploads,        \* per owner: the epoch its next envelope carries
    slot,           \* first_ and second_ of the store, or None before it exists
    read,           \* the pair ReadPair returned, not yet evaluated, or None
    answer,         \* the last decrypted result, or None
    calls           \* bound on the history

vars == <<seed, structure, outbox, uploads, slot, read, answer, calls>>

None == [none |-> TRUE]
Coord == 1 .. K
Arrays == INSTANCE BottomStructure WITH
    RankFunctions <- {}, rank <- <<>>, bottom <- <<>>, requiresRebuild <- FALSE,
    input <- {}, given <- {}, complete <- FALSE, deletes <- 0

-----------------------------------------------------------------------------
(* An owner's structure. members and lost are history: the set it stands for *)
(* and the deletions since Initialize, up to D. *)

Build(S) == [seed |-> seed, members |-> S, lost |-> 0, rebuild |-> FALSE,
             bottom |-> [i \in Coord |-> Arrays!SmallestRanks({Rank(seed, i, e) : e \in S})]]
Usable(o) == structure[o] # None /\ ~structure[o].rebuild

Inserted(b, e) == [b EXCEPT !.members = @ \cup {e},
    !.bottom = [i \in Coord |-> Arrays!InsertIntoSorted(b.bottom[i], Rank(b.seed, i, e))]]
\* Mutant: the entry lower_bound finds is erased without being compared.
DeletedNext(b, e) ==
    LET kept == [i \in Coord |-> Arrays!EraseLowerBound(b.bottom[i], Rank(b.seed, i, e))]
    IN [b EXCEPT !.members = @ \ {e}, !.bottom = kept,
                 !.lost = IF e \in b.members /\ @ < D THEN @ + 1 ELSE @,
                 !.rebuild = \E i \in Coord : kept[i] = {}]
Deleted(b, e) ==
    LET kept == [i \in Coord |-> Arrays!EraseRank(b.bottom[i], Rank(b.seed, i, e))]
    IN [b EXCEPT !.members = @ \ {e}, !.bottom = kept,
                 !.lost = IF e \in b.members /\ @ < D THEN @ + 1 ELSE @,
                 !.rebuild = \E i \in Coord : kept[i] = {}]

GetSignature(b) == [i \in Coord |-> Arrays!LeastRank(b.bottom[i])]
EncodeSignature(sig) == [i \in Coord |-> sig[i] % M]

-----------------------------------------------------------------------------
(* Ciphertexts, bytes and envelopes *)

\* A ciphertext holds its feature; normal says that its bytes are the fixed point
\* of reading and writing. of is history: whose signature it is.
EncryptFeature(b) == [feature |-> EncodeSignature(GetSignature(b)), normal |-> FALSE,
                      of |-> [seed |-> b.seed, members |-> b.members, exact |-> b.lost < D]]

\* Mutant: a structure of any hash seed is encrypted.
RequireStructure(b) == ~b.rebuild

\* DynamicPiccard::Encrypt throws for a structure of another hash seed.
RequireCurrentHashCrs(b) == b.seed = seed

Serialize(ct) == [ct EXCEPT !.normal = TRUE]
Deserializes(bytes) == bytes.normal

MakeVersionedCiphertext(o, e, ct) == [owner |-> o, epoch |-> e, seed |-> seed, bytes |-> Serialize(ct)]

\* Evaluate and Decrypt: the inner product of two one-hot vectors.
MatchCount(x, y) == Cardinality({i \in Coord : x.feature[i] = y.feature[i]})
Result(x, y) == [count |-> MatchCount(x, y), of |-> <<x.of, y.of>>]

-----------------------------------------------------------------------------
(* Actions *)

Init == /\ seed \in Seeds
        /\ structure = [o \in Owners |-> None] /\ outbox = [o \in Owners |-> None]
        /\ uploads = [o \in Owners |-> 0]
        /\ slot = None /\ read = None /\ answer = None /\ calls = 0

Call == calls < MaxCalls /\ calls' = calls + 1

SetHashSeed(s) == /\ Call /\ s # seed /\ seed' = s
                  /\ UNCHANGED <<structure, outbox, uploads, slot, read, answer>>

Update(o, b) == /\ Call /\ structure' = [structure EXCEPT ![o] = b]
                /\ UNCHANGED <<seed, outbox, uploads, slot, read, answer>>

InitSet(o, S) == S # {} /\ Update(o, Build(S))
Insert(o, e) == Usable(o) /\ Update(o, Inserted(structure[o], e))
Delete(o, e) == Usable(o) /\ Update(o, Deleted(structure[o], e))

\* DynamicPiccard::Encrypt, serialization and the envelope, in one caller's code.
\* The benchmark holds a const engine and calls the parts of Encrypt itself.
Upload(o) ==
    /\ Usable(o) /\ outbox[o] = None /\ uploads[o] <= MaxEpoch
    /\ (slot = None) = (uploads[o] = 0)
    /\ RequireCurrentHashCrs(structure[o])
    /\ outbox' = [outbox EXCEPT ![o] = MakeVersionedCiphertext(o, uploads[o], EncryptFeature(structure[o]))]
    /\ UNCHANGED <<seed, structure, uploads, slot, read, answer, calls>>

SameBinding(x, y) == x.seed = y.seed

\* The store's constructor; it throws for two bindings that differ.
CreateStore ==
    /\ slot = None /\ \A o \in Owners : outbox[o] # None
    /\ IF /\ \A o \in Owners : Deserializes(outbox[o].bytes)
          /\ \A o, p \in Owners : SameBinding(outbox[o], outbox[p])
       THEN slot' = outbox /\ uploads' = [o \in Owners |-> 1]
       ELSE UNCHANGED <<slot, uploads>>
    /\ outbox' = [o \in Owners |-> None]
    /\ UNCHANGED <<seed, structure, read, answer, calls>>

\* TryReplace with the expected epoch before the envelope's; a binding that
\* differs from the stored one throws, any outcome but Applied ends the refresh.
TryReplace(o) ==
    /\ slot # None /\ outbox[o] # None
    /\ IF /\ Deserializes(outbox[o].bytes) /\ SameBinding(slot[o], outbox[o])
          /\ slot[o].epoch = outbox[o].epoch - 1
       THEN slot' = [slot EXCEPT ![o] = outbox[o]] /\ uploads' = [uploads EXCEPT ![o] = @ + 1]
       ELSE UNCHANGED <<slot, uploads>>
    /\ outbox' = [outbox EXCEPT ![o] = None]
    /\ UNCHANGED <<seed, structure, read, answer, calls>>

ReadPair == /\ slot # None /\ read' = slot
            /\ UNCHANGED <<seed, structure, outbox, uploads, slot, answer, calls>>

\* The cloud's evaluation and the receiver's decryption of the pair read.
EvaluatePair == /\ read # None /\ \A o \in Owners : Deserializes(read[o].bytes)
                /\ \E x, y \in Owners : x # y /\ answer' = Result(read[x].bytes, read[y].bytes)
                /\ read' = None
                /\ UNCHANGED <<seed, structure, outbox, uploads, slot, calls>>

\* DynamicPiccard::Run on the two structures themselves.
Run(x, y) == /\ Call /\ Usable(x) /\ Usable(y)
             /\ RequireCurrentHashCrs(structure[x]) /\ RequireCurrentHashCrs(structure[y])
             /\ answer' = Result(EncryptFeature(structure[x]), EncryptFeature(structure[y]))
             /\ UNCHANGED <<seed, structure, outbox, uploads, slot, read>>

Next == \/ \E s \in Seeds : SetHashSeed(s)
        \/ \E o \in Owners : \/ \E S \in Sets : InitSet(o, S)
                             \/ \E e \in Elem : Insert(o, e) \/ Delete(o, e)
                             \/ Upload(o) \/ TryReplace(o)
        \/ CreateStore \/ ReadPair \/ EvaluatePair
        \/ \E x, y \in Owners : Run(x, y)

Spec == Init /\ [][Next]_vars

-----------------------------------------------------------------------------
(* Properties *)

Together(pair) == pair # None => \A o, p \in Owners : pair[o].bytes.of.seed = pair[p].bytes.of.seed

\* Signatures of different hash seeds never meet: not in the two slots of the
\* store, not in a pair the cloud has read, not in an answer. The check in
\* DynamicPiccard::Encrypt and the binding in the envelope each close one way
\* (dynamic_piccard.cpp:27, dynamic_ciphertext_store.cpp SameImmutableBinding).
OneSeedMeets == /\ Together(slot) /\ Together(read)
                /\ answer # None => answer.of[1].seed = answer.of[2].seed

Bucket(s, i, S) == Arrays!LeastRank({Rank(s, i, e) : e \in S}) % M

\* The hash range is wide enough that no two elements share a rank.
CollisionFree == \A s \in Seeds : \A i \in Coord : \A e, f \in Elem :
    Rank(s, i, e) = Rank(s, i, f) => e = f

\* A decrypted match count is that of the plain sets the two ciphertexts were
\* made from: the coordinates whose MinHashes fall into one bucket. It holds
\* through updates, uploads and reads in any order, for owners that deleted
\* fewer than D elements since InitSet (dynamic_refresh_benchmark.cpp: "stored
\* refresh result differs from local inner product").
AnswerOfSets == CollisionFree /\ answer # None /\ answer.of[1].exact /\ answer.of[2].exact =>
    answer.count = Cardinality({i \in Coord : Bucket(answer.of[1].seed, i, answer.of[1].members)
                                              = Bucket(answer.of[2].seed, i, answer.of[2].members)})
===============================================================================
