------------------------- MODULE RevisionRunProofs -------------------------
(***************************************************************************)
(* What a run of the revision benchmark leaves on disk when it says it is  *)
(* verified, however many invocations it took.  IInv says, for every place *)
(* the program may be at, what is on disk there:                           *)
(*   FilesOK, CountersOK, StreamsOK, RootOK, Positions                     *)
(*                   the types of the files and of the locals that are live *)
(*   PhasesTell      the phase stream, of the phases below the program's   *)
(*   NothingOwed     no cell of a phase the program has left is incomplete *)
(*   CellsTell       the event stream and the receipts, of the complete    *)
(*                   cells and of the one that runs                        *)
(*   RepairTells     what a resume keeps of both, and has put in order     *)
(*   ReceiptsOwned   a receipt lies in a directory that is not empty       *)
(*   ArchiveHolds    what a resume cuts next is below superseded/          *)
(*   VerifiedAt      what was verified is what is on disk                  *)
(* At idle nothing is said of the streams: any of them may be Torn, and a  *)
(* resume starts from that.  A part has a lemma of its own, with one step  *)
(* per action.                                                             *)
(***************************************************************************)
EXTENDS RevisionRun, FiniteSetTheorems, SequenceTheorems, ArithmeticLemmas, TLAPS

\* Min and Max of one or two places.
LEMMA MinMax ==
    ASSUME NEW i \in Nat, NEW j \in Nat, i <= j
    PROVE  Min({i, j}) = i /\ Max({i, j}) = j
BY DEF Min, Max

------------------------------------------------------------------------------
(* Places in a sequence *)

Rank(places, k) == Cardinality({j \in places : j <= k})
Place(places, n) == CHOOSE k \in places : Rank(places, k) = n

\* Places of a sequence are finitely many naturals.
LEMMA PlacesFinite ==
    ASSUME NEW N \in Nat, NEW K, K \subseteq 1..N
    PROVE  IsFiniteSet(K) /\ K \subseteq Nat
<1>1. IsFiniteSet(1..N)
  BY FS_Interval
<1>2. K \in SUBSET (1..N) /\ K \subseteq Nat
  OBVIOUS
<1> QED BY <1>1, <1>2, FS_Subset

\* Ranks grow with the place and are 1 to the number of places.
LEMMA RankGrows ==
    ASSUME NEW N \in Nat, NEW K, K \subseteq 1..N, NEW k \in K
    PROVE  /\ IsFiniteSet(K)
           /\ Rank(K, k) \in 1..Cardinality(K)
           /\ \A j \in K : j < k => Rank(K, j) < Rank(K, k)
<1> DEFINE U(j) == {i \in K : i <= j}
<1>1. IsFiniteSet(K) /\ K \subseteq Nat
  BY PlacesFinite
<1>2. ASSUME NEW j \in K
      PROVE  IsFiniteSet(U(j)) /\ Cardinality(U(j)) \in Nat /\ Cardinality(U(j)) <= Cardinality(K)
  <2>1. U(j) \in SUBSET K
    OBVIOUS
  <2> QED BY <1>1, <2>1, FS_Subset, FS_CardinalityType
<1>3. Cardinality(U(k)) # 0
  <2>1. k \in U(k)
    OBVIOUS
  <2> QED BY <1>2, <2>1, FS_EmptySet
<1>4. ASSUME NEW j \in K, j < k PROVE Cardinality(U(j)) < Cardinality(U(k))
  <2>1. U(j) \in SUBSET U(k) /\ U(j) # U(k)
    <3>1. k \in U(k) /\ k \notin U(j)
      BY <1>1, <1>4
    <3>2. \A i \in K : i <= j => i <= k
      BY <1>1, <1>4
    <3> QED BY <3>1, <3>2
  <2> QED BY <1>2, <2>1, FS_Subset
<1>5. \A j \in K : Rank(K, j) = Cardinality(U(j))
  BY DEF Rank
<1>6. Cardinality(K) \in Nat
  BY <1>1, FS_CardinalityType
<1>7. Cardinality(U(k)) \in 1..Cardinality(K)
  BY <1>2, <1>3, <1>6
<1> HIDE DEF U
<1> QED BY <1>1, <1>4, <1>5, <1>7

\* Every rank is the rank of one place, and places follow their ranks.
LEMMA Places ==
    ASSUME NEW N \in Nat, NEW K, K \subseteq 1..N
    PROVE  /\ Cardinality(K) \in Nat
           /\ \A n \in 1..Cardinality(K) : Place(K, n) \in K /\ Rank(K, Place(K, n)) = n
           /\ \A k \in K : Rank(K, k) \in 1..Cardinality(K) /\ Place(K, Rank(K, k)) = k
<1> DEFINE f == [k \in K |-> Rank(K, k)]
           R == 1..Cardinality(K)
<1>1. IsFiniteSet(K) /\ Cardinality(K) \in Nat
  BY PlacesFinite, FS_CardinalityType
<1>2. ASSUME NEW j \in K, NEW k \in K, Rank(K, j) = Rank(K, k) PROVE j = k
  <2>1. Rank(K, j) \in 1..Cardinality(K) /\ Rank(K, k) \in 1..Cardinality(K)
    BY RankGrows
  <2>2. (j < k => Rank(K, j) < Rank(K, k)) /\ (k < j => Rank(K, k) < Rank(K, j))
    BY RankGrows
  <2>3. j \in Nat /\ k \in Nat
    BY PlacesFinite
  <2> QED BY <1>1, <1>2, <2>1, <2>2, <2>3
<1>3. f \in Injection(K, R)
  BY <1>2, RankGrows DEF Injection, IsInjective
<1>4. IsFiniteSet(R) /\ Cardinality(R) = Cardinality(K)
  BY <1>1, FS_Interval
<1>5. f \in Surjection(K, R)
  BY <1>3, <1>4, FS_Injection
<1>6. ASSUME NEW n \in R PROVE \E k \in K : Rank(K, k) = n
  BY <1>5 DEF Surjection
<1>7. ASSUME NEW n \in R PROVE Place(K, n) \in K /\ Rank(K, Place(K, n)) = n
  BY <1>6 DEF Place
<1>8. ASSUME NEW k \in K PROVE Rank(K, k) \in R /\ Place(K, Rank(K, k)) = k
  <2>1. Rank(K, k) \in R
    BY RankGrows
  <2> QED BY <1>2, <1>7, <2>1
<1> QED BY <1>1, <1>7, <1>8

\* A subsequence lists the records at its places, each at its rank.
LEMMA Listed ==
    ASSUME NEW S, NEW s \in Seq(S), NEW K, K \subseteq DOMAIN s
    PROVE  LET t == Subsequence(s, K)
           IN  /\ t \in Seq(S) /\ Len(t) = Cardinality(K) /\ Cardinality(K) \in Nat
               /\ \A n \in DOMAIN t : /\ Place(K, n) \in K /\ t[n] = s[Place(K, n)]
                                      /\ Rank(K, Place(K, n)) = n
               /\ \A k \in K : /\ Rank(K, k) \in DOMAIN t /\ t[Rank(K, k)] = s[k]
                               /\ Place(K, Rank(K, k)) = k
<1> DEFINE t == [n \in 1..Cardinality(K) |-> s[Place(K, n)]]
<1>1. Subsequence(s, K) = t
  BY DEF Subsequence, Place, Rank
<1>2. Len(s) \in Nat /\ K \subseteq 1..Len(s) /\ \A k \in K : s[k] \in S
  BY LenProperties, ElementOfSeq
<1>3. /\ Cardinality(K) \in Nat
      /\ \A n \in 1..Cardinality(K) : Place(K, n) \in K /\ Rank(K, Place(K, n)) = n
      /\ \A k \in K : Rank(K, k) \in 1..Cardinality(K) /\ Place(K, Rank(K, k)) = k
  BY <1>2, Places
<1>4. t \in Seq(S) /\ Len(t) = Cardinality(K) /\ DOMAIN t = 1..Cardinality(K)
  BY <1>2, <1>3, IsASeq
<1> HIDE DEF t
<1>5. \A n \in 1..Cardinality(K) : t[n] = s[Place(K, n)]
  BY DEF t
<1> QED BY <1>1, <1>3, <1>4, <1>5

------------------------------------------------------------------------------
(* The phase stream *)

\* PhasesBelow is a sequence of pairs, two to a phase.
LEMMA BelowTyped ==
    ASSUME NEW p \in Nat
    PROVE  /\ PhasesBelow(p) \in Seq(Nat \X Marks) /\ Len(PhasesBelow(p)) = 2 * p
           /\ DOMAIN PhasesBelow(p) = 1..(2 * p)
<1> DEFINE e(i) == <<(i - 1) \div 2, IF i % 2 = 1 THEN "STARTED" ELSE "COMPLETED">>
<1>1. \A i \in 1..(2 * p) : (i - 1) \div 2 \in Nat
  OBVIOUS
<1>2. \A i \in 1..(2 * p) : e(i) \in Nat \X Marks
  BY <1>1 DEF Marks
<1>3. 2 * p \in Nat
  OBVIOUS
<1> HIDE DEF e
<1>4. [i \in 1..(2 * p) |-> e(i)] \in Seq(Nat \X Marks)
  BY <1>2, <1>3, IsASeq
<1>5. PhasesBelow(p) = [i \in 1..(2 * p) |-> e(i)]
  BY DEF PhasesBelow, e
<1> QED BY <1>3, <1>4, <1>5, LenProperties

\* The next phase adds its two records.
LEMMA BelowNext ==
    ASSUME NEW p \in Nat
    PROVE  PhasesBelow(p + 1) =
               Append(Append(PhasesBelow(p), <<p, "STARTED">>), <<p, "COMPLETED">>)
<1> DEFINE s == PhasesBelow(p)
           t == Append(s, <<p, "STARTED">>)
           u == Append(t, <<p, "COMPLETED">>)
<1>1. s \in Seq(Nat \X Marks) /\ Len(s) = 2 * p
  BY BelowTyped
<1>2. <<p, "STARTED">> \in Nat \X Marks /\ <<p, "COMPLETED">> \in Nat \X Marks
  BY DEF Marks
<1>3. /\ t \in Seq(Nat \X Marks) /\ Len(t) = 2 * p + 1
      /\ \A i \in 1..(2 * p) : t[i] = s[i]
      /\ t[2 * p + 1] = <<p, "STARTED">>
  BY <1>1, <1>2
<1>4. /\ u \in Seq(Nat \X Marks) /\ Len(u) = 2 * p + 2
      /\ \A i \in 1..(2 * p) : u[i] = s[i]
      /\ u[2 * p + 1] = <<p, "STARTED">> /\ u[2 * p + 2] = <<p, "COMPLETED">>
  <2> HIDE DEF t
  <2> QED BY <1>2, <1>3
<1>5. PhasesBelow(p + 1) \in Seq(Nat \X Marks) /\ Len(PhasesBelow(p + 1)) = 2 * p + 2
  <2>1. p + 1 \in Nat /\ 2 * (p + 1) = 2 * p + 2
    OBVIOUS
  <2> QED BY <2>1, BelowTyped
<1>6. ASSUME NEW i \in 1..(2 * p + 2) PROVE PhasesBelow(p + 1)[i] = u[i]
  <2>1. PhasesBelow(p + 1)[i] = <<(i - 1) \div 2, IF i % 2 = 1 THEN "STARTED" ELSE "COMPLETED">>
    BY DEF PhasesBelow
  <2>2. CASE i \in 1..(2 * p)
    <3>1. s[i] = <<(i - 1) \div 2, IF i % 2 = 1 THEN "STARTED" ELSE "COMPLETED">>
      BY <2>2 DEF PhasesBelow
    <3> QED BY <1>4, <2>1, <2>2, <3>1
  <2>3. CASE i = 2 * p + 1
    <3>1. (i - 1) \div 2 = p /\ i % 2 = 1
      BY <2>3
    <3> QED BY <1>4, <2>1, <2>3, <3>1
  <2>4. CASE i = 2 * p + 2
    <3>1. (i - 1) \div 2 = p /\ i % 2 = 0
      BY <2>4
    <3> QED BY <1>4, <2>1, <2>4, <3>1
  <2>5. i \in 1..(2 * p) \/ i = 2 * p + 1 \/ i = 2 * p + 2
    OBVIOUS
  <2> QED BY <2>2, <2>3, <2>4, <2>5
<1> QED BY <1>4, <1>5, <1>6, SeqEqual

\* What a reader observes of a stream has its length and grows with it.
Seen(s) == [i \in DOMAIN s |-> <<s[i].phase, s[i].state>>]

\* What is seen of a phase stream: a pair per record.
LEMMA SeenTyped ==
    ASSUME NEW s \in Seq(PhaseRecords)
    PROVE  /\ Seen(s) \in Seq(Nat \X Marks) /\ Len(Seen(s)) = Len(s) /\ Len(s) \in Nat
           /\ \A i \in 1..Len(s) : Seen(s)[i] = <<s[i].phase, s[i].state>>
<1> DEFINE e(i) == <<s[i].phase, s[i].state>>
<1>1. Len(s) \in Nat /\ DOMAIN s = 1..Len(s)
  BY LenProperties
<1>2. \A i \in 1..Len(s) : e(i) \in Nat \X Marks
  <2>1. \A r \in PhaseRecords : <<r.phase, r.state>> \in Nat \X Marks
    BY CellAssumption DEF PhaseRecords, Phases, Seal
  <2> QED BY <2>1, ElementOfSeq
<1> HIDE DEF e
<1>3. [i \in 1..Len(s) |-> e(i)] \in Seq(Nat \X Marks)
  BY <1>1, <1>2, IsASeq
<1>4. Seen(s) = [i \in 1..Len(s) |-> e(i)]
  BY <1>1 DEF Seen, e
<1> QED BY <1>1, <1>3, <1>4, LenProperties DEF e

\* A record appended to the stream is one more pair seen.
LEMMA SeenGrows ==
    ASSUME NEW s \in Seq(PhaseRecords), NEW r \in PhaseRecords
    PROVE  Seen(Append(s, r)) = Append(Seen(s), <<r.phase, r.state>>)
<1> DEFINE o == Seen(s)
           z == Append(s, r)
           t == Append(o, <<r.phase, r.state>>)
<1>1. /\ o \in Seq(Nat \X Marks) /\ Len(o) = Len(s) /\ Len(s) \in Nat
      /\ \A i \in 1..Len(s) : o[i] = <<s[i].phase, s[i].state>>
  BY SeenTyped
<1>2. <<r.phase, r.state>> \in Nat \X Marks
  BY CellAssumption DEF PhaseRecords, Phases, Seal
<1>3. /\ z \in Seq(PhaseRecords) /\ Len(z) = Len(s) + 1
      /\ \A i \in 1..Len(s) : z[i] = s[i]
      /\ z[Len(s) + 1] = r
  OBVIOUS
<1> HIDE DEF z
<1>4. /\ Seen(z) \in Seq(Nat \X Marks) /\ Len(Seen(z)) = Len(s) + 1
      /\ \A i \in 1..Len(s) + 1 : Seen(z)[i] = <<z[i].phase, z[i].state>>
  BY <1>3, SeenTyped
<1> HIDE DEF o
<1>5. /\ t \in Seq(Nat \X Marks) /\ Len(t) = Len(s) + 1
      /\ \A i \in 1..Len(s) : t[i] = o[i]
      /\ t[Len(s) + 1] = <<r.phase, r.state>>
  BY <1>1, <1>2
<1>6. ASSUME NEW i \in 1..Len(s) + 1 PROVE Seen(z)[i] = t[i]
  <2>1. CASE i \in 1..Len(s)
    BY <1>1, <1>3, <1>4, <1>5, <2>1
  <2>2. CASE i = Len(s) + 1
    BY <1>3, <1>4, <1>5, <2>2
  <2> QED BY <1>1, <2>1, <2>2
<1> HIDE DEF t
<1>7. Seen(z) = t
  BY <1>4, <1>5, <1>6, SeqEqual
<1> QED BY <1>7 DEF o, z, t

\* A stream cut behind the phases below p tells of just these, and of no more.
LEMMA SeenCut ==
    ASSUME NEW s \in Seq(PhaseRecords), NEW p \in Nat, IsPrefix(PhasesBelow(p), Seen(s))
    PROVE  LET t == SubSeq(s, 1, 2 * p)
           IN  /\ 2 * p \in 0..Len(s)
               /\ t \in Seq(PhaseRecords) /\ Len(t) = 2 * p
               /\ \A i \in 1..(2 * p) : t[i] = s[i]
               /\ Seen(t) = PhasesBelow(p)
<1> DEFINE b == PhasesBelow(p)
           o == Seen(s)
           t == SubSeq(s, 1, 2 * p)
<1>1. /\ o \in Seq(Nat \X Marks) /\ Len(o) = Len(s) /\ Len(s) \in Nat
      /\ \A i \in 1..Len(s) : o[i] = <<s[i].phase, s[i].state>>
  BY SeenTyped
<1>2. b \in Seq(Nat \X Marks) /\ Len(b) = 2 * p
  BY BelowTyped
<1>3. 2 * p <= Len(s) /\ SubSeq(b, 1, 2 * p) = SubSeq(o, 1, 2 * p)
  BY <1>1, <1>2 DEF IsPrefix
<1> HIDE DEF b, o
<1>4. ASSUME NEW i \in 1..(2 * p) PROVE b[i] = o[i]
  <2>1. ASSUME NEW j \in 1..(2 * p) PROVE b[j] \in Nat \X Marks /\ o[j] \in Nat \X Marks
    <3>1. j \in 1..Len(b) /\ j \in 1..Len(o)
      BY <1>1, <1>2, <1>3
    <3> QED BY <1>1, <1>2, <3>1, ElementOfSeq
  <2>2. SubSeq(b, 1, 2 * p)[i] = b[i] /\ SubSeq(o, 1, 2 * p)[i] = o[i]
    <3> DEFINE n == 2 * p
    <3>1. n \in Int /\ i \in 1..n - 1 + 1
      OBVIOUS
    <3> HIDE DEF n
    <3>2. \A j \in 1..n - 1 + 1 : SubSeq(b, 1, n)[j] = b[1 + j - 1]
      BY <2>1, <3>1, SubSeqProperties DEF n
    <3>3. \A j \in 1..n - 1 + 1 : SubSeq(o, 1, n)[j] = o[1 + j - 1]
      BY <2>1, <3>1, SubSeqProperties DEF n
    <3>4. 1 + i - 1 = i
      OBVIOUS
    <3> QED BY <3>1, <3>2, <3>3, <3>4 DEF n
  <2> QED BY <1>3, <2>2
<1>5. /\ t \in Seq(PhaseRecords) /\ Len(t) = 2 * p
      /\ \A i \in 1..(2 * p) : t[i] = s[i]
  <2>1. \A j \in 1..(2 * p) : s[j] \in PhaseRecords
    BY <1>1, <1>3, ElementOfSeq
  <2> QED BY <2>1, SubSeqProperties
<1> HIDE DEF t
<1>6. /\ Seen(t) \in Seq(Nat \X Marks) /\ Len(Seen(t)) = 2 * p
      /\ \A i \in 1..(2 * p) : Seen(t)[i] = <<t[i].phase, t[i].state>>
  BY <1>5, SeenTyped
<1>7. ASSUME NEW i \in 1..(2 * p) PROVE Seen(t)[i] = b[i]
  <2>1. i \in 1..Len(s)
    BY <1>1, <1>3
  <2> QED BY <1>1, <1>4, <1>5, <1>6, <2>1
<1>8. Seen(t) = b
  BY <1>2, <1>6, <1>7, SeqEqual
<1> QED BY <1>1, <1>3, <1>5, <1>8 DEF b, t

------------------------------------------------------------------------------
(* The inductive invariant *)

Repair == {"archive", "dropPhases", "cutPhases", "dropEvents", "cutEvents", "renumber", "move"}
Steady == {"create", "plan", "running", "phase", "stream", "cells", "verifying", "verify",
           "finish"}
Busy == {"producer", "receipt"}
Sealing == {"seal", "checksum"}

FilesOK ==
    /\ pc \in {"idle"} \cup Steady \cup Busy \cup Repair \cup Sealing
    /\ run \in Manifests \cup {None, Torn}
    /\ manifest \in Manifests \cup {None}
    /\ pc \in Steady \cup Busy \cup Repair => manifest \in Manifests
    /\ pc \in {"stream", "verify"} => run = manifest
    /\ receipt \in [Cells -> Receipts \cup {None, Torn}]
    /\ superseded \in [Attempts -> Archives \cup {None}]
    /\ complete \subseteq Cells /\ files \subseteq Cells

\* A resume archives below an attempt no invocation before it has counted.
CountersOK ==
    /\ time \in 0..MaxInvocations
    /\ pc # "idle" => time > 0
    /\ run \in Manifests => run.resumes < time
    /\ manifest \in Manifests => manifest.resumes < time
    /\ pc \in Repair => Attempt < time

\* A stream is read before it is appended to, so it is not Torn then.
StreamsOK ==
    /\ phases = Torn \/ phases \in Seq(PhaseRecords)
    /\ events = Torn \/ events \in Seq(EventRecords)
    /\ pc \in Steady \cup Busy \cup (Repair \ {"archive", "dropPhases"}) =>
          phases \in Seq(PhaseRecords)
    /\ pc \in Steady \cup Busy \cup Repair => events \in Seq(EventRecords)

RootOK ==
    ~root => /\ pc = "idle" /\ run = None /\ ~verified /\ seal = None
             /\ phases = <<>> /\ events = <<>> /\ files = {}
             /\ receipt = [c \in Cells |-> None]

\* Which phase, mark and cell a place of the program is about.
Positions ==
    /\ pc \in {"create", "plan"} => phase = 0 /\ mark = "STARTED"
    /\ pc \in {"running"} \cup Repair => phase \in 0..Verification /\ mark = "STARTED"
    /\ pc \in {"phase", "stream"} =>
          phase \in Phases /\ mark \in Marks /\ (phase = Seal => mark = "STARTED")
    /\ pc \in {"cells"} \cup Busy => phase \in 1..LastPhase /\ mark = "STARTED"
    /\ pc = "verify" => phase = Verification /\ mark = "STARTED"
    /\ pc = "finish" => phase = Seal /\ mark = "STARTED"
    /\ pc \in Busy => cell \in Cells \ complete /\ PhaseOf[cell] = phase /\ cell \in files
    /\ pc = "producer" => cell \in Spawned

\* phases.jsonl tells of the phases below the program's, and of its own STARTED.
Begun == Append(PhasesBelow(phase), <<phase, "STARTED">>)
PhasesTell ==
    /\ pc \in {"create", "plan", "running", "dropEvents", "cutEvents", "renumber", "move"} =>
          Observed = PhasesBelow(phase)
    /\ pc \in {"phase", "stream"} =>
          Observed = IF mark = "STARTED" THEN PhasesBelow(phase) ELSE Begun
    /\ pc \in {"cells", "verify", "finish"} \cup Busy => Observed = Begun
    /\ pc = "verifying" => phase \in {LastPhase, Verification} /\ Observed = PhasesBelow(Verification)
    /\ pc = "cutPhases" => IsPrefix(PhasesBelow(phase), Observed)

\* No phase the program has left owes a cell.
Left == {c \in Cells : PhaseOf[c] < phase \/ (mark = "COMPLETED" /\ PhaseOf[c] = phase)}
NothingOwed ==
    /\ pc \in (Steady \ {"create", "plan", "verifying"}) \cup Busy \cup Repair =>
          Left \subseteq complete
    /\ pc = "verifying" => complete = Cells

Numbered == \A i \in DOMAIN events : events[i].seq = i
Bound(c) ==
    /\ CellIsComplete(c)
    /\ c \in Spawned => /\ receipt[c].start = events[Min(EventsOf(c))].seq
                        /\ receipt[c].end = events[Max(EventsOf(c))].seq
Counted == /\ manifest.sequence = Len(events)
           /\ manifest.spawned = Cardinality(complete \cap Spawned)

\* Every complete cell has its receipt and its events, and no other cell has any
\* but the one that runs.
CellsTell ==
    /\ pc \in Steady \cup Busy => Numbered /\ Counted /\ \A c \in complete : Bound(c)
    /\ pc \in Steady => \A c \in Cells \ complete : EventsOf(c) = {}
    /\ pc \in Busy => \A c \in Cells \ (complete \cup {cell}) : EventsOf(c) = {}
    /\ pc = "producer" => /\ Len(events) > 0 /\ EventsOf(cell) = {Len(events)}
                          /\ events[Len(events)].event = "START"
    /\ pc = "receipt" => IF cell \in Spawned
                         THEN /\ Len(events) > 1 /\ EventsOf(cell) = {Len(events) - 1, Len(events)}
                              /\ events[Len(events) - 1].event = "START"
                              /\ events[Len(events)].event = "END"
                         ELSE EventsOf(cell) = {}

\* A resume keeps what its complete cells need and has it in order by its end.
RepairTells ==
    /\ pc \in Repair => \A c \in complete : CellIsComplete(c)
    /\ pc \in {"renumber", "move"} => Numbered /\ \A c \in Cells \ complete : EventsOf(c) = {}
    /\ pc = "move" => \A c \in complete : Bound(c)

ReceiptsOwned ==
    /\ \A c \in Cells : receipt[c] # None => c \in files
    /\ pc \in Steady \cup Busy => \A c \in Cells \ complete : receipt[c] = None

\* What a resume is about to cut is below superseded/.
ArchiveHolds ==
    /\ pc \in Repair \ {"archive"} => superseded[Attempt] \in Archives
    /\ pc = "cutPhases" =>
          superseded[Attempt].phases = SubSeq(phases, 2 * phase + 1, Len(phases))
    /\ pc = "cutEvents" =>
          superseded[Attempt].events = Subsequence(events, DOMAIN events \ Retained)

\* What was verified is still what is on disk, up to the phases recorded since.
VerifiedAt ==
    /\ verified \in BOOLEAN
    /\ verified => root /\ pc \in {"idle", "phase", "stream", "finish"} \cup Sealing
    /\ verified /\ pc \in {"phase", "stream"} =>
          EventsExact /\ ReceiptsExact /\ \/ phase = Verification /\ mark = "COMPLETED"
                                          \/ phase = Seal
    /\ pc \in {"phase", "stream"} /\ phase >= Verification =>
          verified \/ (phase = Verification /\ mark = "STARTED")
    /\ pc = "finish" => verified /\ Verifies(Seal)
    /\ pc \in Sealing => verified /\ Verifies(Seal)
    /\ run \in Manifests /\ run.state = "COMPLETED" =>
          pc \in {"idle"} \cup Sealing /\ verified /\ Verifies(Seal)
    /\ manifest \in Manifests /\ pc \notin Sealing => manifest.state # "COMPLETED"
    /\ seal # None => pc \in {"idle", "checksum"} /\ verified /\ Verifies(Seal)

IInv ==
    /\ FilesOK /\ CountersOK /\ StreamsOK /\ RootOK /\ Positions
    /\ PhasesTell /\ NothingOwed /\ CellsTell /\ RepairTells
    /\ ReceiptsOwned /\ ArchiveHolds /\ VerifiedAt

------------------------------------------------------------------------------
(* Initially *)

\* Before the first invocation nothing is on disk.
LEMMA InitIInv == Init => IInv
<1> SUFFICES ASSUME Init PROVE IInv
  OBVIOUS
<1>1. FilesOK /\ CountersOK /\ StreamsOK /\ RootOK /\ Positions
  BY BoundAssumption, FileAssumption DEF Init, FilesOK, CountersOK, StreamsOK, RootOK,
      Positions, Steady, Busy, Repair
<1>2. PhasesTell /\ NothingOwed /\ CellsTell /\ RepairTells /\ ReceiptsOwned /\ ArchiveHolds
  BY DEF Init, PhasesTell, NothingOwed, CellsTell, RepairTells, ReceiptsOwned, ArchiveHolds,
      Steady, Busy, Repair
<1>3. VerifiedAt
  BY FileAssumption DEF Init, VerifiedAt, Sealing
<1> QED BY <1>1, <1>2, <1>3 DEF IInv

------------------------------------------------------------------------------
(* Files *)

\* The counters of a manifest are naturals.
LEMMA ManifestCounts ==
    ASSUME NEW m \in Manifests
    PROVE  m.resumes \in Nat /\ m.sequence \in Nat /\ m.spawned \in Nat
BY DEF Manifests

\* A manifest stays one through every assignment the program makes to it.
LEMMA ManifestTyped ==
    ASSUME NEW m \in Manifests
    PROVE  /\ m # None /\ m # Torn
           /\ \A s \in {"PLANNED", "RUNNING", "VERIFYING", "COMPLETED", "FAILED"} :
                  /\ [m EXCEPT !.state = s] \in Manifests
                  /\ [m EXCEPT !.state = s].resumes = m.resumes
                  /\ [m EXCEPT !.state = s].sequence = m.sequence
                  /\ [m EXCEPT !.state = s].spawned = m.spawned
                  /\ [m EXCEPT !.state = s].state = s
           /\ \A p \in Phases, k \in Marks :
                  /\ [m EXCEPT !.status[p] = k] \in Manifests
                  /\ [m EXCEPT !.status[p] = k].resumes = m.resumes
                  /\ [m EXCEPT !.status[p] = k].sequence = m.sequence
                  /\ [m EXCEPT !.status[p] = k].spawned = m.spawned
                  /\ [m EXCEPT !.status[p] = k].state = m.state
BY FileAssumption DEF Manifests

\* The manifest of a fresh run.
LEMMA FreshManifest ==
    [state |-> "PLANNED", status |-> [p \in Phases |-> "PENDING"],
     sequence |-> 0, spawned |-> 0, resumes |-> 0] \in Manifests
<1>1. [p \in Phases |-> "PENDING"] \in [Phases -> Marks \cup {"PENDING"}]
  BY DEF Marks
<1> QED BY <1>1 DEF Manifests

\* The cell that is started is a pending one.
LEMMA StartedCell ==
    ASSUME complete \subseteq Cells, Pending # {}, NEW d,
           d = CHOOSE c \in Pending : \A e \in Pending : c <= e
    PROVE  d \in Cells /\ PhaseOf[d] = phase /\ d \notin complete
<1>1. Pending \subseteq Nat
  BY DEF Pending, Cells
<1>2. \E c \in Pending : \A e \in Pending : c <= e
  BY <1>1, LeastNatural
<1> QED BY <1>2 DEF Pending

\* Marking run.json FAILED keeps its counters, and leaves a torn one torn.
LEMMA FailedTyped ==
    ASSUME run \in Manifests \cup {None, Torn}
    PROVE  /\ Failed \in Manifests \cup {None, Torn}
           /\ run \in {None, Torn} => Failed = run
           /\ run \in Manifests => /\ Failed \in Manifests /\ Failed.resumes = run.resumes
                                   /\ Failed.state = "FAILED"
<1>1. CASE run \in {None, Torn}
  BY <1>1, ManifestTyped DEF Failed
<1>2. CASE run \in Manifests
  <2>1. Failed = [run EXCEPT !.state = "FAILED"]
    BY <1>2, ManifestTyped DEF Failed
  <2> QED BY <1>2, <2>1, ManifestTyped
<1> QED BY <1>1, <1>2

\* An invocation that ends leaves the run.json it found, at most marked FAILED.
LEMMA FailsTyped ==
    ASSUME run \in Manifests \cup {None, Torn}, Fails
    PROVE  /\ pc' = "idle" /\ manifest' = None
           /\ run' \in Manifests \cup {None, Torn}
           /\ run' \in Manifests =>
                 run \in Manifests /\ run'.resumes = run.resumes /\ run'.state \in {run.state, "FAILED"}
           /\ run = None => run' = None
BY FailedTyped, ManifestTyped DEF Fails, Ends

\* The receipt that is written is one.
LEMMA ReceiptTyped ==
    ASSUME IInv, WriteReceipt
    PROVE  /\ receipt' \in [Cells -> Receipts \cup {None, Torn}]
           /\ receipt'[cell] \in Receipts
           /\ receipt'[cell].status = Status /\ receipt'[cell].time = time
           /\ cell \in Spawned => /\ receipt'[cell].start = manifest.sequence - 1
                                  /\ receipt'[cell].end = manifest.sequence
           /\ \A c \in Cells : c # cell => receipt'[c] = receipt[c]
<1> DEFINE r == [status |-> Status, time |-> time,
                 start |-> IF cell \in Spawned THEN manifest.sequence - 1 ELSE 0,
                 end |-> IF cell \in Spawned THEN manifest.sequence ELSE 0]
<1>1. /\ manifest \in Manifests /\ cell \in Cells /\ time \in Nat
      /\ receipt \in [Cells -> Receipts \cup {None, Torn}]
      /\ cell \in Spawned => manifest.sequence = Len(events) /\ Len(events) > 1
  BY BoundAssumption DEF WriteReceipt, IInv, FilesOK, CountersOK, Positions, CellsTell,
      Counted, Busy
<1>2. manifest.sequence \in Nat
  BY <1>1, ManifestCounts
<1>3. cell \in Spawned => manifest.sequence - 1 \in Nat
  BY <1>1, <1>2
<1>4. Status \in {"NO_SPAWN", "COMPLETED", "FAILED"}
  BY DEF Status
<1>5. r \in Receipts /\ r.status = Status /\ r.time = time
      /\ (cell \in Spawned => r.start = manifest.sequence - 1 /\ r.end = manifest.sequence)
  BY <1>1, <1>2, <1>3, <1>4 DEF Receipts
<1>6. receipt' = [receipt EXCEPT ![cell] = r]
  BY DEF WriteReceipt
<1> HIDE DEF r
<1> QED BY <1>1, <1>5, <1>6

\* The attempt of a resume has a directory to archive in.
LEMMA AttemptTyped ==
    ASSUME IInv, pc \in Repair
    PROVE  manifest \in Manifests /\ Attempt \in Attempts
<1>1. manifest \in Manifests /\ Attempt < time /\ time \in 0..MaxInvocations
  BY DEF IInv, FilesOK, CountersOK
<1>2. manifest.resumes \in Nat
  BY <1>1, ManifestCounts
<1> QED BY <1>1, <1>2, BoundAssumption DEF Attempt, Attempts

\* What the three archiving steps write below superseded/.
LEMMA Archived ==
    ASSUME IInv, NEW a \in Archives
    PROVE  /\ \A v \in Seq(PhaseRecords) :
                 [a EXCEPT !.phases = v] \in Archives /\ [a EXCEPT !.phases = v].phases = v
           /\ \A v \in Seq(EventRecords) :
                 [a EXCEPT !.events = v] \in Archives /\ [a EXCEPT !.events = v].events = v
           /\ \A c \in Cells, r \in Receipts \cup {None, Torn} :
                 /\ [a EXCEPT !.receipts[c] = r] \in Archives
                 /\ [a EXCEPT !.receipts[c] = r].receipts[c] = r
           /\ a # None
BY FileAssumption DEF Archives

\* The records a resume cuts are those behind the phases below its own.
LEMMA PhasesCut ==
    ASSUME IInv, pc \in Repair, phases \in Seq(PhaseRecords), IsPrefix(PhasesBelow(phase), Observed)
    PROVE  LET t == SubSeq(phases, 1, 2 * phase)
               u == SubSeq(phases, 2 * phase + 1, Len(phases))
           IN  /\ phase \in Nat /\ 2 * phase \in 0..Len(phases) /\ Len(phases) \in Nat
               /\ t \in Seq(PhaseRecords) /\ Len(t) = 2 * phase /\ Seen(t) = PhasesBelow(phase)
               /\ \A i \in 1..(2 * phase) : t[i] = phases[i]
               /\ u \in Seq(PhaseRecords) /\ Len(u) = Len(phases) - 2 * phase
               /\ \A i \in 1..(Len(phases) - 2 * phase) : u[i] = phases[2 * phase + i]
<1> DEFINE n == 2 * phase
           u == SubSeq(phases, n + 1, Len(phases))
<1>1. phase \in Nat
  BY CellAssumption DEF IInv, Positions, Verification
<1>2. Observed = Seen(phases)
  BY DEF Observed, Seen
<1>3. LET t == SubSeq(phases, 1, n)
      IN  /\ n \in 0..Len(phases)
          /\ t \in Seq(PhaseRecords) /\ Len(t) = n
          /\ \A i \in 1..n : t[i] = phases[i]
          /\ Seen(t) = PhasesBelow(phase)
  BY <1>1, <1>2, SeenCut
<1>4. Len(phases) \in Nat /\ n \in Nat
  BY <1>1, LenProperties
<1>5. \A i \in n + 1..Len(phases) : phases[i] \in PhaseRecords
  BY <1>4, ElementOfSeq
<1> HIDE DEF n
<1>6. n + 1 \in Int /\ Len(phases) \in Int /\ n <= Len(phases)
  BY <1>3, <1>4
<1>7. /\ u \in Seq(PhaseRecords)
      /\ Len(u) = IF n + 1 <= Len(phases) THEN Len(phases) - (n + 1) + 1 ELSE 0
      /\ \A i \in 1..Len(phases) - (n + 1) + 1 : u[i] = phases[(n + 1) + i - 1]
  BY <1>5, <1>6, SubSeqProperties
<1>8. Len(u) = Len(phases) - n
  BY <1>4, <1>6, <1>7
<1>9. ASSUME NEW i \in 1..(Len(phases) - n) PROVE u[i] = phases[n + i]
  <2>1. i \in 1..Len(phases) - (n + 1) + 1 /\ (n + 1) + i - 1 = n + i
    BY <1>4, <1>6
  <2> QED BY <1>7, <2>1
<1> HIDE DEF u
<1>10. /\ u \in Seq(PhaseRecords) /\ Len(u) = Len(phases) - n
       /\ \A i \in 1..(Len(phases) - n) : u[i] = phases[n + i]
  BY <1>7, <1>8, <1>9
<1> QED BY <1>1, <1>3, <1>4, <1>10 DEF n, u

\* Cells are finitely many.
LEMMA CellsFinite ==
    /\ \A S \in SUBSET Cells : IsFiniteSet(S)
    /\ \A S \in SUBSET Cells : IsFiniteSet(S \cap Spawned)
<1>1. IsFiniteSet(Cells)
  BY CellAssumption, FS_Interval DEF Cells
<1>2. \A S \in SUBSET Cells : S \cap Spawned \in SUBSET Cells
  OBVIOUS
<1> QED BY <1>1, <1>2, FS_Subset

\* A cell with a START and an END has them at its first and last place.
LEMMA OnceFacts ==
    ASSUME events \in Seq(EventRecords), NEW c, RanOnce(c)
    PROVE  /\ Min(EventsOf(c)) \in EventsOf(c) /\ Max(EventsOf(c)) \in EventsOf(c)
           /\ EventsOf(c) = {Min(EventsOf(c)), Max(EventsOf(c))}
           /\ Min(EventsOf(c)) < Max(EventsOf(c))
           /\ EventsOf(c) \subseteq DOMAIN events /\ DOMAIN events \subseteq Nat
<1>1. DOMAIN events \subseteq Nat /\ EventsOf(c) \subseteq DOMAIN events
  BY LenProperties DEF EventsOf
<1>2. PICK i \in EventsOf(c), j \in EventsOf(c) : i < j /\ EventsOf(c) = {i, j}
  BY DEF RanOnce
<1>3. i \in Nat /\ j \in Nat /\ i <= j
  BY <1>1, <1>2
<1> QED BY <1>1, <1>2, <1>3, MinMax

\* A receipt whose numbers a resume moves is that of a complete cell.
LEMMA RenumberedTyped ==
    ASSUME IInv, pc = "renumber", NEW c \in Misnumbered
    PROVE  /\ c \in complete /\ c \in Cells /\ c \in Spawned /\ RanOnce(c)
           /\ receipt[c] \in Receipts /\ Renumbered(c) \in Receipts
           /\ Renumbered(c).status = receipt[c].status /\ Renumbered(c).time = receipt[c].time
           /\ Renumbered(c).start = events[Min(EventsOf(c))].seq
           /\ Renumbered(c).end = events[Max(EventsOf(c))].seq
<1>1. /\ c \in complete /\ c \in Cells /\ EventsOf(c) # {} /\ CellIsComplete(c)
      /\ events \in Seq(EventRecords)
      /\ receipt \in [Cells -> Receipts \cup {None, Torn}]
  BY DEF IInv, FilesOK, StreamsOK, RepairTells, Repair, Misnumbered
<1>2. receipt[c] \in Receipts /\ c \in Spawned /\ RanOnce(c)
  BY <1>1 DEF CellIsComplete
<1>3. events[Min(EventsOf(c))] \in EventRecords /\ events[Max(EventsOf(c))] \in EventRecords
  BY <1>1, <1>2, OnceFacts, ElementOfSeq, LenProperties
<1> DEFINE m == events[Min(EventsOf(c))].seq
           n == events[Max(EventsOf(c))].seq
<1>4. m \in Nat /\ n \in Nat
  BY <1>3 DEF EventRecords
<1>5. Renumbered(c) = [receipt[c] EXCEPT !.start = m, !.end = n]
  BY DEF Renumbered
<1> HIDE DEF m, n
<1>6. /\ Renumbered(c) \in Receipts
      /\ Renumbered(c).status = receipt[c].status /\ Renumbered(c).time = receipt[c].time
      /\ Renumbered(c).start = m /\ Renumbered(c).end = n
  BY <1>2, <1>4, <1>5 DEF Receipts
<1> QED BY <1>1, <1>2, <1>6 DEF m, n

\* The manifest a resume ends with.
LEMMA ResumedManifest ==
    ASSUME IInv, WriteResumed
    PROVE  /\ manifest' \in Manifests /\ manifest'.state = manifest.state
           /\ manifest'.resumes = Attempt /\ manifest'.sequence = Len(events)
           /\ manifest'.spawned = Cardinality(complete \cap Spawned)
<1>1. manifest \in Manifests /\ manifest.resumes \in Nat
  BY AttemptTyped, ManifestCounts DEF WriteResumed, Repair
<1>2. Len(events) \in Nat
  BY LenProperties DEF WriteResumed, Repair, IInv, StreamsOK
<1>3. Cardinality(complete \cap Spawned) \in Nat
  <2>1. complete \in SUBSET Cells
    BY DEF IInv, FilesOK
  <2>2. IsFiniteSet(complete \cap Spawned)
    BY <2>1, CellsFinite
  <2> QED BY <2>2, FS_CardinalityType
<1>4. Attempt \in Nat
  BY <1>1 DEF Attempt
<1> DEFINE q == Len(events)
           n == Cardinality(complete \cap Spawned)
           f == [p \in Phases |-> IF p < phase THEN "COMPLETED" ELSE "PENDING"]
<1>5. f \in [Phases -> Marks \cup {"PENDING"}]
  BY DEF Marks
<1>6. manifest' = [manifest EXCEPT !.resumes = Attempt, !.sequence = q, !.spawned = n, !.status = f]
  BY DEF WriteResumed
<1> HIDE DEF q, n, f
<1>7. /\ manifest' \in Manifests /\ manifest'.state = manifest.state
      /\ manifest'.resumes = Attempt /\ manifest'.sequence = q /\ manifest'.spawned = n
  BY <1>1, <1>2, <1>3, <1>4, <1>5, <1>6 DEF Manifests, q, n
<1> QED BY <1>7 DEF q, n

\* The files keep their types; a manifest is in memory wherever it is read.
LEMMA FilesOKKept ==
    ASSUME IInv, [Next]_vars
    PROVE  FilesOK'
<1>1. CASE Fresh
  BY <1>1, FreshManifest, FailsTyped DEF Fresh, IInv, FilesOK, Positions, WriteState, Steady,
      Busy, Repair, Sealing, evidence
<1>2. CASE WriteInitial
  BY <1>2, ManifestTyped, FailsTyped DEF WriteInitial, IInv, FilesOK, Positions, WriteState,
      Steady, Busy, Repair, Sealing, evidence, local
<1>3. CASE RecordPlans
  BY <1>3, ManifestTyped, FailsTyped DEF RecordPlans, IInv, FilesOK, Positions, WriteState,
      Steady, Busy, Repair, Sealing, evidence, local
<1>4. CASE WriteRunning
  BY <1>4, ManifestTyped, FailsTyped DEF WriteRunning, IInv, FilesOK, Positions, WriteState,
      Steady, Busy, Repair, Sealing, evidence, local, counts, disk, Ends, Repairing
<1>5. CASE WritePhase
  BY <1>5, ManifestTyped, FailsTyped DEF WritePhase, IInv, FilesOK, Positions, WriteState,
      Steady, Busy, Repair, Sealing, evidence, local, counts, disk, Ends, Repairing
<1>6. CASE AppendPhase
  BY <1>6, ManifestTyped, FailsTyped DEF AppendPhase, IInv, FilesOK, Positions, WriteState,
      Steady, Busy, Repair, Sealing
<1>7. CASE NoCellLeft
  BY <1>7, ManifestTyped, FailsTyped DEF NoCellLeft, IInv, FilesOK, Positions, WriteState,
      Steady, Busy, Repair, Sealing, evidence, disk
<1>8. CASE StartCell
  <2>1. cell' \in Cells
    BY <1>8, StartedCell DEF StartCell, IInv, FilesOK
  <2>2. manifest' \in Manifests
    <3>1. manifest \in Manifests
      BY <1>8 DEF StartCell, IInv, FilesOK, Steady
    <3>2. manifest' = manifest \/ manifest' = [manifest EXCEPT !.sequence = manifest.sequence + 1]
      BY <1>8 DEF StartCell
    <3>3. manifest.sequence + 1 \in Nat
      BY <3>1, ManifestCounts
    <3> QED BY <3>1, <3>2, <3>3 DEF Manifests
  <2>3. pc' \in Busy
    BY <1>8 DEF StartCell, Busy
  <2> QED BY <1>8, <2>1, <2>2, <2>3 DEF StartCell, IInv, FilesOK
<1>9. CASE EndCell
  <2>1. manifest' \in Manifests
    <3>1. manifest \in Manifests
      BY <1>9 DEF EndCell, IInv, FilesOK, Busy
    <3>2. manifest' = [manifest EXCEPT !.sequence = manifest.sequence + 1]
      BY <1>9 DEF EndCell
    <3>3. manifest.sequence + 1 \in Nat
      BY <3>1, ManifestCounts
    <3> QED BY <3>1, <3>2, <3>3 DEF Manifests
  <2> QED BY <1>9, <2>1 DEF EndCell, IInv, FilesOK, Busy
<1>10. CASE WriteReceipt
  <2>1. manifest \in Manifests /\ cell \in Cells
    BY <1>10 DEF WriteReceipt, IInv, FilesOK, Positions, Busy
  <2>2. receipt' \in [Cells -> Receipts \cup {None, Torn}]
    BY <1>10, ReceiptTyped DEF IInv, FilesOK
  <2>3. CASE Fails
    BY <1>10, <2>2, <2>3, FailsTyped DEF WriteReceipt, IInv, FilesOK, Steady, Busy, Repair
  <2>4. CASE Status # "FAILED"
    <3>1. \/ manifest' = [manifest EXCEPT !.spawned = manifest.spawned]
          \/ manifest' = [manifest EXCEPT !.spawned = manifest.spawned + 1]
      BY <1>10, <2>4 DEF WriteReceipt
    <3>2. manifest' \in Manifests
      <4>1. manifest.spawned \in Nat /\ manifest.spawned + 1 \in Nat
        BY <2>1, ManifestCounts
      <4> QED BY <2>1, <3>1, <4>1 DEF Manifests
    <3> QED BY <1>10, <2>1, <2>2, <2>4, <3>2 DEF WriteReceipt, IInv, FilesOK, Steady
  <2> QED BY <1>10, <2>3, <2>4 DEF WriteReceipt
<1>11. CASE Resume
  <2>1. Complete \subseteq Cells
    BY DEF Complete
  <2>2. CASE UNCHANGED <<pc, manifest, phase, mark, complete>> /\ run' \in {run, Failed}
    <3>1. run' \in Manifests \cup {None, Torn}
      BY <2>2, FailedTyped DEF IInv, FilesOK
    <3> QED BY <1>11, <2>2, <3>1 DEF Resume, IInv, FilesOK, evidence
  <2>3. CASE pc' = "archive" /\ manifest' = run /\ run # Torn /\ complete' = Complete /\ UNCHANGED run
    BY <1>11, <2>1, <2>3 DEF Resume, IInv, FilesOK, evidence, Repair
  <2> QED BY <1>11, <2>2, <2>3 DEF Resume, Admission
<1>12. CASE MakeArchive
  <2>1. Attempt \in Attempts
    BY <1>12, AttemptTyped DEF MakeArchive, Repair
  <2>2. [phases |-> <<>>, events |-> <<>>, receipts |-> [c \in Cells |-> None]] \in Archives
    BY EmptySeq DEF Archives
  <2> QED BY <1>12, <2>1, <2>2 DEF MakeArchive, IInv, FilesOK, Repair, Repairing, evidence,
      local
<1>13. CASE DropPhases
  <2>1. /\ Attempt \in Attempts /\ superseded[Attempt] \in Archives
        /\ superseded \in [Attempts -> Archives \cup {None}]
    BY <1>13, AttemptTyped DEF DropPhases, Repair, IInv, ArchiveHolds, FilesOK
  <2>2. CASE Fails /\ UNCHANGED superseded
    BY <1>13, <2>2, FailsTyped DEF DropPhases, IInv, FilesOK, Steady, Busy, Repair, Repairing,
        evidence, local
  <2>3. CASE phases # Torn /\ IsPrefix(PhasesBelow(phase), Observed)
    <3>1. SubSeq(phases, 2 * phase + 1, Len(phases)) \in Seq(PhaseRecords)
      <4>1. phases \in Seq(PhaseRecords)
        BY <2>3 DEF IInv, StreamsOK
      <4>2. pc \in Repair
        BY <1>13 DEF DropPhases, Repair
      <4> QED BY <2>3, <4>1, <4>2, PhasesCut
    <3> DEFINE v == SubSeq(phases, 2 * phase + 1, Len(phases))
               w == [superseded[Attempt] EXCEPT !.phases = v]
    <3>2. w \in Archives
      BY <2>1, <3>1, Archived
    <3>3. superseded' = [superseded EXCEPT ![Attempt] = w]
      BY <1>13, <2>3 DEF DropPhases
    <3> HIDE DEF v, w
    <3> QED BY <1>13, <2>1, <2>3, <3>2, <3>3 DEF DropPhases, IInv, FilesOK, Repair, Repairing,
        evidence, local
  <2> QED BY <1>13, <2>2, <2>3 DEF DropPhases
<1>14. CASE CutPhases
  BY <1>14, ManifestTyped, FailsTyped DEF CutPhases, IInv, FilesOK, Positions, WriteState,
      Steady, Busy, Repair, Sealing, local, Repairing
<1>15. CASE DropEvents
  <2>1. /\ Attempt \in Attempts /\ superseded[Attempt] \in Archives
        /\ superseded \in [Attempts -> Archives \cup {None}]
    BY <1>15, AttemptTyped DEF DropEvents, Repair, IInv, ArchiveHolds, FilesOK
  <2> DEFINE v == Subsequence(events, DOMAIN events \ Retained)
             w == [superseded[Attempt] EXCEPT !.events = v]
  <2>2. v \in Seq(EventRecords)
    BY <1>15, Listed DEF DropEvents, Repair, IInv, StreamsOK
  <2>3. w \in Archives
    BY <2>1, <2>2, Archived
  <2>4. superseded' = [superseded EXCEPT ![Attempt] = w]
    BY <1>15 DEF DropEvents
  <2> HIDE DEF v, w
  <2> QED BY <1>15, <2>1, <2>3, <2>4 DEF DropEvents, IInv, FilesOK, Repair, Repairing,
      evidence, local
<1>16. CASE CutEvents
  BY <1>16, ManifestTyped, FailsTyped DEF CutEvents, IInv, FilesOK, Positions, WriteState,
      Steady, Busy, Repair, Sealing, local, Repairing
<1>17. CASE ReceiptsAgree
  BY <1>17, ManifestTyped, FailsTyped DEF ReceiptsAgree, IInv, FilesOK, Positions, WriteState,
      Steady, Busy, Repair, Sealing, evidence, local, Repairing
<1>18. CASE WriteResumed
  <2>1. manifest' \in Manifests
    BY <1>18, ResumedManifest
  <2> QED BY <1>18, <2>1 DEF WriteResumed, IInv, FilesOK, Steady, Repairing, evidence, local
<1>19. CASE WriteVerifying
  BY <1>19, ManifestTyped, FailsTyped DEF WriteVerifying, IInv, FilesOK, Positions, WriteState,
      Steady, Busy, Repair, Sealing, evidence, local, counts, disk, Ends, Repairing
<1>20. CASE Verify
  <2>1. CASE Fails
    BY <1>20, <2>1, FailsTyped DEF Verify, IInv, FilesOK, Steady, Busy, Repair, evidence
  <2>2. CASE manifest' = run /\ pc' = "phase" /\ UNCHANGED run
    BY <1>20, <2>2 DEF Verify, IInv, FilesOK, evidence, Steady
  <2> QED BY <1>20, <2>1, <2>2 DEF Verify
<1>21. CASE WriteCompleted
  BY <1>21, ManifestTyped, FailsTyped DEF WriteCompleted, IInv, FilesOK, Positions, WriteState,
      Steady, Busy, Repair, Sealing, evidence, local, counts, disk, Ends, Repairing
<1>22. CASE SealByHand
  BY <1>22, ManifestTyped, FailsTyped DEF SealByHand, IInv, FilesOK, Positions, WriteState,
      Steady, Busy, Repair, Sealing, evidence, local, disk
<1>23. CASE InstallSeal
  BY <1>23, ManifestTyped, FailsTyped DEF InstallSeal, IInv, FilesOK, Positions, WriteState,
      Steady, Busy, Repair, Sealing, evidence, local
<1>24. CASE InstallChecksum
  BY <1>24, ManifestTyped, FailsTyped DEF InstallChecksum, IInv, FilesOK, Positions,
      WriteState, Steady, Busy, Repair, Sealing, evidence, local, Ends
<1>25. CASE Interrupted
  BY <1>25, ManifestTyped, FailsTyped DEF Interrupted, IInv, FilesOK, Positions, WriteState,
      Steady, Busy, Repair, Sealing, evidence, local, Ends
<1>26. CASE TornWrite
  BY <1>26, ManifestTyped, FailsTyped DEF TornWrite, IInv, FilesOK, Positions, WriteState,
      Steady, Busy, Repair, Sealing, evidence, local, Ends
<1>27. ASSUME NEW c \in Cells, RenumberReceipt(c) PROVE FilesOK'
  <2>1. Renumbered(c) \in Receipts
    BY <1>27, RenumberedTyped DEF RenumberReceipt
  <2> QED BY <1>27, <2>1 DEF RenumberReceipt, IInv, FilesOK, Repairing, local
<1>28. ASSUME NEW c \in Cells, MoveCell(c) PROVE FilesOK'
  <2>1. /\ Attempt \in Attempts /\ superseded[Attempt] \in Archives
        /\ superseded \in [Attempts -> Archives \cup {None}]
        /\ receipt \in [Cells -> Receipts \cup {None, Torn}]
    BY <1>28, AttemptTyped DEF MoveCell, Repair, IInv, ArchiveHolds, FilesOK
  <2> DEFINE w == [superseded[Attempt] EXCEPT !.receipts[c] = receipt[c]]
  <2>2. w \in Archives
    BY <2>1, Archived
  <2>3. superseded' = [superseded EXCEPT ![Attempt] = w]
    BY <1>28 DEF MoveCell
  <2> HIDE DEF w
  <2> QED BY <1>28, <2>1, <2>2, <2>3 DEF MoveCell, IInv, FilesOK, Repairing, local
<1>29. ASSUME NEW c \in Cells, LoseReceipt(c) PROVE FilesOK'
  BY <1>29 DEF LoseReceipt, IInv, FilesOK, Positions, Steady, Busy, Repair, local
<1>30. CASE UNCHANGED vars
  BY <1>30 DEF IInv, FilesOK, vars, evidence, local, disk
<1> QED BY <1>1, <1>2, <1>3, <1>4, <1>5, <1>6, <1>7, <1>8, <1>9, <1>10, <1>11, <1>12, <1>13,
    <1>14, <1>15, <1>16, <1>17, <1>18, <1>19, <1>20, <1>21, <1>22, <1>23, <1>24, <1>25, <1>26,
    <1>27, <1>28, <1>29, <1>30 DEF Next

------------------------------------------------------------------------------
(* Counters and streams *)

\* No manifest counts more resumes than there were invocations.
LEMMA CountersOKKept ==
    ASSUME IInv, [Next]_vars
    PROVE  CountersOK'
<1>1. CASE Fresh
  BY <1>1, FailsTyped, ManifestTyped, ManifestCounts, BoundAssumption DEF Fresh, evidence,
      IInv, FilesOK, CountersOK, Repair
<1>2. CASE WriteInitial
  BY <1>2, FailsTyped, ManifestTyped, ManifestCounts, BoundAssumption DEF WriteInitial,
      evidence, local, counts, IInv, FilesOK, CountersOK, Repair
<1>3. CASE RecordPlans
  BY <1>3, FailsTyped, ManifestTyped, ManifestCounts, BoundAssumption DEF RecordPlans,
      evidence, local, counts, IInv, FilesOK, CountersOK, Repair
<1>4. CASE WriteRunning
  BY <1>4, FailsTyped, ManifestTyped, ManifestCounts, BoundAssumption DEF WriteRunning,
      WriteState, evidence, counts, IInv, FilesOK, CountersOK, Steady, Repair
<1>5. CASE WritePhase
  BY <1>5, FailsTyped, ManifestTyped, ManifestCounts, BoundAssumption DEF WritePhase, evidence,
      local, counts, IInv, FilesOK, CountersOK, Steady, Repair
<1>6. CASE AppendPhase
  BY <1>6, FailsTyped, ManifestTyped, ManifestCounts, BoundAssumption DEF AppendPhase, counts,
      IInv, FilesOK, CountersOK, Repair
<1>7. CASE NoCellLeft
  BY <1>7, FailsTyped, ManifestTyped, ManifestCounts, BoundAssumption DEF NoCellLeft, disk,
      evidence, counts, IInv, FilesOK, CountersOK, Repair
<1>8. CASE StartCell
  <2>1. manifest \in Manifests
    BY <1>8 DEF StartCell, IInv, FilesOK, Steady
  <2>2. manifest' = manifest \/ manifest' = [manifest EXCEPT !.sequence = manifest.sequence + 1]
    BY <1>8 DEF StartCell
  <2>3. manifest'.resumes = manifest.resumes
    BY <2>1, <2>2 DEF Manifests
  <2> QED BY <1>8, <2>1, <2>3 DEF StartCell, IInv, CountersOK, Repair, counts
<1>9. CASE EndCell
  BY <1>9, FailsTyped, ManifestTyped, ManifestCounts, BoundAssumption DEF EndCell, counts,
      IInv, FilesOK, CountersOK, Busy, Repair
<1>10. CASE WriteReceipt
  <2>1. CASE Fails
    BY <1>10, <2>1, FailsTyped, ManifestTyped DEF WriteReceipt, IInv, FilesOK, CountersOK,
        Repair, counts
  <2>2. CASE Status # "FAILED"
    <3>1. manifest \in Manifests
      BY <1>10 DEF WriteReceipt, IInv, FilesOK, Busy
    <3>2. manifest'.resumes = manifest.resumes
      BY <1>10, <2>2, <3>1 DEF WriteReceipt, Manifests
    <3> QED BY <1>10, <2>2, <3>1, <3>2 DEF WriteReceipt, IInv, CountersOK, Repair, counts
  <2> QED BY <1>10, <2>1, <2>2 DEF WriteReceipt
<1>11. CASE Resume
  <2>1. time \in Nat /\ MaxInvocations \in Nat /\ time' = time + 1 /\ time' <= MaxInvocations
    BY <1>11, BoundAssumption DEF Resume, IInv, CountersOK
  <2>2. CASE UNCHANGED <<pc, manifest>> /\ run' \in {run, Failed}
    <3>1. run' \in Manifests => run \in Manifests /\ run'.resumes = run.resumes
      BY <2>2, FailedTyped, ManifestTyped DEF IInv, FilesOK
    <3>2. /\ run \in Manifests => run.resumes \in Nat
          /\ manifest \in Manifests => manifest.resumes \in Nat
      BY ManifestCounts
    <3> QED BY <1>11, <2>1, <2>2, <3>1, <3>2 DEF Resume, IInv, CountersOK, Repair
  <2>3. CASE manifest' = run /\ run # Torn /\ UNCHANGED run
    <3>1. run \in Manifests /\ run.resumes \in Nat /\ run.resumes < time
      BY <1>11, <2>3, ManifestCounts DEF Resume, IInv, FilesOK, CountersOK
    <3> QED BY <1>11, <2>1, <2>3, <3>1 DEF CountersOK, Attempt
  <2> QED BY <1>11, <2>2, <2>3 DEF Resume, Admission
<1>12. CASE MakeArchive
  BY <1>12 DEF MakeArchive, evidence, Repairing, local, counts, IInv, FilesOK, CountersOK,
      Attempt, Repair
<1>13. CASE DropPhases
  <2>1. CASE Fails
    BY <1>13, <2>1, FailsTyped, ManifestTyped DEF DropPhases, IInv, FilesOK, CountersOK,
        Repair, Repairing, counts
  <2>2. CASE UNCHANGED <<run, manifest>>
    BY <1>13, <2>2 DEF DropPhases, IInv, CountersOK, Attempt, Repair, Repairing, counts
  <2> QED BY <1>13, <2>1, <2>2 DEF DropPhases
<1>14. CASE CutPhases
  BY <1>14 DEF CutPhases, Repairing, local, counts, IInv, FilesOK, CountersOK, Attempt, Repair
<1>15. CASE DropEvents
  BY <1>15 DEF DropEvents, evidence, Repairing, local, counts, IInv, FilesOK, CountersOK,
      Attempt, Repair
<1>16. CASE CutEvents
  BY <1>16 DEF CutEvents, Repairing, local, counts, IInv, FilesOK, CountersOK, Attempt, Repair
<1>17. CASE ReceiptsAgree
  BY <1>17 DEF ReceiptsAgree, evidence, Repairing, local, counts, IInv, FilesOK, CountersOK,
      Attempt, Repair
<1>18. CASE WriteResumed
  <2>1. manifest' \in Manifests /\ manifest'.resumes = Attempt /\ Attempt < time
    BY <1>18, ResumedManifest DEF WriteResumed, IInv, CountersOK, Repair
  <2> QED BY <1>18, <2>1 DEF WriteResumed, IInv, CountersOK, Repair, Repairing, counts
<1>19. CASE WriteVerifying
  BY <1>19, FailsTyped, ManifestTyped, ManifestCounts, BoundAssumption DEF WriteVerifying,
      WriteState, evidence, counts, IInv, FilesOK, CountersOK, Steady, Repair
<1>20. CASE Verify
  BY <1>20, FailsTyped, ManifestTyped, ManifestCounts, BoundAssumption DEF Verify, evidence,
      counts, IInv, FilesOK, CountersOK, Attempt, Steady, Busy, Repair, Sealing
<1>21. CASE WriteCompleted
  BY <1>21, FailsTyped, ManifestTyped, ManifestCounts, BoundAssumption DEF WriteCompleted,
      WriteState, evidence, counts, IInv, FilesOK, CountersOK, Steady, Repair
<1>22. CASE SealByHand
  BY <1>22, FailsTyped, ManifestTyped, ManifestCounts, BoundAssumption DEF SealByHand, disk,
      evidence, local, counts, IInv, FilesOK, CountersOK, Repair
<1>23. CASE InstallSeal
  BY <1>23, FailsTyped, ManifestTyped, ManifestCounts, BoundAssumption DEF InstallSeal,
      evidence, local, counts, IInv, FilesOK, CountersOK, Repair
<1>24. CASE InstallChecksum
  BY <1>24, FailsTyped, ManifestTyped, ManifestCounts, BoundAssumption DEF InstallChecksum,
      evidence, local, counts, Ends, IInv, FilesOK, CountersOK, Attempt, Steady, Busy, Repair,
      Sealing
<1>25. CASE Interrupted
  <2>1. CASE Fails
    BY <1>25, <2>1, FailsTyped, ManifestTyped DEF Interrupted, IInv, FilesOK, CountersOK,
        Repair, counts
  <2>2. CASE Ends /\ UNCHANGED run
    BY <1>25, <2>2, ManifestTyped DEF Interrupted, IInv, CountersOK, Repair, counts, Ends
  <2> QED BY <1>25, <2>1, <2>2 DEF Interrupted
<1>26. CASE TornWrite
  BY <1>26, ManifestTyped DEF TornWrite, counts, Ends, IInv, CountersOK, Repair
<1>27. ASSUME NEW c \in Cells, RenumberReceipt(c) PROVE CountersOK'
  BY <1>27 DEF RenumberReceipt, Repairing, local, counts, IInv, FilesOK, CountersOK, Attempt
<1>28. ASSUME NEW c \in Cells, MoveCell(c) PROVE CountersOK'
  BY <1>28 DEF MoveCell, Repairing, local, counts, IInv, FilesOK, CountersOK, Attempt
<1>29. ASSUME NEW c \in Cells, LoseReceipt(c) PROVE CountersOK'
  BY <1>29 DEF LoseReceipt, local, IInv, FilesOK, CountersOK, Attempt
<1>30. CASE UNCHANGED vars
  BY <1>30 DEF vars, disk, evidence, local, counts, IInv, FilesOK, CountersOK, Attempt
<1> QED BY <1>1, <1>2, <1>3, <1>4, <1>5, <1>6, <1>7, <1>8, <1>9, <1>10, <1>11, <1>12, <1>13,
    <1>14, <1>15, <1>16, <1>17, <1>18, <1>19, <1>20, <1>21, <1>22, <1>23, <1>24, <1>25, <1>26,
    <1>27, <1>28, <1>29, <1>30 DEF Next


\* What appending one record does to the places of the cells.
LEMMA Recorded ==
    ASSUME events \in Seq(EventRecords), NEW r \in EventRecords, events' = Append(events, r)
    PROVE  /\ Len(events) \in Nat /\ DOMAIN events = 1..Len(events)
           /\ events' \in Seq(EventRecords) /\ Len(events') = Len(events) + 1
           /\ DOMAIN events' = 1..Len(events) + 1
           /\ \A i \in 1..Len(events) : events'[i] = events[i]
           /\ events'[Len(events) + 1] = r
           /\ \A c : EventsOf(c)' = IF r.cell = c THEN EventsOf(c) \cup {Len(events) + 1}
                                    ELSE EventsOf(c)
<1>1. /\ Len(events) \in Nat /\ DOMAIN events = 1..Len(events)
      /\ events' \in Seq(EventRecords) /\ Len(events') = Len(events) + 1
      /\ \A i \in 1..Len(events) : events'[i] = events[i]
      /\ events'[Len(events) + 1] = r
  BY LenProperties
<1>2. DOMAIN events' = 1..Len(events) + 1
  BY <1>1, LenProperties
<1>3. ASSUME NEW c
      PROVE  EventsOf(c)' = IF r.cell = c THEN EventsOf(c) \cup {Len(events) + 1} ELSE EventsOf(c)
  <2>1. ASSUME NEW i \in 1..Len(events) PROVE i \in EventsOf(c)' <=> i \in EventsOf(c)
    BY <1>1, <1>2 DEF EventsOf
  <2>2. Len(events) + 1 \in EventsOf(c)' <=> r.cell = c
    BY <1>1, <1>2 DEF EventsOf
  <2>3. EventsOf(c)' \subseteq 1..Len(events) + 1 /\ EventsOf(c) \subseteq 1..Len(events)
    BY <1>1, <1>2 DEF EventsOf
  <2>4. \A i \in 1..Len(events) + 1 : i \in 1..Len(events) \/ i = Len(events) + 1
    BY <1>1
  <2> DEFINE n == Len(events) + 1
             A == EventsOf(c)
             B == EventsOf(c)'
  <2>5. \A i : i \in B <=> i \in A \/ (i = n /\ r.cell = c)
    BY <2>1, <2>2, <2>3, <2>4
  <2> HIDE DEF n, A, B
  <2>6. B = IF r.cell = c THEN A \cup {n} ELSE A
    BY <2>5
  <2> QED BY <2>6 DEF n, A, B
<1> QED BY <1>1, <1>2, <1>3

\* The record of a producer's start.
LEMMA Started ==
    ASSUME IInv, StartCell
    PROVE  /\ cell' \in Cells /\ PhaseOf[cell'] = phase /\ cell' \notin complete
           /\ events \in Seq(EventRecords) /\ manifest \in Manifests
           /\ IF cell' \in Spawned
              THEN /\ pc' = "producer"
                   /\ \E r \in EventRecords :
                         /\ events' = Append(events, r)
                         /\ r.seq = Len(events) + 1 /\ r.cell = cell' /\ r.event = "START"
                   /\ manifest'.sequence = Len(events) + 1 /\ manifest'.spawned = manifest.spawned
              ELSE pc' = "receipt" /\ UNCHANGED <<events, manifest>>
<1>1. /\ cell' \in Cells /\ PhaseOf[cell'] = phase /\ cell' \notin complete
      /\ events \in Seq(EventRecords) /\ manifest \in Manifests
      /\ time \in Nat /\ manifest.sequence = Len(events) /\ Len(events) \in Nat
  BY StartedCell, LenProperties, BoundAssumption DEF StartCell, IInv, FilesOK, StreamsOK,
      CountersOK, CellsTell, Counted, Steady
<1>2. CASE cell' \in Spawned
  <2> DEFINE r == [seq |-> Len(events) + 1, cell |-> cell', event |-> "START", ok |-> TRUE, time |-> time]
  <2>1. manifest' = [manifest EXCEPT !.sequence = manifest.sequence + 1]
    BY <1>2 DEF StartCell
  <2>2. manifest'.sequence = Len(events) + 1 /\ manifest'.spawned = manifest.spawned
    BY <1>1, <2>1 DEF Manifests
  <2>3. r \in EventRecords /\ r.seq = Len(events) + 1 /\ r.cell = cell' /\ r.event = "START"
    BY <1>1 DEF EventRecords
  <2>4. events' = Append(events, r)
    BY <1>2, <2>2 DEF StartCell, Event
  <2> HIDE DEF r
  <2> QED BY <1>1, <1>2, <2>2, <2>3, <2>4 DEF StartCell
<1>3. CASE cell' \notin Spawned
  BY <1>1, <1>3 DEF StartCell
<1> QED BY <1>2, <1>3

\* The record of its end.
LEMMA Ended ==
    ASSUME IInv, EndCell
    PROVE  /\ cell \in Cells /\ cell \in Spawned /\ cell \notin complete
           /\ events \in Seq(EventRecords) /\ manifest \in Manifests /\ pc' = "receipt"
           /\ \E r \in EventRecords :
                 /\ events' = Append(events, r)
                 /\ r.seq = Len(events) + 1 /\ r.cell = cell /\ r.event = "END"
           /\ manifest'.sequence = Len(events) + 1 /\ manifest'.spawned = manifest.spawned
<1>1. /\ cell \in Cells /\ cell \in Spawned /\ cell \notin complete
      /\ events \in Seq(EventRecords) /\ manifest \in Manifests
      /\ time \in Nat /\ manifest.sequence = Len(events) /\ Len(events) \in Nat
  BY LenProperties, BoundAssumption DEF EndCell, IInv, FilesOK, StreamsOK, CountersOK,
      Positions, CellsTell, Counted, Busy
<1>2. manifest' = [manifest EXCEPT !.sequence = manifest.sequence + 1]
  BY DEF EndCell
<1>3. manifest'.sequence = Len(events) + 1 /\ manifest'.spawned = manifest.spawned
  BY <1>1, <1>2 DEF Manifests
<1>4. PICK ok \in BOOLEAN : events' = Append(events, Event(manifest'.sequence, "END", ok))
  BY DEF EndCell
<1> DEFINE r == [seq |-> Len(events) + 1, cell |-> cell, event |-> "END", ok |-> ok, time |-> time]
<1>5. r \in EventRecords /\ r.seq = Len(events) + 1 /\ r.cell = cell /\ r.event = "END"
  BY <1>1 DEF EventRecords
<1>6. events' = Append(events, r)
  BY <1>3, <1>4 DEF EndCell, Event
<1> HIDE DEF r
<1> QED BY <1>1, <1>3, <1>5, <1>6 DEF EndCell

\* The record of a phase.
LEMMA PhaseRecorded ==
    ASSUME IInv, AppendPhase
    PROVE  /\ phases \in Seq(PhaseRecords) /\ phases' \in Seq(PhaseRecords)
           /\ phase \in Nat /\ Observed' = Append(Observed, <<phase, mark>>)
<1> DEFINE r == [phase |-> phase, state |-> mark, time |-> time]
<1>1. phases \in Seq(PhaseRecords) /\ phase \in Phases /\ mark \in Marks /\ time \in Nat
  BY BoundAssumption DEF AppendPhase, IInv, StreamsOK, Positions, CountersOK, Steady
<1>2. r \in PhaseRecords /\ r.phase = phase /\ r.state = mark
  BY <1>1 DEF PhaseRecords
<1>3. phases' = Append(phases, r)
  BY DEF AppendPhase
<1>4. Observed = Seen(phases) /\ Observed' = Seen(phases')
  BY DEF Observed, Seen
<1>5. phase \in Nat
  BY <1>1, CellAssumption DEF Phases, Seal
<1> HIDE DEF r
<1> QED BY <1>1, <1>2, <1>3, <1>4, <1>5, SeenGrows

\* What a resume writes back to events.jsonl.
LEMMA EventsCut ==
    ASSUME IInv, CutEvents
    PROVE  /\ events \in Seq(EventRecords) /\ events' \in Seq(EventRecords)
           /\ Retained \subseteq DOMAIN events /\ DOMAIN events = 1..Len(events) /\ Len(events) \in Nat
           /\ \A i \in DOMAIN events' :
                 /\ Place(Retained, i) \in Retained /\ Rank(Retained, Place(Retained, i)) = i
                 /\ events'[i].seq = i
                 /\ SameEvent(events[Place(Retained, i)], events'[i])
                 /\ events'[i].ok = events[Place(Retained, i)].ok
           /\ \A k \in Retained : /\ Rank(Retained, k) \in DOMAIN events'
                                  /\ Place(Retained, Rank(Retained, k)) = k
<1>1. events \in Seq(EventRecords) /\ Retained \subseteq DOMAIN events
  BY DEF CutEvents, IInv, StreamsOK, Repair, Retained
<1>2. Len(events) \in Nat /\ DOMAIN events = 1..Len(events)
  BY <1>1, LenProperties
<1>3. /\ Kept \in Seq(EventRecords)
      /\ \A n \in DOMAIN Kept : /\ Place(Retained, n) \in Retained
                                /\ Kept[n] = events[Place(Retained, n)]
                                /\ Rank(Retained, Place(Retained, n)) = n
      /\ \A k \in Retained : Rank(Retained, k) \in DOMAIN Kept /\ Place(Retained, Rank(Retained, k)) = k
  BY <1>1, Listed DEF Kept
<1>4. Len(Kept) \in Nat /\ DOMAIN Kept = 1..Len(Kept)
  BY <1>3, LenProperties
<1> DEFINE e(i) == [Kept[i] EXCEPT !.seq = i]
<1>5. ASSUME NEW i \in 1..Len(Kept)
      PROVE  /\ e(i) \in EventRecords /\ e(i).seq = i /\ SameEvent(Kept[i], e(i))
             /\ e(i).ok = Kept[i].ok
  <2>1. Kept[i] \in EventRecords /\ i \in Nat
    BY <1>3, <1>4, ElementOfSeq
  <2> QED BY <2>1 DEF EventRecords, SameEvent
<1>6. events' = [i \in 1..Len(Kept) |-> e(i)]
  BY <1>4 DEF CutEvents
<1> HIDE DEF e
<1>7. events' \in Seq(EventRecords) /\ DOMAIN events' = 1..Len(Kept)
  BY <1>4, <1>5, <1>6, IsASeq
<1>8. ASSUME NEW i \in DOMAIN events'
      PROVE  /\ Place(Retained, i) \in Retained /\ Rank(Retained, Place(Retained, i)) = i
             /\ events'[i].seq = i /\ events'[i].ok = events[Place(Retained, i)].ok
             /\ SameEvent(events[Place(Retained, i)], events'[i])
  BY <1>3, <1>4, <1>5, <1>6, <1>7
<1> QED BY <1>1, <1>2, <1>3, <1>4, <1>7, <1>8

\* A stream is readable from where a resume has read it on.
LEMMA StreamsOKKept ==
    ASSUME IInv, [Next]_vars
    PROVE  StreamsOK'
<1>1. CASE Fresh
  BY <1>1, EmptySeq DEF Fresh, evidence, IInv, StreamsOK, RootOK
<1>2. CASE WriteInitial
  BY <1>2 DEF WriteInitial, evidence, local, counts, IInv, StreamsOK, Steady
<1>3. CASE RecordPlans
  BY <1>3 DEF RecordPlans, evidence, local, counts, IInv, StreamsOK, Steady
<1>4. CASE WriteRunning
  BY <1>4 DEF WriteRunning, WriteState, evidence, counts, IInv, StreamsOK, Steady
<1>5. CASE WritePhase
  BY <1>5 DEF WritePhase, evidence, local, counts, IInv, StreamsOK, Steady
<1>6. CASE AppendPhase
  BY <1>6, PhaseRecorded DEF AppendPhase, IInv, StreamsOK, Steady
<1>7. CASE NoCellLeft
  BY <1>7 DEF NoCellLeft, disk, evidence, counts, IInv, StreamsOK, Steady
<1>8. CASE StartCell
  <2>1. events' \in Seq(EventRecords)
    BY <1>8, Started, Recorded
  <2> QED BY <1>8, <2>1 DEF StartCell, IInv, StreamsOK, Steady
<1>9. CASE EndCell
  <2>1. events' \in Seq(EventRecords)
    BY <1>9, Ended, Recorded
  <2> QED BY <1>9, <2>1 DEF EndCell, IInv, StreamsOK, Busy
<1>10. CASE WriteReceipt
  BY <1>10 DEF WriteReceipt, Fails, Ends, Failed, counts, IInv, StreamsOK, Busy
<1>11. CASE Resume
  BY <1>11 DEF Resume, evidence, IInv, StreamsOK, Steady, Busy
<1>12. CASE MakeArchive
  BY <1>12 DEF MakeArchive, evidence, Repairing, local, counts, IInv, StreamsOK, Steady, Busy,
      Repair
<1>13. CASE DropPhases
  BY <1>13 DEF DropPhases, evidence, Repairing, local, counts, Fails, Failed, Ends, IInv,
      StreamsOK, Steady, Busy, Repair
<1>14. CASE CutPhases
  <2>1. phases' \in Seq(PhaseRecords)
    BY <1>14, PhasesCut DEF CutPhases, IInv, StreamsOK, PhasesTell, Repair
  <2> QED BY <1>14, <2>1 DEF CutPhases, IInv, StreamsOK, Repair
<1>15. CASE DropEvents
  BY <1>15 DEF DropEvents, evidence, Repairing, local, counts, IInv, StreamsOK, Repair
<1>16. CASE CutEvents
  BY <1>16, EventsCut DEF CutEvents, IInv, StreamsOK, Repair
<1>17. CASE ReceiptsAgree
  BY <1>17 DEF ReceiptsAgree, evidence, Repairing, local, counts, IInv, StreamsOK, Repair
<1>18. CASE WriteResumed
  BY <1>18 DEF WriteResumed, evidence, Repairing, local, counts, IInv, StreamsOK, Repair
<1>19. CASE WriteVerifying
  BY <1>19 DEF WriteVerifying, WriteState, evidence, counts, IInv, StreamsOK, Steady
<1>20. CASE Verify
  BY <1>20 DEF Verify, evidence, counts, Fails, Failed, Ends, IInv, StreamsOK, Steady
<1>21. CASE WriteCompleted
  BY <1>21 DEF WriteCompleted, WriteState, evidence, counts, IInv, StreamsOK, Steady
<1>22. CASE SealByHand
  BY <1>22 DEF SealByHand, disk, evidence, local, counts, IInv, StreamsOK, Steady, Busy, Repair
<1>23. CASE InstallSeal
  BY <1>23 DEF InstallSeal, evidence, local, counts, IInv, StreamsOK, Steady, Busy, Repair
<1>24. CASE InstallChecksum
  BY <1>24 DEF InstallChecksum, evidence, local, counts, Ends, IInv, StreamsOK, Steady, Busy,
      Repair
<1>25. CASE Interrupted
  BY <1>25 DEF Interrupted, evidence, local, counts, Ends, Fails, Failed, IInv, StreamsOK,
      Steady, Busy, Repair
<1>26. CASE TornWrite
  BY <1>26 DEF TornWrite, evidence, local, counts, Ends, IInv, StreamsOK, Steady, Busy, Repair
<1>27. ASSUME NEW c \in Cells, RenumberReceipt(c) PROVE StreamsOK'
  BY <1>27 DEF RenumberReceipt, Repairing, local, counts, IInv, StreamsOK
<1>28. ASSUME NEW c \in Cells, MoveCell(c) PROVE StreamsOK'
  BY <1>28 DEF MoveCell, Repairing, local, counts, IInv, StreamsOK
<1>29. ASSUME NEW c \in Cells, LoseReceipt(c) PROVE StreamsOK'
  BY <1>29 DEF LoseReceipt, local, IInv, StreamsOK
<1>30. CASE UNCHANGED vars
  BY <1>30 DEF vars, disk, evidence, local, counts, IInv, StreamsOK
<1> QED BY <1>1, <1>2, <1>3, <1>4, <1>5, <1>6, <1>7, <1>8, <1>9, <1>10, <1>11, <1>12, <1>13,
    <1>14, <1>15, <1>16, <1>17, <1>18, <1>19, <1>20, <1>21, <1>22, <1>23, <1>24, <1>25, <1>26,
    <1>27, <1>28, <1>29, <1>30 DEF Next

\* There is nothing on disk before the results root.
LEMMA RootOKKept ==
    ASSUME IInv, [Next]_vars
    PROVE  RootOK'
<1>1. CASE Fresh
  BY <1>1, FileAssumption DEF Fresh, RootOK
<1>2. CASE WriteInitial
  BY <1>2, FileAssumption DEF WriteInitial, evidence, IInv, RootOK
<1>3. CASE RecordPlans
  BY <1>3, FileAssumption DEF RecordPlans, evidence, IInv, RootOK
<1>4. CASE WriteRunning
  BY <1>4, FileAssumption DEF WriteRunning, WriteState, IInv, RootOK
<1>5. CASE WritePhase
  BY <1>5, FileAssumption DEF WritePhase, evidence, IInv, RootOK
<1>6. CASE AppendPhase
  BY <1>6, FileAssumption DEF AppendPhase, IInv, RootOK
<1>7. CASE NoCellLeft
  BY <1>7, FileAssumption DEF NoCellLeft, disk, IInv, RootOK
<1>8. CASE StartCell
  BY <1>8, FileAssumption DEF StartCell, IInv, RootOK
<1>9. CASE EndCell
  BY <1>9, FileAssumption DEF EndCell, IInv, RootOK
<1>10. CASE WriteReceipt
  BY <1>10, FileAssumption DEF WriteReceipt, Fails, Ends, IInv, RootOK
<1>11. CASE Resume
  BY <1>11, FileAssumption DEF Resume, IInv, RootOK
<1>12. CASE MakeArchive
  BY <1>12, FileAssumption DEF MakeArchive, evidence, Repairing, IInv, RootOK
<1>13. CASE DropPhases
  BY <1>13, FileAssumption DEF DropPhases, evidence, Repairing, local, counts, Fails, IInv,
      RootOK
<1>14. CASE CutPhases
  BY <1>14, FileAssumption DEF CutPhases, Repairing, IInv, RootOK
<1>15. CASE DropEvents
  BY <1>15, FileAssumption DEF DropEvents, evidence, Repairing, IInv, RootOK
<1>16. CASE CutEvents
  BY <1>16, FileAssumption DEF CutEvents, Repairing, IInv, RootOK
<1>17. CASE ReceiptsAgree
  BY <1>17, FileAssumption DEF ReceiptsAgree, evidence, Repairing, IInv, RootOK
<1>18. CASE WriteResumed
  BY <1>18, FileAssumption DEF WriteResumed, evidence, Repairing, IInv, RootOK
<1>19. CASE WriteVerifying
  BY <1>19, FileAssumption DEF WriteVerifying, WriteState, IInv, RootOK
<1>20. CASE Verify
  BY <1>20, FileAssumption DEF Verify, evidence, counts, Fails, IInv, RootOK
<1>21. CASE WriteCompleted
  BY <1>21, FileAssumption DEF WriteCompleted, WriteState, IInv, RootOK
<1>22. CASE SealByHand
  BY <1>22, FileAssumption DEF SealByHand, disk, evidence, IInv, RootOK
<1>23. CASE InstallSeal
  BY <1>23, FileAssumption DEF InstallSeal, evidence, IInv, RootOK
<1>24. CASE InstallChecksum
  BY <1>24, FileAssumption DEF InstallChecksum, evidence, local, IInv, RootOK
<1>25. CASE Interrupted
  BY <1>25, FileAssumption DEF Interrupted, evidence, local, counts, Ends, IInv, RootOK
<1>26. CASE TornWrite
  BY <1>26, FileAssumption DEF TornWrite, evidence, local, IInv, RootOK
<1>27. ASSUME NEW c \in Cells, RenumberReceipt(c) PROVE RootOK'
  BY <1>27, FileAssumption DEF RenumberReceipt, Repairing, IInv, RootOK
<1>28. ASSUME NEW c \in Cells, MoveCell(c) PROVE RootOK'
  BY <1>28, FileAssumption DEF MoveCell, Repairing, IInv, RootOK
<1>29. ASSUME NEW c \in Cells, LoseReceipt(c) PROVE RootOK'
  BY <1>29, FileAssumption DEF LoseReceipt, IInv, RootOK
<1>30. CASE UNCHANGED vars
  BY <1>30 DEF vars, disk, evidence, IInv, RootOK
<1> QED BY <1>1, <1>2, <1>3, <1>4, <1>5, <1>6, <1>7, <1>8, <1>9, <1>10, <1>11, <1>12, <1>13,
    <1>14, <1>15, <1>16, <1>17, <1>18, <1>19, <1>20, <1>21, <1>22, <1>23, <1>24, <1>25, <1>26,
    <1>27, <1>28, <1>29, <1>30 DEF Next


------------------------------------------------------------------------------
(* Positions and what the phases owe *)

\* The phase a resume starts at: below it no cell is owed.
LEMMA ResumesAt ==
    /\ ResumeIndex \in 1..Verification
    /\ \A c \in Cells : PhaseOf[c] < ResumeIndex => c \in Complete
<1> DEFINE owing == {p \in 1..LastPhase : \E c \in Cells : PhaseOf[c] = p /\ c \notin Complete}
<1>1. \A c \in Cells : PhaseOf[c] \in 1..LastPhase /\ PhaseOf[c] \in Nat
  BY CellAssumption
<1>2. Verification \in Nat /\ Verification = LastPhase + 1 /\ LastPhase \in Nat
  BY CellAssumption DEF Verification
<1>3. CASE owing = {}
  <2>1. ResumeIndex = Verification
    BY <1>3 DEF ResumeIndex
  <2>2. \A c \in Cells : c \in Complete
    BY <1>1, <1>3
  <2> QED BY <1>2, <2>1, <2>2
<1>4. CASE owing # {}
  <2>1. ResumeIndex = CHOOSE p \in owing : \A q \in owing : p <= q
    BY <1>4 DEF ResumeIndex
  <2>2. owing \subseteq Nat
    OBVIOUS
  <2>3. \E p \in owing : \A q \in owing : p <= q
    BY <1>4, <2>2, LeastNatural
  <2> HIDE DEF owing
  <2>4. ResumeIndex \in owing /\ \A q \in owing : ResumeIndex <= q
    BY <2>1, <2>3
  <2>5. ResumeIndex \in 1..LastPhase
    BY <2>4 DEF owing
  <2>6. ASSUME NEW c \in Cells, PhaseOf[c] < ResumeIndex PROVE c \in Complete
    <3>1. PhaseOf[c] \notin owing
      BY <1>1, <2>4, <2>5, <2>6
    <3> QED BY <1>1, <3>1 DEF owing
  <2> QED BY <1>2, <2>5, <2>6
<1> QED BY <1>3, <1>4

\* phase, mark and cell are live ones at every place.
LEMMA PositionsKept ==
    ASSUME IInv, [Next]_vars
    PROVE  Positions'
<1>1. CASE Fresh
  BY <1>1 DEF Fresh, Positions, Busy, Repair
<1>2. CASE WriteInitial
  BY <1>2 DEF WriteInitial, evidence, local, counts, IInv, Positions, Busy, Repair
<1>3. CASE RecordPlans
  BY <1>3, CellAssumption DEF RecordPlans, Verification, evidence, local, counts, IInv,
      Positions, Busy
<1>4. CASE WriteRunning
  BY <1>4, CellAssumption DEF WriteRunning, WriteState, IInv, Positions, Busy, Phases, Seal,
      Verification, Marks
<1>5. CASE WritePhase
  BY <1>5 DEF WritePhase, evidence, local, counts, IInv, Positions, Busy, Repair
<1>6. CASE AppendPhase
  BY <1>6, CellAssumption DEF AppendPhase, IInv, Positions, Busy, Repair, Phases, Seal, Marks
<1>7. CASE NoCellLeft
  BY <1>7, CellAssumption DEF NoCellLeft, IInv, Positions, Busy, Repair, Phases, Seal, Marks
<1>8. CASE StartCell
  <2>1. cell' \in Cells /\ PhaseOf[cell'] = phase /\ cell' \notin complete
    BY <1>8, Started
  <2>2. pc = "cells" /\ UNCHANGED <<phase, mark, complete>>
    BY <1>8 DEF StartCell
  <2>3. pc' \in Busy /\ (pc' = "producer" => cell' \in Spawned)
    BY <1>8, Started DEF Busy
  <2>4. files' = files \cup {cell'}
    BY <1>8 DEF StartCell
  <2> QED BY <2>1, <2>2, <2>3, <2>4 DEF IInv, Positions, Busy, Repair
<1>9. CASE EndCell
  BY <1>9 DEF EndCell, counts, IInv, Positions, Busy, Repair
<1>10. CASE WriteReceipt
  BY <1>10 DEF WriteReceipt, Fails, Ends, IInv, Positions, Busy, Repair
<1>11. CASE Resume
  <2>1. CASE UNCHANGED <<pc, manifest, phase, mark, complete>>
    BY <1>11, <2>1 DEF Resume, IInv, Positions, Busy
  <2>2. CASE phase' = ResumeIndex /\ mark' = "STARTED" /\ pc' = "archive"
    <3>1. ResumeIndex \in 0..Verification
      BY ResumesAt
    <3> QED BY <2>2, <3>1 DEF Positions, Busy, Repair
  <2> QED BY <1>11, <2>1, <2>2 DEF Resume
<1>12. CASE MakeArchive
  BY <1>12 DEF MakeArchive, evidence, Repairing, local, counts, IInv, Positions, Busy, Repair
<1>13. CASE DropPhases
  BY <1>13 DEF DropPhases, evidence, Repairing, local, counts, Fails, Failed, Ends, IInv,
      Positions, Busy, Repair
<1>14. CASE CutPhases
  BY <1>14 DEF CutPhases, Repairing, local, counts, IInv, Positions, Busy, Repair
<1>15. CASE DropEvents
  BY <1>15 DEF DropEvents, evidence, Repairing, local, counts, IInv, Positions, Busy, Repair
<1>16. CASE CutEvents
  BY <1>16 DEF CutEvents, Repairing, local, counts, IInv, Positions, Busy, Repair
<1>17. CASE ReceiptsAgree
  BY <1>17 DEF ReceiptsAgree, evidence, Repairing, local, counts, IInv, Positions, Busy, Repair
<1>18. CASE WriteResumed
  BY <1>18 DEF WriteResumed, Repairing, local, IInv, Positions, Busy, Repair
<1>19. CASE WriteVerifying
  BY <1>19, CellAssumption DEF WriteVerifying, WriteState, IInv, Positions, Busy, Phases, Seal,
      Verification, Marks
<1>20. CASE Verify
  BY <1>20, CellAssumption DEF Verify, Fails, Ends, IInv, Positions, Busy, Repair, Phases,
      Seal, Verification, Marks
<1>21. CASE WriteCompleted
  BY <1>21 DEF WriteCompleted, WriteState, evidence, counts, Positions, Busy, Repair
<1>22. CASE SealByHand
  BY <1>22 DEF SealByHand, disk, evidence, local, counts, Positions, Busy, Repair
<1>23. CASE InstallSeal
  BY <1>23 DEF InstallSeal, evidence, local, counts, Positions, Busy, Repair
<1>24. CASE InstallChecksum
  BY <1>24 DEF InstallChecksum, evidence, local, counts, Ends, Positions, Busy, Repair
<1>25. CASE Interrupted
  BY <1>25 DEF Interrupted, evidence, local, counts, Ends, Fails, Failed, Positions, Busy,
      Repair
<1>26. CASE TornWrite
  BY <1>26 DEF TornWrite, evidence, local, counts, Ends, Positions, Busy, Repair
<1>27. ASSUME NEW c \in Cells, RenumberReceipt(c) PROVE Positions'
  BY <1>27 DEF RenumberReceipt, Repairing, local, counts, IInv, Positions
<1>28. ASSUME NEW c \in Cells, MoveCell(c) PROVE Positions'
  BY <1>28 DEF MoveCell, Repairing, local, counts, IInv, Positions, Busy
<1>29. ASSUME NEW c \in Cells, LoseReceipt(c) PROVE Positions'
  BY <1>29 DEF LoseReceipt, local, IInv, Positions
<1>30. CASE UNCHANGED vars
  BY <1>30 DEF vars, disk, evidence, local, counts, IInv, Positions
<1> QED BY <1>1, <1>2, <1>3, <1>4, <1>5, <1>6, <1>7, <1>8, <1>9, <1>10, <1>11, <1>12, <1>13,
    <1>14, <1>15, <1>16, <1>17, <1>18, <1>19, <1>20, <1>21, <1>22, <1>23, <1>24, <1>25, <1>26,
    <1>27, <1>28, <1>29, <1>30 DEF Next

\* A phase is left when its cells are complete: by NextCell, or by a resume.
LEMMA NothingOwedKept ==
    ASSUME IInv, [Next]_vars
    PROVE  NothingOwed'
<1>1. CASE Fresh
  BY <1>1 DEF Fresh, NothingOwed, Steady, Busy, Repair
<1>2. CASE WriteInitial
  BY <1>2 DEF WriteInitial, NothingOwed, Busy, Repair
<1>3. CASE RecordPlans
  <2>1. phase = 0 /\ mark = "STARTED" /\ pc' = "running" /\ UNCHANGED <<phase, mark, complete>>
    BY <1>3 DEF RecordPlans, local, IInv, Positions
  <2>2. Left' = {}
    BY <2>1, CellAssumption DEF Left
  <2> QED BY <2>1, <2>2 DEF NothingOwed, Steady, Busy, Repair
<1>4. CASE WriteRunning
  <2>1. /\ pc = "running" /\ UNCHANGED <<phase, mark, complete>> /\ Left \subseteq complete
        /\ pc' = IF phase = Verification THEN "verifying" ELSE "phase"
    BY <1>4 DEF WriteRunning, WriteState, IInv, NothingOwed, Steady
  <2>2. Left' = Left
    BY <2>1 DEF Left
  <2>3. phase = Verification => complete = Cells
    <3>1. \A c \in Cells : PhaseOf[c] < Verification
      BY CellAssumption DEF Verification
    <3> QED BY <2>1, <3>1 DEF Left, IInv, FilesOK
  <2> QED BY <2>1, <2>2, <2>3 DEF NothingOwed
<1>5. CASE WritePhase
  BY <1>5 DEF WritePhase, evidence, local, counts, IInv, NothingOwed, Left, Steady
<1>6. CASE AppendPhase
  <2>1. /\ pc = "stream" /\ UNCHANGED complete /\ Left \subseteq complete
        /\ phase \in Phases /\ mark \in Marks /\ complete \subseteq Cells
    BY <1>6 DEF AppendPhase, IInv, NothingOwed, Positions, FilesOK, Steady
  <2>2. \A c \in Cells : PhaseOf[c] \in 1..LastPhase /\ PhaseOf[c] \in Nat
    BY CellAssumption
  <2>3. CASE mark = "COMPLETED" /\ phase = LastPhase
    <3>1. Cells \subseteq Left
      BY <2>2, <2>3, CellAssumption DEF Left
    <3> QED BY <1>6, <2>1, <2>3, <3>1 DEF AppendPhase, NothingOwed, Busy, Repair
  <2>4. CASE mark = "STARTED" /\ pc' # "verifying"
    <3>1. Left' \subseteq Left
      BY <1>6, <2>1, <2>2, <2>4 DEF AppendPhase, Left, Phases
    <3> QED BY <2>1, <2>4, <3>1 DEF NothingOwed
  <2>5. CASE mark = "COMPLETED" /\ phase # LastPhase
    <3>1. phase' = phase + 1 /\ mark' = "STARTED" /\ pc' = "phase"
      BY <1>6, <2>5 DEF AppendPhase
    <3>2. Left' \subseteq Left
      BY <2>1, <2>2, <2>5, <3>1 DEF Left, Phases
    <3> QED BY <2>1, <3>1, <3>2 DEF NothingOwed
  <2>6. mark = "STARTED" => pc' # "verifying"
    BY <1>6 DEF AppendPhase
  <2> QED BY <2>1, <2>3, <2>4, <2>5, <2>6 DEF Marks
<1>7. CASE NoCellLeft
  <2>1. /\ pc = "cells" /\ pc' = "phase" /\ UNCHANGED <<phase, complete>> /\ Left \subseteq complete
        /\ Pending = {}
    BY <1>7 DEF NoCellLeft, IInv, NothingOwed, Steady
  <2>2. Left' \subseteq complete
    BY <2>1 DEF Left, Pending
  <2> QED BY <2>1, <2>2 DEF NothingOwed
<1>8. CASE StartCell
  BY <1>8 DEF StartCell, counts, IInv, NothingOwed, Left, Steady, Busy, Repair
<1>9. CASE EndCell
  BY <1>9 DEF EndCell, counts, IInv, NothingOwed, Left, Busy
<1>10. CASE WriteReceipt
  <2>1. UNCHANGED <<phase, mark>> /\ complete \subseteq complete' /\ pc' \in {"idle", "cells"}
    BY <1>10 DEF WriteReceipt, Fails, Ends
  <2>2. Left' = Left /\ Left \subseteq complete
    BY <1>10, <2>1 DEF WriteReceipt, Left, IInv, NothingOwed, Busy
  <2> QED BY <2>1, <2>2 DEF NothingOwed, Steady, Busy, Repair
<1>11. CASE Resume
  <2>1. CASE UNCHANGED <<pc, phase, mark, complete>>
    BY <1>11, <2>1 DEF Resume, NothingOwed, Steady, Busy, Repair
  <2>2. CASE phase' = ResumeIndex /\ mark' = "STARTED" /\ pc' = "archive" /\ complete' = Complete
    <3>1. Left' \subseteq complete'
      BY <2>2, ResumesAt DEF Left
    <3> QED BY <2>2, <3>1 DEF NothingOwed
  <2> QED BY <1>11, <2>1, <2>2 DEF Resume
<1>12. CASE MakeArchive
  BY <1>12 DEF MakeArchive, evidence, Repairing, local, counts, IInv, NothingOwed, Left, Repair
<1>13. CASE DropPhases
  BY <1>13 DEF DropPhases, evidence, Repairing, local, counts, Fails, Failed, Ends, IInv,
      NothingOwed, Left, Repair
<1>14. CASE CutPhases
  BY <1>14 DEF CutPhases, Repairing, local, counts, IInv, NothingOwed, Left, Repair
<1>15. CASE DropEvents
  BY <1>15 DEF DropEvents, evidence, Repairing, local, counts, IInv, NothingOwed, Left, Repair
<1>16. CASE CutEvents
  BY <1>16 DEF CutEvents, Repairing, local, counts, IInv, NothingOwed, Left, Repair
<1>17. CASE ReceiptsAgree
  BY <1>17 DEF ReceiptsAgree, evidence, Repairing, local, counts, IInv, NothingOwed, Left,
      Repair
<1>18. CASE WriteResumed
  BY <1>18 DEF WriteResumed, evidence, Repairing, local, counts, IInv, NothingOwed, Left, Repair
<1>19. CASE WriteVerifying
  <2>1. /\ complete' = Cells /\ pc' = "phase"
    BY <1>19 DEF WriteVerifying, WriteState, IInv, NothingOwed
  <2>2. Left' \subseteq complete'
    BY <2>1 DEF Left
  <2> QED BY <2>1, <2>2 DEF NothingOwed
<1>20. CASE Verify
  <2>1. CASE Fails
    BY <2>1 DEF Fails, Ends, NothingOwed, Steady, Busy, Repair
  <2>2. CASE pc' = "phase" /\ mark' = "COMPLETED"
    <3>1. UNCHANGED <<phase, complete>> /\ Left \subseteq complete /\ phase = Verification /\ complete \subseteq Cells
      BY <1>20 DEF Verify, IInv, NothingOwed, Positions, FilesOK, Steady
    <3>2. \A c \in Cells : PhaseOf[c] < phase
      BY <3>1, CellAssumption DEF Verification
    <3>3. Left' \subseteq complete'
      BY <3>1, <3>2 DEF Left
    <3> QED BY <2>2, <3>3 DEF NothingOwed
  <2> QED BY <1>20, <2>1, <2>2 DEF Verify
<1>21. CASE WriteCompleted
  BY <1>21 DEF WriteCompleted, WriteState, evidence, counts, IInv, NothingOwed, Left, Steady
<1>22. CASE SealByHand
  BY <1>22 DEF SealByHand, NothingOwed, Steady, Busy, Repair
<1>23. CASE InstallSeal
  BY <1>23 DEF InstallSeal, NothingOwed, Steady, Busy, Repair
<1>24. CASE InstallChecksum
  BY <1>24 DEF InstallChecksum, Ends, NothingOwed, Steady, Busy, Repair
<1>25. CASE Interrupted
  BY <1>25 DEF Interrupted, Ends, Fails, NothingOwed, Steady, Busy, Repair
<1>26. CASE TornWrite
  BY <1>26 DEF TornWrite, Ends, NothingOwed, Steady, Busy, Repair
<1>27. ASSUME NEW c \in Cells, RenumberReceipt(c) PROVE NothingOwed'
  BY <1>27 DEF RenumberReceipt, Repairing, local, counts, IInv, NothingOwed, Left
<1>28. ASSUME NEW c \in Cells, MoveCell(c) PROVE NothingOwed'
  BY <1>28 DEF MoveCell, Repairing, local, counts, IInv, NothingOwed, Left
<1>29. ASSUME NEW c \in Cells, LoseReceipt(c) PROVE NothingOwed'
  BY <1>29 DEF LoseReceipt, local, IInv, NothingOwed, Left
<1>30. CASE UNCHANGED vars
  BY <1>30 DEF vars, disk, evidence, local, counts, IInv, NothingOwed, Left
<1> QED BY <1>1, <1>2, <1>3, <1>4, <1>5, <1>6, <1>7, <1>8, <1>9, <1>10, <1>11, <1>12, <1>13,
    <1>14, <1>15, <1>16, <1>17, <1>18, <1>19, <1>20, <1>21, <1>22, <1>23, <1>24, <1>25, <1>26,
    <1>27, <1>28, <1>29, <1>30 DEF Next


------------------------------------------------------------------------------
(* Receipts, archives and the phase stream *)

\* Receipts stay in owned directories; incomplete cells have none.
LEMMA ReceiptsOwnedKept ==
    ASSUME IInv, [Next]_vars
    PROVE  ReceiptsOwned'
<1>1. CASE Fresh
  BY <1>1 DEF Fresh, evidence, IInv, RootOK, ReceiptsOwned
<1>2. CASE WriteInitial
  BY <1>2 DEF WriteInitial, evidence, local, counts, IInv, ReceiptsOwned, Steady
<1>3. CASE RecordPlans
  BY <1>3 DEF RecordPlans, evidence, local, counts, IInv, ReceiptsOwned, Steady
<1>4. CASE WriteRunning
  BY <1>4 DEF WriteRunning, WriteState, evidence, counts, IInv, ReceiptsOwned, Steady
<1>5. CASE WritePhase
  BY <1>5 DEF WritePhase, evidence, local, counts, IInv, ReceiptsOwned, Steady
<1>6. CASE AppendPhase
  BY <1>6 DEF AppendPhase, counts, IInv, ReceiptsOwned, Steady
<1>7. CASE NoCellLeft
  BY <1>7 DEF NoCellLeft, disk, evidence, counts, IInv, ReceiptsOwned, Steady
<1>8. CASE StartCell
  <2>1. /\ pc = "cells" /\ UNCHANGED <<receipt, complete>> /\ files \subseteq files'
    BY <1>8 DEF StartCell
  <2> QED BY <2>1 DEF IInv, ReceiptsOwned, Steady
<1>9. CASE EndCell
  BY <1>9 DEF EndCell, counts, IInv, ReceiptsOwned, Busy
<1>10. CASE WriteReceipt
  <2>1. /\ UNCHANGED files /\ pc = "receipt" /\ cell \in Cells /\ cell \in files
        /\ \A c \in Cells : c # cell => receipt'[c] = receipt[c]
    BY <1>10, ReceiptTyped DEF WriteReceipt, IInv, Positions, Busy
  <2>2. pc' = "idle" \/ complete' = complete \cup {cell}
    BY <1>10 DEF WriteReceipt, Fails, Ends
  <2> QED BY <2>1, <2>2 DEF IInv, ReceiptsOwned, Steady, Busy
<1>11. CASE Resume
  <2>1. UNCHANGED <<receipt, files>> /\ (pc' = "archive" \/ UNCHANGED <<pc, complete>>)
    BY <1>11 DEF Resume, evidence
  <2> QED BY <2>1 DEF IInv, ReceiptsOwned, Steady, Busy
<1>12. CASE MakeArchive
  BY <1>12 DEF MakeArchive, evidence, Repairing, local, counts, IInv, ReceiptsOwned, Steady,
      Busy
<1>13. CASE DropPhases
  BY <1>13 DEF DropPhases, evidence, Repairing, local, Fails, Ends, IInv, ReceiptsOwned,
      Steady, Busy
<1>14. CASE CutPhases
  BY <1>14 DEF CutPhases, Repairing, local, counts, IInv, ReceiptsOwned, Steady, Busy
<1>15. CASE DropEvents
  BY <1>15 DEF DropEvents, evidence, Repairing, local, counts, IInv, ReceiptsOwned, Steady, Busy
<1>16. CASE CutEvents
  BY <1>16 DEF CutEvents, Repairing, local, counts, IInv, ReceiptsOwned, Steady, Busy
<1>17. CASE ReceiptsAgree
  BY <1>17 DEF ReceiptsAgree, evidence, Repairing, local, counts, IInv, ReceiptsOwned, Steady,
      Busy
<1>18. CASE WriteResumed
  <2>1. \A c \in Cells \ complete : receipt[c] = None
    BY <1>18 DEF WriteResumed, Stale, IInv, ReceiptsOwned
  <2> QED BY <1>18, <2>1 DEF WriteResumed, evidence, Repairing, local, IInv, ReceiptsOwned
<1>19. CASE WriteVerifying
  BY <1>19 DEF WriteVerifying, WriteState, evidence, counts, IInv, ReceiptsOwned, Steady
<1>20. CASE Verify
  BY <1>20 DEF Verify, evidence, IInv, ReceiptsOwned, Steady
<1>21. CASE WriteCompleted
  BY <1>21 DEF WriteCompleted, WriteState, evidence, counts, IInv, ReceiptsOwned, Steady
<1>22. CASE SealByHand
  BY <1>22 DEF SealByHand, disk, evidence, local, counts, IInv, ReceiptsOwned, Steady, Busy
<1>23. CASE InstallSeal
  BY <1>23 DEF InstallSeal, evidence, local, counts, IInv, ReceiptsOwned, Steady, Busy
<1>24. CASE InstallChecksum
  BY <1>24 DEF InstallChecksum, evidence, local, counts, Ends, IInv, ReceiptsOwned, Steady, Busy
<1>25. CASE Interrupted
  BY <1>25 DEF Interrupted, evidence, Fails, Ends, IInv, ReceiptsOwned, Steady, Busy
<1>26. CASE TornWrite
  <2>1. /\ pc' = "idle" /\ UNCHANGED files
        /\ \/ UNCHANGED receipt
           \/ pc = "receipt" /\ receipt' = [receipt EXCEPT ![cell] = Torn]
           \/ \E c \in Misnumbered : pc = "renumber" /\ receipt' = [receipt EXCEPT ![c] = Torn]
    BY <1>26 DEF TornWrite, evidence, Ends
  <2>2. receipt \in [Cells -> Receipts \cup {None, Torn}] /\ \A c \in Cells : receipt[c] # None => c \in files
    BY DEF IInv, FilesOK, ReceiptsOwned
  <2>3. pc = "receipt" => cell \in files
    BY DEF IInv, Positions, Busy
  <2>4. pc = "renumber" => \A c \in Misnumbered : receipt[c] # None
    BY RenumberedTyped, FileAssumption
  <2>5. \A c \in Cells : receipt'[c] # None => c \in files'
    BY <2>1, <2>2, <2>3, <2>4
  <2> QED BY <2>1, <2>5 DEF ReceiptsOwned, Steady, Busy
<1>27. ASSUME NEW c \in Cells, RenumberReceipt(c) PROVE ReceiptsOwned'
  <2>1. receipt[c] # None /\ pc' = "renumber"
    BY <1>27, RenumberedTyped, FileAssumption DEF RenumberReceipt
  <2> QED BY <1>27, <2>1 DEF RenumberReceipt, IInv, ReceiptsOwned, Steady, Busy
<1>28. ASSUME NEW c \in Cells, MoveCell(c) PROVE ReceiptsOwned'
  <2>1. /\ receipt' = [receipt EXCEPT ![c] = None] /\ files' = files \ {c} /\ pc' = "move"
    BY <1>28 DEF MoveCell
  <2> QED BY <2>1 DEF IInv, FilesOK, ReceiptsOwned, Steady, Busy
<1>29. ASSUME NEW c \in Cells, LoseReceipt(c) PROVE ReceiptsOwned'
  <2>1. /\ receipt' = [receipt EXCEPT ![c] = None] /\ UNCHANGED files /\ pc' = "idle"
    BY <1>29 DEF LoseReceipt
  <2> QED BY <2>1 DEF IInv, FilesOK, ReceiptsOwned, Steady, Busy
<1>30. CASE UNCHANGED vars
  BY <1>30 DEF vars, disk, evidence, local, counts, IInv, ReceiptsOwned
<1> QED BY <1>1, <1>2, <1>3, <1>4, <1>5, <1>6, <1>7, <1>8, <1>9, <1>10, <1>11, <1>12, <1>13,
    <1>14, <1>15, <1>16, <1>17, <1>18, <1>19, <1>20, <1>21, <1>22, <1>23, <1>24, <1>25, <1>26,
    <1>27, <1>28, <1>29, <1>30 DEF Next

\* A resume archives before it cuts.
LEMMA ArchiveHoldsKept ==
    ASSUME IInv, [Next]_vars
    PROVE  ArchiveHolds'
<1>1. CASE Fresh
  BY <1>1 DEF Fresh, ArchiveHolds, Repair
<1>2. CASE WriteInitial
  BY <1>2 DEF WriteInitial, ArchiveHolds, Repair
<1>3. CASE RecordPlans
  BY <1>3 DEF RecordPlans, ArchiveHolds, Repair
<1>4. CASE WriteRunning
  BY <1>4 DEF WriteRunning, WriteState, ArchiveHolds, Repair
<1>5. CASE WritePhase
  BY <1>5 DEF WritePhase, ArchiveHolds, Repair
<1>6. CASE AppendPhase
  BY <1>6 DEF AppendPhase, ArchiveHolds, Repair
<1>7. CASE NoCellLeft
  BY <1>7 DEF NoCellLeft, ArchiveHolds, Repair
<1>8. CASE StartCell
  BY <1>8 DEF StartCell, ArchiveHolds, Repair
<1>9. CASE EndCell
  BY <1>9 DEF EndCell, ArchiveHolds, Repair
<1>10. CASE WriteReceipt
  BY <1>10 DEF WriteReceipt, Fails, Ends, ArchiveHolds, Repair
<1>11. CASE Resume
  <2>1. pc' = "archive" \/ (pc' = "idle" /\ pc = "idle")
    BY <1>11 DEF Resume
  <2> QED BY <2>1 DEF ArchiveHolds, Repair
<1>12. CASE MakeArchive
  <2>1. Attempt \in Attempts /\ superseded \in [Attempts -> Archives \cup {None}]
    BY <1>12, AttemptTyped DEF MakeArchive, IInv, FilesOK, Repair
  <2> DEFINE w == [phases |-> <<>>, events |-> <<>>, receipts |-> [c \in Cells |-> None]]
  <2>2. w \in Archives
    BY EmptySeq DEF Archives
  <2>3. superseded' = [superseded EXCEPT ![Attempt] = w] /\ pc' = "dropPhases" /\ Attempt' = Attempt
    BY <1>12 DEF MakeArchive, Attempt
  <2> HIDE DEF w
  <2> QED BY <2>1, <2>2, <2>3 DEF ArchiveHolds
<1>13. CASE DropPhases
  <2>1. CASE Fails
    BY <2>1 DEF Fails, Ends, ArchiveHolds, Repair
  <2>2. CASE phases # Torn /\ IsPrefix(PhasesBelow(phase), Observed)
    <3>1. /\ Attempt \in Attempts /\ superseded[Attempt] \in Archives
          /\ superseded \in [Attempts -> Archives \cup {None}]
      BY <1>13, AttemptTyped DEF DropPhases, Repair, IInv, ArchiveHolds, FilesOK
    <3> DEFINE v == SubSeq(phases, 2 * phase + 1, Len(phases))
               w == [superseded[Attempt] EXCEPT !.phases = v]
    <3>2. v \in Seq(PhaseRecords)
      <4>1. phases \in Seq(PhaseRecords)
        BY <2>2 DEF IInv, StreamsOK
      <4>2. pc \in Repair
        BY <1>13 DEF DropPhases, Repair
      <4> QED BY <2>2, <4>1, <4>2, PhasesCut
    <3>3. w \in Archives /\ w.phases = v
      BY <3>1, <3>2, Archived
    <3>4. /\ superseded' = [superseded EXCEPT ![Attempt] = w] /\ pc' = "cutPhases"
          /\ Attempt' = Attempt /\ v' = v
      BY <1>13, <2>2 DEF DropPhases, Repairing, local, evidence, Attempt
    <3>5. v' = SubSeq(phases, 2 * phase + 1, Len(phases))'
      OBVIOUS
    <3> HIDE DEF v, w
    <3>6. superseded'[Attempt'] = w
      BY <3>1, <3>4
    <3> QED BY <3>3, <3>4, <3>5, <3>6 DEF ArchiveHolds
  <2> QED BY <1>13, <2>1, <2>2 DEF DropPhases
<1>14. CASE CutPhases
  BY <1>14 DEF CutPhases, Repairing, IInv, ArchiveHolds, Attempt, Repair
<1>15. CASE DropEvents
  <2>1. /\ Attempt \in Attempts /\ superseded[Attempt] \in Archives
        /\ superseded \in [Attempts -> Archives \cup {None}]
    BY <1>15, AttemptTyped DEF DropEvents, Repair, IInv, ArchiveHolds, FilesOK
  <2> DEFINE v == Subsequence(events, DOMAIN events \ Retained)
             w == [superseded[Attempt] EXCEPT !.events = v]
  <2>2. v \in Seq(EventRecords)
    BY <1>15, Listed DEF DropEvents, Repair, IInv, StreamsOK
  <2>3. w \in Archives /\ w.events = v
    BY <2>1, <2>2, Archived
  <2>4. /\ superseded' = [superseded EXCEPT ![Attempt] = w] /\ pc' = "cutEvents"
        /\ Attempt' = Attempt /\ UNCHANGED <<events, complete>>
    BY <1>15 DEF DropEvents, Repairing, local, evidence, Attempt
  <2>5. Subsequence(events, DOMAIN events \ Retained)' = v
    BY <2>4 DEF Subsequence, Retained
  <2> HIDE DEF v, w
  <2>6. superseded'[Attempt'] = w
    BY <2>1, <2>4
  <2> QED BY <2>3, <2>4, <2>5, <2>6 DEF ArchiveHolds
<1>16. CASE CutEvents
  BY <1>16 DEF CutEvents, Repairing, IInv, ArchiveHolds, Attempt, Repair
<1>17. CASE ReceiptsAgree
  BY <1>17 DEF ReceiptsAgree, evidence, Repairing, IInv, ArchiveHolds, Attempt, Repair
<1>18. CASE WriteResumed
  BY <1>18 DEF WriteResumed, ArchiveHolds, Repair
<1>19. CASE WriteVerifying
  BY <1>19 DEF WriteVerifying, WriteState, ArchiveHolds, Repair
<1>20. CASE Verify
  BY <1>20 DEF Verify, Fails, Ends, ArchiveHolds, Repair
<1>21. CASE WriteCompleted
  BY <1>21 DEF WriteCompleted, WriteState, ArchiveHolds, Repair
<1>22. CASE SealByHand
  BY <1>22 DEF SealByHand, ArchiveHolds, Repair
<1>23. CASE InstallSeal
  BY <1>23 DEF InstallSeal, ArchiveHolds, Repair
<1>24. CASE InstallChecksum
  BY <1>24 DEF InstallChecksum, Ends, ArchiveHolds, Repair
<1>25. CASE Interrupted
  BY <1>25 DEF Interrupted, Ends, Fails, ArchiveHolds, Repair
<1>26. CASE TornWrite
  BY <1>26 DEF TornWrite, Ends, ArchiveHolds, Repair
<1>27. ASSUME NEW c \in Cells, RenumberReceipt(c) PROVE ArchiveHolds'
  BY <1>27 DEF RenumberReceipt, Repairing, IInv, ArchiveHolds, Attempt
<1>28. ASSUME NEW c \in Cells, MoveCell(c) PROVE ArchiveHolds'
  <2>1. /\ Attempt \in Attempts /\ superseded[Attempt] \in Archives
        /\ superseded \in [Attempts -> Archives \cup {None}]
        /\ receipt \in [Cells -> Receipts \cup {None, Torn}]
    BY <1>28, AttemptTyped DEF MoveCell, Repair, IInv, ArchiveHolds, FilesOK
  <2> DEFINE w == [superseded[Attempt] EXCEPT !.receipts[c] = receipt[c]]
  <2>2. w \in Archives
    BY <2>1, Archived
  <2>3. superseded' = [superseded EXCEPT ![Attempt] = w] /\ pc' = "move" /\ Attempt' = Attempt
    BY <1>28 DEF MoveCell, Attempt
  <2> HIDE DEF w
  <2> QED BY <2>1, <2>2, <2>3 DEF ArchiveHolds
<1>29. ASSUME NEW c \in Cells, LoseReceipt(c) PROVE ArchiveHolds'
  BY <1>29 DEF LoseReceipt, ArchiveHolds, Repair
<1>30. CASE UNCHANGED vars
  BY <1>30 DEF vars, disk, evidence, local, IInv, ArchiveHolds, Attempt, Retained
<1> QED BY <1>1, <1>2, <1>3, <1>4, <1>5, <1>6, <1>7, <1>8, <1>9, <1>10, <1>11, <1>12, <1>13,
    <1>14, <1>15, <1>16, <1>17, <1>18, <1>19, <1>20, <1>21, <1>22, <1>23, <1>24, <1>25, <1>26,
    <1>27, <1>28, <1>29, <1>30 DEF Next

\* The phase stream tells of the phases done, whoever did them.
LEMMA PhasesTellKept ==
    ASSUME IInv, [Next]_vars
    PROVE  PhasesTell'
<1>1. CASE Fresh
  <2>1. phases' = <<>> /\ phase' = 0 /\ pc' = "create"
    BY <1>1 DEF Fresh, evidence, IInv, RootOK
  <2>2. Observed' = Seen(<<>>) /\ Seen(<<>>) = <<>>
    <3>1. <<>> \in Seq(PhaseRecords) /\ Len(<<>>) = 0
      BY EmptySeq
    <3>2. Seen(<<>>) \in Seq(Nat \X Marks) /\ Len(Seen(<<>>)) = 0
      BY <3>1, SeenTyped
    <3>3. Seen(<<>>) = <<>>
      BY <3>2, EmptySeq
    <3> QED BY <2>1, <3>3 DEF Observed, Seen
  <2>3. PhasesBelow(0) = <<>>
    <3>1. PhasesBelow(0) \in Seq(Nat \X Marks) /\ Len(PhasesBelow(0)) = 0
      BY BelowTyped
    <3> QED BY <3>1, EmptySeq
  <2> QED BY <2>1, <2>2, <2>3 DEF PhasesTell, Busy
<1>2. CASE WriteInitial
  <2>1. UNCHANGED <<phases, phase, mark>>
    BY <1>2 DEF WriteInitial, evidence, local
  <2>2. UNCHANGED <<Observed, PhasesBelow(phase), Begun>>
    BY <2>1 DEF Observed, PhasesBelow, Begun
  <2> QED BY <1>2, <2>1, <2>2 DEF WriteInitial, IInv, PhasesTell, Busy
<1>3. CASE RecordPlans
  <2>1. UNCHANGED <<phases, phase, mark>>
    BY <1>3 DEF RecordPlans, evidence, local
  <2>2. UNCHANGED <<Observed, PhasesBelow(phase), Begun>>
    BY <2>1 DEF Observed, PhasesBelow, Begun
  <2> QED BY <1>3, <2>1, <2>2 DEF RecordPlans, IInv, PhasesTell, Busy
<1>4. CASE WriteRunning
  <2>1. UNCHANGED <<phases, phase, mark>>
    BY <1>4 DEF WriteRunning, WriteState, evidence
  <2>2. UNCHANGED <<Observed, PhasesBelow(phase), Begun>>
    BY <2>1 DEF Observed, PhasesBelow, Begun
  <2> QED BY <1>4, <2>1, <2>2 DEF WriteRunning, WriteState, IInv, PhasesTell, Positions, Busy
<1>5. CASE WritePhase
  <2>1. UNCHANGED <<phases, phase, mark>>
    BY <1>5 DEF WritePhase, evidence, local
  <2>2. UNCHANGED <<Observed, PhasesBelow(phase), Begun>>
    BY <2>1 DEF Observed, PhasesBelow, Begun
  <2> QED BY <1>5, <2>1, <2>2 DEF WritePhase, IInv, PhasesTell, Busy
<1>6. CASE AppendPhase
  <2>1. /\ phase \in Nat /\ Observed' = Append(Observed, <<phase, mark>>)
        /\ Observed = (IF mark = "STARTED" THEN PhasesBelow(phase) ELSE Begun)
    BY <1>6, PhaseRecorded DEF AppendPhase, IInv, PhasesTell
  <2>2. phase \in Phases /\ mark \in Marks /\ (phase = Seal => mark = "STARTED")
    BY <1>6 DEF AppendPhase, IInv, Positions
  <2>3. CASE mark = "STARTED"
    <3>1. Observed' = Begun
      BY <2>1, <2>3 DEF Begun
    <3>2. phase' = phase => Begun' = Begun
      BY DEF Begun, PhasesBelow
    <3>3. UNCHANGED phase
      BY <1>6, <2>2, <2>3, CellAssumption DEF AppendPhase, Phases, Verification, Seal
    <3>4. pc' \in {"phase", "cells", "verify", "finish"} /\ (pc' = "phase" => mark' = "COMPLETED")
      BY <1>6, <2>2, <2>3, CellAssumption DEF AppendPhase, Phases, Verification, Seal
    <3> QED BY <3>1, <3>2, <3>3, <3>4 DEF PhasesTell, Busy
  <2>4. CASE mark = "COMPLETED"
    <3>1. Observed' = PhasesBelow(phase + 1)
      BY <2>1, <2>4, BelowNext DEF Begun
    <3>2. CASE phase = LastPhase
      <4>1. pc' = "verifying" /\ phase' = LastPhase
        BY <1>6, <2>4, <3>2 DEF AppendPhase
      <4> QED BY <3>1, <3>2, <4>1 DEF PhasesTell, Busy, Verification
    <3>3. CASE phase # LastPhase
      <4>1. pc' = "phase" /\ phase' = phase + 1 /\ mark' = "STARTED"
        BY <1>6, <2>4, <3>3 DEF AppendPhase
      <4>2. PhasesBelow(phase)' = PhasesBelow(phase + 1)
        BY <4>1 DEF PhasesBelow
      <4> QED BY <3>1, <4>1, <4>2 DEF PhasesTell, Busy
    <3> QED BY <3>2, <3>3
  <2> QED BY <2>2, <2>3, <2>4 DEF Marks
<1>7. CASE NoCellLeft
  <2>1. UNCHANGED <<phases, phase>> /\ pc = "cells" /\ pc' = "phase" /\ mark' = "COMPLETED"
    BY <1>7 DEF NoCellLeft, disk, evidence
  <2>2. UNCHANGED <<Observed, Begun>>
    BY <2>1 DEF Observed, PhasesBelow, Begun
  <2> QED BY <2>1, <2>2 DEF IInv, PhasesTell, Busy
<1>8. CASE StartCell
  <2>1. UNCHANGED <<phases, phase, mark>>
    BY <1>8 DEF StartCell
  <2>2. UNCHANGED <<Observed, PhasesBelow(phase), Begun>>
    BY <2>1 DEF Observed, PhasesBelow, Begun
  <2> QED BY <1>8, <2>1, <2>2 DEF StartCell, IInv, PhasesTell, Positions, Busy, Repair
<1>9. CASE EndCell
  <2>1. UNCHANGED <<phases, phase, mark>>
    BY <1>9 DEF EndCell
  <2>2. UNCHANGED <<Observed, PhasesBelow(phase), Begun>>
    BY <2>1 DEF Observed, PhasesBelow, Begun
  <2> QED BY <1>9, <2>1, <2>2 DEF EndCell, IInv, PhasesTell, Busy
<1>10. CASE WriteReceipt
  <2>1. UNCHANGED <<phases, phase, mark>>
    BY <1>10 DEF WriteReceipt
  <2>2. UNCHANGED <<Observed, PhasesBelow(phase), Begun>>
    BY <2>1 DEF Observed, PhasesBelow, Begun
  <2> QED BY <1>10, <2>1, <2>2 DEF WriteReceipt, Fails, Ends, IInv, PhasesTell, Busy
<1>11. CASE Resume
  <2>1. pc' = "archive" \/ (pc' = "idle" /\ pc = "idle")
    BY <1>11 DEF Resume
  <2> QED BY <2>1 DEF PhasesTell, Busy
<1>12. CASE MakeArchive
  <2>1. UNCHANGED <<phases, phase, mark>>
    BY <1>12 DEF MakeArchive, evidence, Repairing, local
  <2>2. UNCHANGED <<Observed, PhasesBelow(phase), Begun>>
    BY <2>1 DEF Observed, PhasesBelow, Begun
  <2> QED BY <1>12, <2>1, <2>2 DEF MakeArchive, PhasesTell, Busy
<1>13. CASE DropPhases
  <2>1. CASE Fails
    BY <2>1 DEF Fails, Ends, PhasesTell, Busy
  <2>2. CASE IsPrefix(PhasesBelow(phase), Observed) /\ pc' = "cutPhases"
    <3>1. UNCHANGED <<phases, phase>>
      BY <1>13 DEF DropPhases, Repairing, local, evidence
    <3>2. UNCHANGED <<Observed, PhasesBelow(phase)>>
      BY <3>1 DEF Observed, PhasesBelow
    <3>3. IsPrefix(PhasesBelow(phase), Observed)'
      BY <2>2, <3>2 DEF IsPrefix
    <3> QED BY <2>2, <3>3 DEF PhasesTell, Busy
  <2> QED BY <1>13, <2>1, <2>2 DEF DropPhases
<1>14. CASE CutPhases
  <2>1. /\ pc = "cutPhases" /\ pc' = "dropEvents" /\ UNCHANGED phase
        /\ phases' = SubSeq(phases, 1, 2 * phase)
    BY <1>14 DEF CutPhases, Repairing, local
  <2>2. Seen(SubSeq(phases, 1, 2 * phase)) = PhasesBelow(phase)
    BY <2>1, PhasesCut DEF IInv, StreamsOK, PhasesTell, Repair
  <2>3. Observed' = PhasesBelow(phase)
    BY <2>1, <2>2 DEF Observed, Seen
  <2>4. PhasesBelow(phase)' = PhasesBelow(phase)
    BY <2>1 DEF PhasesBelow
  <2> QED BY <2>1, <2>3, <2>4 DEF PhasesTell, Busy
<1>15. CASE DropEvents
  <2>1. UNCHANGED <<phases, phase, mark>>
    BY <1>15 DEF DropEvents, evidence, Repairing, local
  <2>2. UNCHANGED <<Observed, PhasesBelow(phase), Begun>>
    BY <2>1 DEF Observed, PhasesBelow, Begun
  <2> QED BY <1>15, <2>1, <2>2 DEF DropEvents, IInv, PhasesTell, Busy
<1>16. CASE CutEvents
  <2>1. UNCHANGED <<phases, phase, mark>>
    BY <1>16 DEF CutEvents, Repairing, local
  <2>2. UNCHANGED <<Observed, PhasesBelow(phase), Begun>>
    BY <2>1 DEF Observed, PhasesBelow, Begun
  <2> QED BY <1>16, <2>1, <2>2 DEF CutEvents, IInv, PhasesTell, Busy
<1>17. CASE ReceiptsAgree
  <2>1. UNCHANGED <<phases, phase, mark>>
    BY <1>17 DEF ReceiptsAgree, evidence, Repairing, local
  <2>2. UNCHANGED <<Observed, PhasesBelow(phase), Begun>>
    BY <2>1 DEF Observed, PhasesBelow, Begun
  <2> QED BY <1>17, <2>1, <2>2 DEF ReceiptsAgree, IInv, PhasesTell, Busy
<1>18. CASE WriteResumed
  <2>1. UNCHANGED <<phases, phase, mark>>
    BY <1>18 DEF WriteResumed, evidence, Repairing, local
  <2>2. UNCHANGED <<Observed, PhasesBelow(phase), Begun>>
    BY <2>1 DEF Observed, PhasesBelow, Begun
  <2> QED BY <1>18, <2>1, <2>2 DEF WriteResumed, IInv, PhasesTell, Busy
<1>19. CASE WriteVerifying
  <2>1. /\ UNCHANGED phases /\ pc = "verifying" /\ pc' = "phase"
        /\ phase' = Verification /\ mark' = "STARTED"
    BY <1>19 DEF WriteVerifying, WriteState, evidence
  <2>2. Observed' = PhasesBelow(Verification)
    BY <2>1 DEF Observed, IInv, PhasesTell
  <2>3. PhasesBelow(phase)' = PhasesBelow(Verification)
    BY <2>1 DEF PhasesBelow
  <2> QED BY <2>1, <2>2, <2>3 DEF PhasesTell, Busy
<1>20. CASE Verify
  <2>1. CASE Fails
    BY <2>1 DEF Fails, Ends, PhasesTell, Busy
  <2>2. CASE pc' = "phase" /\ mark' = "COMPLETED"
    <3>1. UNCHANGED <<phases, phase>> /\ pc = "verify"
      BY <1>20 DEF Verify, evidence
    <3>2. UNCHANGED <<Observed, Begun>>
      BY <3>1 DEF Observed, PhasesBelow, Begun
    <3> QED BY <2>2, <3>1, <3>2 DEF IInv, PhasesTell, Busy
  <2> QED BY <1>20, <2>1, <2>2 DEF Verify
<1>21. CASE WriteCompleted
  <2>1. UNCHANGED <<phases, phase, mark>>
    BY <1>21 DEF WriteCompleted, WriteState, evidence
  <2>2. UNCHANGED <<Observed, PhasesBelow(phase), Begun>>
    BY <2>1 DEF Observed, PhasesBelow, Begun
  <2> QED BY <1>21, <2>1, <2>2 DEF WriteCompleted, WriteState, IInv, PhasesTell
<1>22. CASE SealByHand
  <2>1. UNCHANGED <<phases, phase, mark>>
    BY <1>22 DEF SealByHand, disk, evidence, local
  <2>2. UNCHANGED <<Observed, PhasesBelow(phase), Begun>>
    BY <2>1 DEF Observed, PhasesBelow, Begun
  <2> QED BY <1>22, <2>1, <2>2 DEF SealByHand, PhasesTell, Busy
<1>23. CASE InstallSeal
  <2>1. UNCHANGED <<phases, phase, mark>>
    BY <1>23 DEF InstallSeal, evidence, local
  <2>2. UNCHANGED <<Observed, PhasesBelow(phase), Begun>>
    BY <2>1 DEF Observed, PhasesBelow, Begun
  <2> QED BY <1>23, <2>1, <2>2 DEF InstallSeal, PhasesTell, Busy
<1>24. CASE InstallChecksum
  <2>1. UNCHANGED <<phases, phase, mark>>
    BY <1>24 DEF InstallChecksum, evidence, local
  <2>2. UNCHANGED <<Observed, PhasesBelow(phase), Begun>>
    BY <2>1 DEF Observed, PhasesBelow, Begun
  <2> QED BY <1>24, <2>1, <2>2 DEF InstallChecksum, Ends, PhasesTell, Busy
<1>25. CASE Interrupted
  BY <1>25 DEF Interrupted, Fails, Ends, PhasesTell, Busy
<1>26. CASE TornWrite
  BY <1>26 DEF TornWrite, Ends, PhasesTell, Busy
<1>27. ASSUME NEW c \in Cells, RenumberReceipt(c) PROVE PhasesTell'
  <2>1. UNCHANGED <<phases, phase, mark>>
    BY <1>27 DEF RenumberReceipt, Repairing, local
  <2>2. UNCHANGED <<Observed, PhasesBelow(phase), Begun>>
    BY <2>1 DEF Observed, PhasesBelow, Begun
  <2> QED BY <1>27, <2>1, <2>2 DEF RenumberReceipt, IInv, PhasesTell
<1>28. ASSUME NEW c \in Cells, MoveCell(c) PROVE PhasesTell'
  <2>1. UNCHANGED <<phases, phase, mark>>
    BY <1>28 DEF MoveCell, Repairing, local
  <2>2. UNCHANGED <<Observed, PhasesBelow(phase), Begun>>
    BY <2>1 DEF Observed, PhasesBelow, Begun
  <2> QED BY <1>28, <2>1, <2>2 DEF MoveCell, IInv, PhasesTell
<1>29. ASSUME NEW c \in Cells, LoseReceipt(c) PROVE PhasesTell'
  <2>1. UNCHANGED <<phases, phase, mark>>
    BY <1>29 DEF LoseReceipt, local
  <2>2. UNCHANGED <<Observed, PhasesBelow(phase), Begun>>
    BY <2>1 DEF Observed, PhasesBelow, Begun
  <2> QED BY <1>29, <2>1, <2>2 DEF LoseReceipt, IInv, PhasesTell
<1>30. CASE UNCHANGED vars
  <2>1. UNCHANGED <<phases, phase, mark>>
    BY <1>30 DEF vars, disk, evidence, local
  <2>2. UNCHANGED <<Observed, PhasesBelow(phase), Begun>>
    BY <2>1 DEF Observed, PhasesBelow, Begun
  <2> QED BY <1>30, <2>1, <2>2 DEF vars, IInv, PhasesTell
<1> QED BY <1>1, <1>2, <1>3, <1>4, <1>5, <1>6, <1>7, <1>8, <1>9, <1>10, <1>11, <1>12, <1>13,
    <1>14, <1>15, <1>16, <1>17, <1>18, <1>19, <1>20, <1>21, <1>22, <1>23, <1>24, <1>25, <1>26,
    <1>27, <1>28, <1>29, <1>30 DEF Next


------------------------------------------------------------------------------
(* Cells, their events and their receipts *)

\* What a cell has depends on the events and on its own receipt.
LEMMA CellsSame ==
    ASSUME UNCHANGED events
    PROVE  /\ Numbered' <=> Numbered
           /\ \A c : /\ EventsOf(c)' = EventsOf(c) /\ (RanOnce(c)' <=> RanOnce(c))
                     /\ receipt'[c] = receipt[c] => /\ CellIsComplete(c)' <=> CellIsComplete(c)
                                                    /\ Bound(c)' <=> Bound(c)
<1>1. Numbered' <=> Numbered
  BY DEF Numbered
<1>2. ASSUME NEW c
      PROVE EventsOf(c)' = EventsOf(c) /\ (RanOnce(c)' <=> RanOnce(c))
  BY DEF EventsOf, RanOnce
<1>3. ASSUME NEW c, receipt'[c] = receipt[c]
      PROVE  (CellIsComplete(c)' <=> CellIsComplete(c)) /\ (Bound(c)' <=> Bound(c))
  <2>1. CellIsComplete(c)' <=> CellIsComplete(c)
    BY <1>2, <1>3 DEF CellIsComplete
  <2> QED BY <1>2, <1>3, <2>1 DEF Bound
<1> QED BY <1>1, <1>2, <1>3

\* A record of another cell leaves a cell as it is.
LEMMA BoundSurvives ==
    ASSUME events \in Seq(EventRecords), NEW r \in EventRecords, events' = Append(events, r),
           NEW c, c # r.cell, Bound(c), receipt'[c] = receipt[c]
    PROVE  Bound(c)'
<1>1. /\ DOMAIN events = 1..Len(events) /\ EventsOf(c)' = EventsOf(c)
      /\ \A i \in DOMAIN events : events'[i] = events[i]
  BY Recorded
<1>2. EventsOf(c) \subseteq DOMAIN events
  BY DEF EventsOf
<1>3. RanOnce(c) => RanOnce(c)'
  BY <1>1, <1>2 DEF RanOnce
<1>4. CellIsComplete(c)'
  BY <1>1, <1>3 DEF Bound, CellIsComplete
<1>5. CASE c \in Spawned
  <2>1. RanOnce(c)
    BY <1>5 DEF Bound, CellIsComplete
  <2>2. Min(EventsOf(c)) \in DOMAIN events /\ Max(EventsOf(c)) \in DOMAIN events
    BY <1>2, <2>1, OnceFacts
  <2>3. /\ events'[Min(EventsOf(c))] = events[Min(EventsOf(c))]
        /\ events'[Max(EventsOf(c))] = events[Max(EventsOf(c))]
    BY <1>1, <2>2
  <2>4. Min(EventsOf(c)') = Min(EventsOf(c)) /\ Max(EventsOf(c)') = Max(EventsOf(c))
    BY <1>1
  <2> QED BY <1>4, <2>3, <2>4 DEF Bound
<1>6. CASE c \notin Spawned
  BY <1>4, <1>6 DEF Bound
<1> QED BY <1>5, <1>6

\* Between two cells nothing but the manifest's state moves.
LEMMA SteadyCells ==
    ASSUME IInv, pc \in Steady, pc' \in Steady, UNCHANGED <<events, receipt, complete>>,
           manifest'.sequence = manifest.sequence, manifest'.spawned = manifest.spawned
    PROVE  CellsTell'
<1>1. /\ Numbered /\ Counted /\ \A c \in complete : Bound(c)
      /\ \A c \in Cells \ complete : EventsOf(c) = {}
  BY DEF IInv, CellsTell
<1>2. Numbered' /\ \A c \in complete : Bound(c)'
  BY <1>1, CellsSame
<1>3. \A c \in Cells \ complete : EventsOf(c)' = {}
  BY <1>1, CellsSame
<1>4. Counted'
  BY <1>1 DEF Counted
<1>5. pc' \notin Busy
  BY DEF Steady, Busy
<1> QED BY <1>2, <1>3, <1>4, <1>5 DEF CellsTell, Busy

\* A START is the only event of its cell.
LEMMA StartCellTells == ASSUME IInv, StartCell PROVE CellsTell'
<1>1. /\ cell' \in Cells /\ cell' \notin complete
      /\ events \in Seq(EventRecords) /\ manifest \in Manifests
  BY Started
<1>2. /\ Numbered /\ Counted /\ \A c \in complete : Bound(c)
      /\ \A c \in Cells \ complete : EventsOf(c) = {}
  BY DEF StartCell, IInv, CellsTell, Steady
<1>3. UNCHANGED <<receipt, complete>>
  BY DEF StartCell
<1>4. CASE cell' \in Spawned
  <2>1. PICK r \in EventRecords :
           /\ events' = Append(events, r)
           /\ r.seq = Len(events) + 1 /\ r.cell = cell' /\ r.event = "START"
    BY <1>4, Started
  <2>2. /\ Len(events) \in Nat /\ DOMAIN events = 1..Len(events)
        /\ Len(events') = Len(events) + 1 /\ DOMAIN events' = 1..Len(events) + 1
        /\ \A i \in 1..Len(events) : events'[i] = events[i]
        /\ events'[Len(events) + 1] = r
        /\ \A c : EventsOf(c)' = IF r.cell = c THEN EventsOf(c) \cup {Len(events) + 1}
                                 ELSE EventsOf(c)
    BY <1>1, <2>1, Recorded
  <2>3. Numbered'
    BY <1>2, <2>1, <2>2 DEF Numbered
  <2>4. Counted'
    BY <1>2, <1>3, <1>4, <2>2, Started DEF Counted
  <2>5. \A c \in complete : Bound(c)'
    BY <1>1, <1>2, <1>3, <2>1, BoundSurvives
  <2>6. EventsOf(cell)' = {Len(events')}
    <3>1. \A c : c = cell' => EventsOf(c)' = {Len(events')}
      BY <1>1, <1>2, <2>1, <2>2
    <3> QED BY <3>1 DEF EventsOf
  <2>7. \A c \in Cells \ (complete \cup {cell'}) : EventsOf(c)' = {}
    BY <1>2, <2>1, <2>2
  <2>8. Len(events') > 0 /\ events'[Len(events')].event = "START" /\ pc' = "producer"
    BY <1>4, <2>1, <2>2, Started
  <2> QED BY <1>3, <2>3, <2>4, <2>5, <2>6, <2>7, <2>8 DEF CellsTell, Steady
<1>5. CASE cell' \notin Spawned
  <2>1. pc' = "receipt" /\ UNCHANGED <<events, manifest>>
    BY <1>5, Started
  <2>2. Numbered' /\ \A c \in complete : Bound(c)'
    BY <1>2, <1>3, <2>1, CellsSame
  <2>3. Counted'
    BY <1>2, <1>3, <2>1 DEF Counted
  <2>4. \A c \in Cells \ complete : EventsOf(c)' = {}
    BY <1>2, <2>1, CellsSame
  <2>5. EventsOf(cell)' = {}
    <3>1. \A c : c = cell' => EventsOf(c)' = {}
      BY <1>1, <2>4
    <3> QED BY <3>1 DEF EventsOf
  <2> QED BY <1>3, <1>5, <2>1, <2>2, <2>3, <2>4, <2>5 DEF CellsTell
<1> QED BY <1>4, <1>5

\* START and END of a cell are the last two events.
LEMMA EndCellTells == ASSUME IInv, EndCell PROVE CellsTell'
<1>1. /\ cell \in Cells /\ cell \in Spawned /\ cell \notin complete
      /\ events \in Seq(EventRecords) /\ manifest \in Manifests /\ pc' = "receipt"
  BY Ended
<1>2. /\ Numbered /\ Counted /\ \A c \in complete : Bound(c)
      /\ \A c \in Cells \ (complete \cup {cell}) : EventsOf(c) = {}
      /\ Len(events) > 0 /\ EventsOf(cell) = {Len(events)}
      /\ events[Len(events)].event = "START"
  BY DEF EndCell, IInv, CellsTell, Busy
<1>3. UNCHANGED <<receipt, complete, cell>>
  BY DEF EndCell
<1>4. PICK r \in EventRecords :
         /\ events' = Append(events, r)
         /\ r.seq = Len(events) + 1 /\ r.cell = cell /\ r.event = "END"
  BY Ended
<1>5. /\ Len(events) \in Nat /\ DOMAIN events = 1..Len(events)
      /\ Len(events') = Len(events) + 1 /\ DOMAIN events' = 1..Len(events) + 1
      /\ \A i \in 1..Len(events) : events'[i] = events[i]
      /\ events'[Len(events) + 1] = r
      /\ \A c : EventsOf(c)' = IF r.cell = c THEN EventsOf(c) \cup {Len(events) + 1}
                               ELSE EventsOf(c)
  BY <1>1, <1>4, Recorded
<1>6. Numbered'
  BY <1>2, <1>4, <1>5 DEF Numbered
<1>7. Counted'
  BY <1>2, <1>3, <1>5, Ended DEF Counted
<1>8. \A c \in complete : Bound(c)'
  BY <1>1, <1>2, <1>3, <1>4, BoundSurvives
<1>9. EventsOf(cell)' = {Len(events') - 1, Len(events')}
  <2>1. EventsOf(cell)' = {Len(events)} \cup {Len(events) + 1}
    BY <1>2, <1>3, <1>4, <1>5 DEF EventsOf
  <2>2. Len(events') - 1 = Len(events)
    BY <1>5
  <2> QED BY <1>5, <2>1, <2>2
<1>10. \A c \in Cells \ (complete \cup {cell}) : EventsOf(c)' = {}
  BY <1>2, <1>4, <1>5
<1>11. /\ Len(events') > 1 /\ events'[Len(events') - 1].event = "START"
       /\ events'[Len(events')].event = "END"
  <2>1. Len(events') - 1 = Len(events) /\ Len(events) \in 1..Len(events) /\ Len(events') > 1
    BY <1>2, <1>5
  <2>2. events'[Len(events)] = events[Len(events)] /\ events'[Len(events')] = r
    BY <1>5, <2>1
  <2> QED BY <1>2, <1>4, <2>1, <2>2
<1>12. cell' \in Spawned /\ pc' \notin Steady /\ pc' # "producer"
  BY <1>1, <1>3 DEF Steady
<1>13. \A c \in Cells \ (complete' \cup {cell'}) : EventsOf(c)' = {}
  BY <1>3, <1>10
<1>14. \A c \in complete' : Bound(c)'
  BY <1>3, <1>8
<1> QED BY <1>6, <1>7, <1>9, <1>11, <1>12, <1>13, <1>14 DEF CellsTell

\* The receipt binds the two events of its cell, which is complete with it.
LEMMA WriteReceiptTells == ASSUME IInv, WriteReceipt PROVE CellsTell'
<1>1. CASE Fails
  BY <1>1 DEF Fails, Ends, CellsTell, Steady, Busy
<1>2. CASE Status # "FAILED"
  <2>1. /\ Numbered /\ Counted /\ \A c \in complete : Bound(c)
        /\ \A c \in Cells \ (complete \cup {cell}) : EventsOf(c) = {}
        /\ IF cell \in Spawned
           THEN /\ Len(events) > 1 /\ EventsOf(cell) = {Len(events) - 1, Len(events)}
                /\ events[Len(events) - 1].event = "START"
                /\ events[Len(events)].event = "END"
           ELSE EventsOf(cell) = {}
        /\ events \in Seq(EventRecords) /\ manifest \in Manifests
        /\ cell \in Cells /\ cell \notin complete /\ complete \subseteq Cells
    BY DEF WriteReceipt, IInv, FilesOK, StreamsOK, Positions, CellsTell, Busy
  <2>2. /\ UNCHANGED <<events, cell>> /\ complete' = complete \cup {cell} /\ pc' = "cells"
        /\ manifest' = [manifest EXCEPT !.spawned = IF cell \in Spawned THEN @ + 1 ELSE @]
    BY <1>2 DEF WriteReceipt
  <2>3. /\ receipt'[cell] \in Receipts /\ receipt'[cell].status = Status
        /\ cell \in Spawned => /\ receipt'[cell].start = manifest.sequence - 1
                               /\ receipt'[cell].end = manifest.sequence
        /\ \A c \in Cells : c # cell => receipt'[c] = receipt[c]
    BY ReceiptTyped
  <2>4. Numbered' /\ \A c \in complete : Bound(c)'
    BY <2>1, <2>2, <2>3, CellsSame
  <2>5. \A c \in Cells \ complete' : EventsOf(c)' = {}
    BY <2>1, <2>2, CellsSame
  <2>6. Counted'
    <3>1. manifest'.sequence = manifest.sequence
          /\ manifest'.spawned = IF cell \in Spawned THEN manifest.spawned + 1 ELSE manifest.spawned
      BY <2>1, <2>2 DEF Manifests
    <3>2. IsFiniteSet(complete \cap Spawned)
      BY <2>1, CellsFinite
    <3>3. /\ cell \notin complete \cap Spawned
          /\ complete' \cap Spawned = IF cell \in Spawned THEN (complete \cap Spawned) \cup {cell}
                                      ELSE complete \cap Spawned
      BY <2>1, <2>2
    <3>4. Cardinality((complete \cap Spawned) \cup {cell}) = Cardinality(complete \cap Spawned) + 1
      BY <3>2, <3>3, FS_AddElement
    <3> QED BY <2>1, <2>2, <3>1, <3>3, <3>4 DEF Counted
  <2>7. Bound(cell)'
    <3>1. receipt'[cell] \notin {None, Torn}
      BY <2>3, FileAssumption
    <3>2. CASE cell \in Spawned
      <4> DEFINE i == Len(events) - 1
                 j == Len(events)
      <4>1. i \in Nat /\ j \in Nat /\ i < j /\ DOMAIN events = 1..j /\ i \in 1..j /\ j \in 1..j
        BY <2>1, <3>2, LenProperties
      <4>2. Status = "COMPLETED" /\ events[j].ok
        BY <1>2, <3>2 DEF Status
      <4>3. /\ EventsOf(cell) = {i, j} /\ events[i].event = "START" /\ events[j].event = "END"
        BY <2>1, <3>2
      <4>4. events[i].seq = i /\ events[j].seq = j /\ manifest.sequence = j
        BY <2>1, <4>1 DEF Numbered, Counted
      <4> HIDE DEF i, j
      <4>5. RanOnce(cell)
        BY <4>1, <4>2, <4>3 DEF RanOnce
      <4>6. Min(EventsOf(cell)) = i /\ Max(EventsOf(cell)) = j
        BY <4>1, <4>3, MinMax
      <4>7. RanOnce(cell)' /\ EventsOf(cell)' = EventsOf(cell)
        BY <2>2, <4>5 DEF RanOnce, EventsOf
      <4>8. CellIsComplete(cell)'
        BY <2>2, <2>3, <3>1, <3>2, <4>2, <4>7 DEF CellIsComplete
      <4>9. receipt'[cell].start = i /\ receipt'[cell].end = j
        BY <2>3, <3>2, <4>4 DEF i, j
      <4> QED BY <2>2, <4>4, <4>6, <4>7, <4>8, <4>9 DEF Bound
    <3>3. CASE cell \notin Spawned
      <4>1. Status = "NO_SPAWN" /\ EventsOf(cell)' = {}
        BY <2>1, <2>2, <3>3 DEF Status, EventsOf
      <4> QED BY <2>2, <2>3, <3>1, <3>3, <4>1 DEF Bound, CellIsComplete
    <3> QED BY <3>2, <3>3
  <2>8. ASSUME NEW c \in complete' PROVE Bound(c)'
    <3>1. CASE c = cell'
      BY <2>7, <3>1 DEF Bound, CellIsComplete, RanOnce, EventsOf
    <3> QED BY <2>2, <2>4, <3>1
  <2> QED BY <2>2, <2>4, <2>5, <2>6, <2>8 DEF CellsTell
<1> QED BY <1>1, <1>2 DEF WriteReceipt

\* Streams and receipts tell of the complete cells and of the one that runs.
LEMMA CellsTellKept ==
    ASSUME IInv, [Next]_vars
    PROVE  CellsTell'
<1>1. CASE Fresh
  <2>1. /\ pc' = "create" /\ events' = <<>> /\ complete' = {}
        /\ manifest'.sequence = 0 /\ manifest'.spawned = 0
    BY <1>1 DEF Fresh, evidence, IInv, RootOK
  <2>2. Numbered' /\ \A c \in Cells : EventsOf(c)' = {}
    BY <2>1 DEF Numbered, EventsOf
  <2>3. Counted'
    <3>1. Cardinality({} \cap Spawned) = 0
      BY FS_EmptySet
    <3> QED BY <2>1, <3>1, EmptySeq DEF Counted
  <2> QED BY <2>1, <2>2, <2>3 DEF CellsTell, Busy
<1>2. CASE WriteInitial
  <2>1. /\ pc \in Steady /\ pc' \in Steady /\ UNCHANGED <<events, receipt, complete>>
        /\ manifest'.sequence = manifest.sequence /\ manifest'.spawned = manifest.spawned
    BY <1>2 DEF WriteInitial, Steady, evidence, local
  <2> QED BY <2>1, SteadyCells
<1>3. CASE RecordPlans
  <2>1. /\ pc \in Steady /\ pc' \in Steady /\ UNCHANGED <<events, receipt, complete>>
        /\ manifest'.sequence = manifest.sequence /\ manifest'.spawned = manifest.spawned
    BY <1>3 DEF RecordPlans, Steady, evidence, local
  <2> QED BY <2>1, SteadyCells
<1>4. CASE WriteRunning
  <2>1. manifest \in Manifests /\ pc \in Steady
    BY <1>4 DEF WriteRunning, IInv, FilesOK, Steady
  <2>2. /\ pc' \in Steady /\ UNCHANGED <<events, receipt, complete>>
        /\ manifest'.sequence = manifest.sequence /\ manifest'.spawned = manifest.spawned
    BY <1>4, <2>1 DEF WriteRunning, WriteState, Steady, evidence
  <2> QED BY <2>1, <2>2, SteadyCells
<1>5. CASE WritePhase
  <2>1. manifest \in Manifests /\ pc \in Steady
    BY <1>5 DEF WritePhase, IInv, FilesOK, Steady
  <2>2. /\ pc' \in Steady /\ UNCHANGED <<events, receipt, complete>>
        /\ manifest'.sequence = manifest.sequence /\ manifest'.spawned = manifest.spawned
    BY <1>5, <2>1 DEF WritePhase, Steady, evidence, local
  <2> QED BY <2>1, <2>2, SteadyCells
<1>6. CASE AppendPhase
  <2>1. /\ pc \in Steady /\ pc' \in Steady /\ UNCHANGED <<events, receipt, complete>>
        /\ manifest'.sequence = manifest.sequence /\ manifest'.spawned = manifest.spawned
    BY <1>6 DEF AppendPhase, Steady, evidence
  <2> QED BY <2>1, SteadyCells
<1>7. CASE NoCellLeft
  <2>1. /\ pc \in Steady /\ pc' \in Steady /\ UNCHANGED <<events, receipt, complete>>
        /\ manifest'.sequence = manifest.sequence /\ manifest'.spawned = manifest.spawned
    BY <1>7 DEF NoCellLeft, Steady, disk, evidence
  <2> QED BY <2>1, SteadyCells
<1>8. CASE StartCell
  BY <1>8, StartCellTells
<1>9. CASE EndCell
  BY <1>9, EndCellTells
<1>10. CASE WriteReceipt
  BY <1>10, WriteReceiptTells
<1>11. CASE Resume
  <2>1. pc' = "archive" \/ (pc' = "idle" /\ pc = "idle")
    BY <1>11 DEF Resume
  <2> QED BY <2>1 DEF CellsTell, Steady, Busy
<1>12. CASE MakeArchive
  BY <1>12 DEF MakeArchive, CellsTell, Steady, Busy
<1>13. CASE DropPhases
  BY <1>13 DEF DropPhases, Fails, Ends, CellsTell, Steady, Busy
<1>14. CASE CutPhases
  BY <1>14 DEF CutPhases, CellsTell, Steady, Busy
<1>15. CASE DropEvents
  BY <1>15 DEF DropEvents, CellsTell, Steady, Busy
<1>16. CASE CutEvents
  BY <1>16 DEF CutEvents, CellsTell, Steady, Busy
<1>17. CASE ReceiptsAgree
  BY <1>17 DEF ReceiptsAgree, CellsTell, Steady, Busy
<1>18. CASE WriteResumed
  <2>1. /\ Numbered /\ \A c \in complete : Bound(c)
        /\ \A c \in Cells \ complete : EventsOf(c) = {}
    BY <1>18 DEF WriteResumed, IInv, RepairTells, Repair
  <2>2. UNCHANGED <<events, receipt, complete>> /\ pc' = "running"
    BY <1>18 DEF WriteResumed, evidence, Repairing, local
  <2>3. Numbered' /\ (\A c \in complete : Bound(c)') /\ \A c \in Cells \ complete : EventsOf(c)' = {}
    BY <2>1, <2>2, CellsSame
  <2>4. Counted'
    BY <1>18, <2>2, ResumedManifest DEF Counted
  <2> QED BY <2>2, <2>3, <2>4 DEF CellsTell, Busy
<1>19. CASE WriteVerifying
  <2>1. manifest \in Manifests /\ pc \in Steady
    BY <1>19 DEF WriteVerifying, IInv, FilesOK, Steady
  <2>2. /\ pc' \in Steady /\ UNCHANGED <<events, receipt, complete>>
        /\ manifest'.sequence = manifest.sequence /\ manifest'.spawned = manifest.spawned
    BY <1>19, <2>1 DEF WriteVerifying, WriteState, Steady, evidence
  <2> QED BY <2>1, <2>2, SteadyCells
<1>20. CASE Verify
  <2>1. CASE Fails
    BY <2>1 DEF Fails, Ends, CellsTell, Steady, Busy
  <2>2. CASE manifest' = run /\ pc' = "phase"
    <3>1. run = manifest
      BY <1>20 DEF Verify, IInv, FilesOK
    <3>2. pc \in Steady /\ pc' \in Steady /\ UNCHANGED <<events, receipt, complete>>
      BY <1>20, <2>2 DEF Verify, evidence, Steady
    <3> QED BY <2>2, <3>1, <3>2, SteadyCells
  <2> QED BY <1>20, <2>1, <2>2 DEF Verify
<1>21. CASE WriteCompleted
  BY <1>21 DEF WriteCompleted, WriteState, CellsTell, Steady, Busy
<1>22. CASE SealByHand
  BY <1>22 DEF SealByHand, CellsTell, Steady, Busy
<1>23. CASE InstallSeal
  BY <1>23 DEF InstallSeal, CellsTell, Steady, Busy
<1>24. CASE InstallChecksum
  BY <1>24 DEF InstallChecksum, Ends, CellsTell, Steady, Busy
<1>25. CASE Interrupted
  BY <1>25 DEF Interrupted, Fails, Ends, CellsTell, Steady, Busy
<1>26. CASE TornWrite
  BY <1>26 DEF TornWrite, Ends, CellsTell, Steady, Busy
<1>27. ASSUME NEW c \in Cells, RenumberReceipt(c) PROVE CellsTell'
  BY <1>27 DEF RenumberReceipt, CellsTell, Steady, Busy
<1>28. ASSUME NEW c \in Cells, MoveCell(c) PROVE CellsTell'
  BY <1>28 DEF MoveCell, CellsTell, Steady, Busy
<1>29. ASSUME NEW c \in Cells, LoseReceipt(c) PROVE CellsTell'
  BY <1>29 DEF LoseReceipt, CellsTell, Steady, Busy
<1>30. CASE UNCHANGED vars
  <2>1. UNCHANGED <<pc, events, receipt, complete, cell, manifest>>
    BY <1>30 DEF vars, disk, evidence, local
  <2>2. /\ (Numbered' <=> Numbered) /\ (Counted' <=> Counted)
        /\ \A c : EventsOf(c)' = EventsOf(c) /\ (Bound(c)' <=> Bound(c))
    BY <2>1, CellsSame DEF Counted
  <2>3. EventsOf(cell)' = EventsOf(cell)
    BY <2>1 DEF EventsOf
  <2> QED BY <2>1, <2>2, <2>3 DEF IInv, CellsTell
<1> QED BY <1>1, <1>2, <1>3, <1>4, <1>5, <1>6, <1>7, <1>8, <1>9, <1>10, <1>11, <1>12, <1>13,
    <1>14, <1>15, <1>16, <1>17, <1>18, <1>19, <1>20, <1>21, <1>22, <1>23, <1>24, <1>25, <1>26,
    <1>27, <1>28, <1>29, <1>30 DEF Next

\* Cutting events.jsonl keeps what the complete cells have, and nothing else.
LEMMA CutEventsTell == ASSUME IInv, CutEvents PROVE RepairTells'
<1> DEFINE R(k) == Rank(Retained, k)
           Q(n) == Place(Retained, n)
<1>1. /\ Retained \subseteq DOMAIN events /\ DOMAIN events = 1..Len(events) /\ Len(events) \in Nat
      /\ events' \in Seq(EventRecords)
      /\ \A n \in DOMAIN events' :
            /\ Q(n) \in Retained /\ R(Q(n)) = n /\ events'[n].seq = n
            /\ events'[n].cell = events[Q(n)].cell /\ events'[n].event = events[Q(n)].event
            /\ events'[n].ok = events[Q(n)].ok
      /\ \A k \in Retained : R(k) \in DOMAIN events' /\ Q(R(k)) = k
  BY EventsCut DEF SameEvent
<1>2. \A k, m \in Retained : k < m => R(k) < R(m)
  BY <1>1, RankGrows
<1> HIDE DEF R, Q
<1>3. /\ pc = "cutEvents" /\ pc' = "renumber" /\ UNCHANGED <<receipt, complete>>
      /\ complete \subseteq Cells /\ \A c \in complete : CellIsComplete(c)
  BY DEF CutEvents, Repairing, local, IInv, FilesOK, RepairTells, Repair
<1>4. Numbered'
  BY <1>1 DEF Numbered
<1>5. ASSUME NEW c, NEW n \in EventsOf(c)'
      PROVE  c \in complete /\ Q(n) \in EventsOf(c) /\ n = R(Q(n))
  <2>1. n \in DOMAIN events' /\ events'[n].cell = c
    BY <1>5 DEF EventsOf
  <2>2. Q(n) \in Retained /\ events[Q(n)].cell = c /\ R(Q(n)) = n
    BY <1>1, <2>1
  <2> QED BY <1>1, <2>2 DEF Retained, EventsOf
<1>6. \A c \in Cells \ complete : EventsOf(c)' = {}
  BY <1>5
<1>7. ASSUME NEW c \in complete PROVE CellIsComplete(c)'
  <2>1. CASE c \notin Spawned
    <3>1. EventsOf(c)' = {}
      BY <1>3, <1>5, <2>1 DEF CellIsComplete
    <3> QED BY <1>3, <2>1, <3>1 DEF CellIsComplete
  <2>2. CASE c \in Spawned
    <3>1. PICK i \in EventsOf(c), j \in EventsOf(c) :
             /\ i < j /\ EventsOf(c) = {i, j}
             /\ events[i].event = "START" /\ events[j].event = "END" /\ events[j].ok
      BY <1>3, <2>2 DEF CellIsComplete, RanOnce
    <3>2. i \in Retained /\ j \in Retained
      BY <3>1 DEF EventsOf, Retained
    <3>3. /\ R(i) < R(j) /\ R(i) \in DOMAIN events' /\ R(j) \in DOMAIN events'
          /\ Q(R(i)) = i /\ Q(R(j)) = j
      BY <1>1, <1>2, <3>1, <3>2
    <3>4. R(i) \in EventsOf(c)' /\ R(j) \in EventsOf(c)'
      BY <1>1, <3>1, <3>3 DEF EventsOf
    <3>5. EventsOf(c)' = {R(i), R(j)}
      BY <1>5, <3>1, <3>4
    <3>6. events'[R(i)].event = "START" /\ events'[R(j)].event = "END" /\ events'[R(j)].ok
      BY <1>1, <3>1, <3>3
    <3>7. RanOnce(c)'
      BY <3>3, <3>4, <3>5, <3>6 DEF RanOnce
    <3> QED BY <1>3, <2>2, <3>7 DEF CellIsComplete
  <2> QED BY <2>1, <2>2
<1> QED BY <1>3, <1>4, <1>6, <1>7 DEF RepairTells

\* A resume leaves its complete cells what they need, and no event of another.
LEMMA RepairTellsKept ==
    ASSUME IInv, [Next]_vars
    PROVE  RepairTells'
<1>1. CASE Fresh
  BY <1>1 DEF Fresh, RepairTells, Repair
<1>2. CASE WriteInitial
  BY <1>2 DEF WriteInitial, RepairTells, Repair
<1>3. CASE RecordPlans
  BY <1>3 DEF RecordPlans, RepairTells, Repair
<1>4. CASE WriteRunning
  BY <1>4 DEF WriteRunning, WriteState, RepairTells, Repair
<1>5. CASE WritePhase
  BY <1>5 DEF WritePhase, RepairTells, Repair
<1>6. CASE AppendPhase
  BY <1>6 DEF AppendPhase, RepairTells, Repair
<1>7. CASE NoCellLeft
  BY <1>7 DEF NoCellLeft, RepairTells, Repair
<1>8. CASE StartCell
  BY <1>8 DEF StartCell, RepairTells, Repair
<1>9. CASE EndCell
  BY <1>9 DEF EndCell, RepairTells, Repair
<1>10. CASE WriteReceipt
  BY <1>10 DEF WriteReceipt, Fails, Ends, RepairTells, Repair
<1>11. CASE Resume
  <2>1. CASE pc' = "idle"
    BY <2>1 DEF RepairTells, Repair
  <2>2. CASE pc' = "archive" /\ complete' = Complete
    <3>1. UNCHANGED <<events, receipt>>
      BY <1>11 DEF Resume, evidence
    <3>2. \A c \in complete' : CellIsComplete(c)'
      BY <2>2, <3>1, CellsSame DEF Complete
    <3> QED BY <2>2, <3>2 DEF RepairTells
  <2> QED BY <1>11, <2>1, <2>2 DEF Resume
<1>12. CASE MakeArchive
  <2>1. /\ pc \in Repair /\ UNCHANGED <<events, receipt, complete>>
        /\ pc' \notin {"renumber", "move"}
    BY <1>12 DEF MakeArchive, evidence, Repairing, local, Repair
  <2>2. \A c \in complete' : CellIsComplete(c)'
    BY <2>1, CellsSame DEF IInv, RepairTells
  <2> QED BY <2>1, <2>2 DEF RepairTells
<1>13. CASE DropPhases
  <2>1. CASE Fails
    BY <2>1 DEF Fails, Ends, RepairTells, Repair
  <2>2. CASE pc' = "cutPhases"
    <3>1. pc \in Repair /\ UNCHANGED <<events, receipt, complete>>
      BY <1>13 DEF DropPhases, evidence, Repairing, local, Repair
    <3>2. \A c \in complete' : CellIsComplete(c)'
      BY <3>1, CellsSame DEF IInv, RepairTells
    <3> QED BY <2>2, <3>2 DEF RepairTells
  <2> QED BY <1>13, <2>1, <2>2 DEF DropPhases
<1>14. CASE CutPhases
  <2>1. /\ pc \in Repair /\ UNCHANGED <<events, receipt, complete>>
        /\ pc' \notin {"renumber", "move"}
    BY <1>14 DEF CutPhases, evidence, Repairing, local, Repair
  <2>2. \A c \in complete' : CellIsComplete(c)'
    BY <2>1, CellsSame DEF IInv, RepairTells
  <2> QED BY <2>1, <2>2 DEF RepairTells
<1>15. CASE DropEvents
  <2>1. /\ pc \in Repair /\ UNCHANGED <<events, receipt, complete>>
        /\ pc' \notin {"renumber", "move"}
    BY <1>15 DEF DropEvents, evidence, Repairing, local, Repair
  <2>2. \A c \in complete' : CellIsComplete(c)'
    BY <2>1, CellsSame DEF IInv, RepairTells
  <2> QED BY <2>1, <2>2 DEF RepairTells
<1>16. CASE CutEvents
  BY <1>16, CutEventsTell
<1>17. CASE ReceiptsAgree
  <2>1. /\ pc = "renumber" /\ pc' = "move" /\ UNCHANGED <<events, receipt, complete>>
        /\ Misnumbered = {}
    BY <1>17 DEF ReceiptsAgree, evidence, Repairing, local
  <2>2. /\ Numbered /\ \A c \in complete : CellIsComplete(c)
        /\ \A c \in Cells \ complete : EventsOf(c) = {}
        /\ receipt \in [Cells -> Receipts \cup {None, Torn}] /\ complete \subseteq Cells
    BY <2>1 DEF IInv, RepairTells, FilesOK, Repair
  <2>3. ASSUME NEW c \in complete PROVE Bound(c)
    <3>1. CASE c \in Spawned
      <4>1. receipt[c] \in Receipts /\ EventsOf(c) # {}
        BY <2>2, <3>1 DEF CellIsComplete, RanOnce
      <4>2. receipt[c] = Renumbered(c)
        BY <2>1, <4>1 DEF Misnumbered
      <4> DEFINE m == events[Min(EventsOf(c))].seq
                 n == events[Max(EventsOf(c))].seq
      <4>3. receipt[c] = [receipt[c] EXCEPT !.start = m, !.end = n]
        BY <4>2 DEF Renumbered
      <4> HIDE DEF m, n
      <4>4. receipt[c].start = m /\ receipt[c].end = n
        BY <4>1, <4>3 DEF Receipts
      <4> QED BY <2>2, <4>4 DEF Bound, m, n
    <3> QED BY <2>2, <3>1 DEF Bound
  <2>4. /\ Numbered' /\ \A c \in complete : CellIsComplete(c)' /\ Bound(c)'
        /\ \A c \in Cells \ complete : EventsOf(c)' = {}
    BY <2>1, <2>2, <2>3, CellsSame
  <2> QED BY <2>1, <2>4 DEF RepairTells
<1>18. CASE WriteResumed
  BY <1>18 DEF WriteResumed, RepairTells, Repair
<1>19. CASE WriteVerifying
  BY <1>19 DEF WriteVerifying, WriteState, RepairTells, Repair
<1>20. CASE Verify
  BY <1>20 DEF Verify, Fails, Ends, RepairTells, Repair
<1>21. CASE WriteCompleted
  BY <1>21 DEF WriteCompleted, WriteState, RepairTells, Repair
<1>22. CASE SealByHand
  BY <1>22 DEF SealByHand, RepairTells, Repair
<1>23. CASE InstallSeal
  BY <1>23 DEF InstallSeal, RepairTells, Repair
<1>24. CASE InstallChecksum
  BY <1>24 DEF InstallChecksum, Ends, RepairTells, Repair
<1>25. CASE Interrupted
  BY <1>25 DEF Interrupted, Fails, Ends, RepairTells, Repair
<1>26. CASE TornWrite
  BY <1>26 DEF TornWrite, Ends, RepairTells, Repair
<1>27. ASSUME NEW c \in Cells, RenumberReceipt(c) PROVE RepairTells'
  <2>1. /\ pc = "renumber" /\ pc' = "renumber" /\ UNCHANGED <<events, complete>>
        /\ receipt' = [receipt EXCEPT ![c] = Renumbered(c)] /\ c \in Misnumbered
    BY <1>27 DEF RenumberReceipt, Repairing, local
  <2>2. /\ Numbered /\ \A d \in complete : CellIsComplete(d)
        /\ \A d \in Cells \ complete : EventsOf(d) = {}
        /\ receipt \in [Cells -> Receipts \cup {None, Torn}] /\ complete \subseteq Cells
    BY <2>1 DEF IInv, RepairTells, FilesOK, Repair
  <2>3. Numbered' /\ \A d \in Cells \ complete : EventsOf(d)' = {}
    BY <2>1, <2>2, CellsSame
  <2>4. ASSUME NEW d \in complete PROVE CellIsComplete(d)'
    <3>1. CASE d = c
      <4>1. /\ receipt'[c] \in Receipts /\ receipt'[c].status = receipt[c].status
            /\ RanOnce(c) /\ c \in Spawned
        BY <2>1, <2>2, RenumberedTyped
      <4>2. RanOnce(c)'
        BY <2>1, <4>1, CellsSame
      <4> QED BY <2>2, <3>1, <4>1, <4>2, FileAssumption DEF CellIsComplete
    <3>2. CASE d # c
      <4>1. receipt'[d] = receipt[d]
        BY <2>1, <2>2, <3>2
      <4> QED BY <2>1, <2>2, <4>1, CellsSame
    <3> QED BY <3>1, <3>2
  <2> QED BY <2>1, <2>3, <2>4 DEF RepairTells
<1>28. ASSUME NEW c \in Cells, MoveCell(c) PROVE RepairTells'
  <2>1. /\ pc = "move" /\ pc' = "move" /\ UNCHANGED <<events, complete>>
        /\ receipt' = [receipt EXCEPT ![c] = None] /\ c \notin complete
    BY <1>28 DEF MoveCell, Stale, Repairing, local
  <2>2. /\ Numbered /\ \A d \in complete : CellIsComplete(d) /\ Bound(d)
        /\ \A d \in Cells \ complete : EventsOf(d) = {}
        /\ receipt \in [Cells -> Receipts \cup {None, Torn}] /\ complete \subseteq Cells
    BY <2>1 DEF IInv, RepairTells, FilesOK, Repair
  <2>3. \A d \in complete : receipt'[d] = receipt[d]
    BY <2>1, <2>2
  <2>4. /\ Numbered' /\ \A d \in complete : CellIsComplete(d)' /\ Bound(d)'
        /\ \A d \in Cells \ complete : EventsOf(d)' = {}
    BY <2>1, <2>2, <2>3, CellsSame
  <2> QED BY <2>1, <2>4 DEF RepairTells
<1>29. ASSUME NEW c \in Cells, LoseReceipt(c) PROVE RepairTells'
  BY <1>29 DEF LoseReceipt, RepairTells, Repair
<1>30. CASE UNCHANGED vars
  <2>1. UNCHANGED <<pc, events, receipt, complete>>
    BY <1>30 DEF vars, disk, evidence, local
  <2>2. /\ Numbered' <=> Numbered
        /\ \A c : /\ EventsOf(c)' = EventsOf(c) /\ (Bound(c)' <=> Bound(c))
                  /\ CellIsComplete(c)' <=> CellIsComplete(c)
    BY <2>1, CellsSame
  <2> QED BY <2>1, <2>2 DEF IInv, RepairTells
<1> QED BY <1>1, <1>2, <1>3, <1>4, <1>5, <1>6, <1>7, <1>8, <1>9, <1>10, <1>11, <1>12, <1>13,
    <1>14, <1>15, <1>16, <1>17, <1>18, <1>19, <1>20, <1>21, <1>22, <1>23, <1>24, <1>25, <1>26,
    <1>27, <1>28, <1>29, <1>30 DEF Next


------------------------------------------------------------------------------
(* What was verified *)

\* The verification reads the streams and the receipts only.
LEMMA EvidenceSame ==
    ASSUME UNCHANGED <<events, receipt>>
    PROVE  /\ EventsExact' <=> EventsExact
           /\ ReceiptsExact' <=> ReceiptsExact
           /\ phases' = phases => (Verifies(Seal)' <=> Verifies(Seal))
<1>1. EventsExact' <=> EventsExact
  BY CellsSame DEF EventsExact
<1>2. ReceiptsExact' <=> ReceiptsExact
  BY CellsSame DEF ReceiptsExact
<1>3. phases' = phases => (PhasesExact(Seal)' <=> PhasesExact(Seal))
  BY DEF PhasesExact, Observed, PhasesBelow
<1> QED BY <1>1, <1>2, <1>3 DEF Verifies

\* Before its verification a run is neither verified nor completed nor sealed.
Unfinished ==
    /\ verified = FALSE /\ seal = None
    /\ run \in Manifests => run.state # "COMPLETED"
    /\ manifest \in Manifests => manifest.state # "COMPLETED"

\* Before verification has completed, nothing says the run has.
LEMMA UnfinishedYet ==
    ASSUME IInv, pc \notin {"idle", "phase", "stream", "finish"} \cup Sealing
    PROVE  Unfinished
BY DEF IInv, VerifiedAt, Unfinished, Sealing

\* As long as nothing says so, VerifiedAt has little to ask.
LEMMA StillUnfinished ==
    ASSUME Unfinished', pc' \notin {"finish"} \cup Sealing,
           pc' \in {"phase", "stream"} /\ phase' >= Verification =>
               phase' = Verification /\ mark' = "STARTED"
    PROVE  VerifiedAt'
BY DEF VerifiedAt, Unfinished

\* Nothing but the position moves, out of the run's reach.
LEMMA IdleAgain ==
    ASSUME IInv, pc' = "idle", UNCHANGED <<phases, events, receipt, root, verified, seal>>,
           manifest' = None,
           run' \in Manifests => run \in Manifests /\ run'.state \in {run.state, "FAILED"}
    PROVE  VerifiedAt'
<1>1. Verifies(Seal)' <=> Verifies(Seal)
  BY EvidenceSame
<1> QED BY <1>1, ManifestTyped DEF IInv, VerifiedAt, Sealing

\* Once verified, only the records of the last two phases are written.
LEMMA VerifiedAtKept ==
    ASSUME IInv, [Next]_vars
    PROVE  VerifiedAt'
<1>1. CASE Fresh
  <2>1. Unfinished' /\ pc' = "create"
    <3>1. run' = None /\ verified' = FALSE /\ seal' = None /\ pc' = "create"
      BY <1>1 DEF Fresh, IInv, RootOK, VerifiedAt
    <3>2. manifest'.state = "PLANNED"
      BY <1>1 DEF Fresh
    <3> QED BY <3>1, <3>2, ManifestTyped DEF Unfinished
  <2> QED BY <2>1, StillUnfinished DEF Sealing
<1>2. CASE WriteInitial
  <2>1. Unfinished
    BY <1>2, UnfinishedYet DEF WriteInitial, Sealing
  <2>2. Unfinished' /\ pc' = "plan"
    BY <1>2, <2>1 DEF WriteInitial, Unfinished
  <2> QED BY <2>2, StillUnfinished DEF Sealing
<1>3. CASE RecordPlans
  <2>1. Unfinished
    BY <1>3, UnfinishedYet DEF RecordPlans, Sealing
  <2>2. Unfinished' /\ pc' = "running"
    BY <1>3, <2>1 DEF RecordPlans, Unfinished
  <2> QED BY <2>2, StillUnfinished DEF Sealing
<1>4. CASE WriteRunning
  <2>1. Unfinished /\ manifest \in Manifests
    BY <1>4, UnfinishedYet DEF WriteRunning, IInv, FilesOK, Sealing
  <2>2. manifest'.state = "RUNNING" /\ run' = manifest' /\ UNCHANGED <<verified, seal>>
    BY <1>4, <2>1 DEF WriteRunning, WriteState, Manifests
  <2>3. Unfinished'
    BY <2>1, <2>2 DEF Unfinished
  <2>4. pc' \in {"verifying", "phase"} /\ phase' = phase /\ mark' = "STARTED"
        /\ (pc' = "phase" => phase \in 0..LastPhase)
    BY <1>4, CellAssumption DEF WriteRunning, WriteState, IInv, Positions, Verification
  <2> QED BY <2>3, <2>4, StillUnfinished, CellAssumption DEF Sealing, Verification
<1>5. CASE WritePhase
  <2>1. /\ manifest \in Manifests /\ manifest.state # "COMPLETED" /\ seal = None
        /\ verified \in BOOLEAN /\ (verified => root)
        /\ verified => EventsExact /\ ReceiptsExact /\ \/ phase = Verification /\ mark = "COMPLETED"
                                                       \/ phase = Seal
        /\ phase >= Verification => verified \/ (phase = Verification /\ mark = "STARTED")
    BY <1>5 DEF WritePhase, IInv, FilesOK, VerifiedAt, Sealing
  <2>2. /\ manifest'.state = manifest.state /\ run' = manifest' /\ pc' = "stream"
        /\ UNCHANGED <<events, receipt, root, verified, seal, phase, mark>>
    BY <1>5, <2>1 DEF WritePhase, evidence, local, Manifests
  <2>3. (EventsExact' <=> EventsExact) /\ (ReceiptsExact' <=> ReceiptsExact)
    BY <2>2, EvidenceSame
  <2> QED BY <2>1, <2>2, <2>3 DEF VerifiedAt, Sealing
<1>6. CASE AppendPhase
  <2>1. /\ seal = None /\ verified \in BOOLEAN /\ (verified => root)
        /\ run \in Manifests => run.state # "COMPLETED"
        /\ manifest \in Manifests => manifest.state # "COMPLETED"
        /\ verified => EventsExact /\ ReceiptsExact /\ \/ phase = Verification /\ mark = "COMPLETED"
                                                       \/ phase = Seal
        /\ phase >= Verification => verified \/ (phase = Verification /\ mark = "STARTED")
        /\ phase \in Phases /\ mark \in Marks /\ (phase = Seal => mark = "STARTED")
    BY <1>6 DEF AppendPhase, IInv, Positions, VerifiedAt, Sealing
  <2>2. UNCHANGED <<events, receipt, root, run, manifest, verified, seal>>
    BY <1>6 DEF AppendPhase
  <2>3. (EventsExact' <=> EventsExact) /\ (ReceiptsExact' <=> ReceiptsExact)
    BY <2>2, EvidenceSame
  <2>4. LastPhase \in Nat /\ Verification = LastPhase + 1 /\ Seal = LastPhase + 2
    BY CellAssumption DEF Verification, Seal
  <2>5. CASE phase = Seal
    <3>1. verified /\ mark = "STARTED" /\ pc' = "finish"
      BY <1>6, <2>1, <2>4, <2>5 DEF AppendPhase
    <3>2. Observed = PhasesBelow(Seal) /\ Observed' = Append(Observed, <<Seal, "STARTED">>)
      BY <1>6, <2>5, <3>1, PhaseRecorded DEF AppendPhase, IInv, PhasesTell
    <3>3. Verifies(Seal)'
      BY <2>1, <2>3, <3>1, <3>2 DEF Verifies, PhasesExact
    <3> QED BY <2>1, <2>2, <3>1, <3>3 DEF VerifiedAt, Sealing
  <2>6. CASE phase = Verification /\ mark = "COMPLETED"
    <3>1. verified /\ pc' = "phase" /\ phase' = Seal /\ mark' = "STARTED"
      BY <1>6, <2>1, <2>4, <2>6 DEF AppendPhase
    <3> QED BY <2>1, <2>2, <2>3, <2>4, <3>1 DEF VerifiedAt, Sealing
  <2>7. CASE phase # Seal /\ ~(phase = Verification /\ mark = "COMPLETED")
    <3>1. Unfinished'
      BY <2>1, <2>2, <2>7 DEF Unfinished
    <3>2. /\ pc' \notin {"finish"} \cup Sealing
          /\ pc' \in {"phase", "stream"} => phase' \in 0..LastPhase
      BY <1>6, <2>1, <2>4, <2>7 DEF AppendPhase, Sealing, Phases, Marks
    <3> QED BY <2>4, <3>1, <3>2, StillUnfinished
  <2> QED BY <2>5, <2>6, <2>7
<1>7. CASE NoCellLeft
  <2>1. Unfinished
    BY <1>7, UnfinishedYet DEF NoCellLeft, Sealing
  <2>2. Unfinished' /\ pc' = "phase" /\ phase' = phase /\ phase \in 1..LastPhase
    BY <1>7, <2>1 DEF NoCellLeft, disk, Unfinished, IInv, Positions
  <2> QED BY <2>2, StillUnfinished, CellAssumption DEF Sealing, Verification
<1>8. CASE StartCell
  <2>1. Unfinished /\ manifest \in Manifests
    BY <1>8, UnfinishedYet DEF StartCell, IInv, FilesOK, Sealing
  <2>2. manifest'.state = manifest.state /\ UNCHANGED <<run, verified, seal>> /\ pc' \in Busy
    BY <1>8, <2>1 DEF StartCell, Manifests, Busy
  <2>3. Unfinished'
    BY <2>1, <2>2 DEF Unfinished
  <2> QED BY <2>2, <2>3, StillUnfinished DEF Sealing, Busy
<1>9. CASE EndCell
  <2>1. Unfinished /\ manifest \in Manifests
    BY <1>9, UnfinishedYet DEF EndCell, IInv, FilesOK, Sealing
  <2>2. manifest'.state = manifest.state /\ UNCHANGED <<run, verified, seal>> /\ pc' \in Busy
    BY <1>9, <2>1 DEF EndCell, Manifests, Busy
  <2>3. Unfinished'
    BY <2>1, <2>2 DEF Unfinished
  <2> QED BY <2>2, <2>3, StillUnfinished DEF Sealing, Busy
<1>10. CASE WriteReceipt
  <2>1. Unfinished /\ manifest \in Manifests
    BY <1>10, UnfinishedYet DEF WriteReceipt, IInv, FilesOK, Sealing
  <2>2. CASE Fails
    <3>1. Unfinished' /\ pc' = "idle"
      BY <1>10, <2>1, <2>2, FailsTyped, ManifestTyped DEF WriteReceipt, Unfinished, IInv,
          FilesOK
    <3> QED BY <3>1, StillUnfinished DEF Sealing
  <2>3. CASE Status # "FAILED"
    <3>1. manifest'.state = manifest.state /\ UNCHANGED <<run, verified, seal>> /\ pc' = "cells"
      BY <1>10, <2>1, <2>3 DEF WriteReceipt, Manifests
    <3>2. Unfinished'
      BY <2>1, <3>1 DEF Unfinished
    <3> QED BY <3>1, <3>2, StillUnfinished DEF Sealing
  <2> QED BY <1>10, <2>2, <2>3 DEF WriteReceipt
<1>11. CASE Resume
  <2>1. CASE Admission /\ pc' = "archive" /\ manifest' = run /\ UNCHANGED run
    <3>1. Unfinished'
      BY <1>11, <2>1 DEF Resume, Admission, Unfinished
    <3> QED BY <2>1, <3>1, StillUnfinished DEF Sealing
  <2>2. CASE UNCHANGED <<pc, manifest>> /\ run' \in {run, Failed}
    <3>1. run' \in Manifests => run \in Manifests /\ run'.state \in {run.state, "FAILED"}
      BY <2>2, FailedTyped, ManifestTyped DEF IInv, FilesOK
    <3>2. pc = "idle" /\ UNCHANGED <<phases, events, receipt, root, verified, seal>>
      BY <1>11 DEF Resume, evidence
    <3>3. Verifies(Seal)' <=> Verifies(Seal)
      BY <3>2, EvidenceSame
    <3> QED BY <2>2, <3>1, <3>2, <3>3 DEF IInv, VerifiedAt
  <2> QED BY <1>11, <2>1, <2>2 DEF Resume
<1>12. CASE MakeArchive
  <2>1. Unfinished
    BY <1>12, UnfinishedYet DEF MakeArchive, Sealing
  <2>2. UNCHANGED <<run, manifest, verified, seal>> /\ pc' = "dropPhases"
    BY <1>12 DEF MakeArchive, Repairing
  <2>3. Unfinished'
    BY <2>1, <2>2 DEF Unfinished
  <2> QED BY <2>2, <2>3, StillUnfinished DEF Sealing
<1>13. CASE DropPhases
  <2>1. Unfinished
    BY <1>13, UnfinishedYet DEF DropPhases, Sealing
  <2>2. CASE Fails
    <3>1. Unfinished' /\ pc' = "idle"
      BY <1>13, <2>1, <2>2, FailsTyped, ManifestTyped DEF DropPhases, Repairing, Unfinished,
          IInv, FilesOK
    <3> QED BY <3>1, StillUnfinished DEF Sealing
  <2>3. CASE UNCHANGED <<run, manifest>> /\ pc' = "cutPhases"
    <3>1. Unfinished'
      BY <1>13, <2>1, <2>3 DEF DropPhases, Repairing, Unfinished
    <3> QED BY <2>3, <3>1, StillUnfinished DEF Sealing
  <2> QED BY <1>13, <2>2, <2>3 DEF DropPhases
<1>14. CASE CutPhases
  <2>1. Unfinished
    BY <1>14, UnfinishedYet DEF CutPhases, Sealing
  <2>2. UNCHANGED <<run, manifest, verified, seal>> /\ pc' = "dropEvents"
    BY <1>14 DEF CutPhases, Repairing
  <2>3. Unfinished'
    BY <2>1, <2>2 DEF Unfinished
  <2> QED BY <2>2, <2>3, StillUnfinished DEF Sealing
<1>15. CASE DropEvents
  <2>1. Unfinished
    BY <1>15, UnfinishedYet DEF DropEvents, Sealing
  <2>2. UNCHANGED <<run, manifest, verified, seal>> /\ pc' = "cutEvents"
    BY <1>15 DEF DropEvents, Repairing
  <2>3. Unfinished'
    BY <2>1, <2>2 DEF Unfinished
  <2> QED BY <2>2, <2>3, StillUnfinished DEF Sealing
<1>16. CASE CutEvents
  <2>1. Unfinished
    BY <1>16, UnfinishedYet DEF CutEvents, Sealing
  <2>2. UNCHANGED <<run, manifest, verified, seal>> /\ pc' = "renumber"
    BY <1>16 DEF CutEvents, Repairing
  <2>3. Unfinished'
    BY <2>1, <2>2 DEF Unfinished
  <2> QED BY <2>2, <2>3, StillUnfinished DEF Sealing
<1>17. CASE ReceiptsAgree
  <2>1. Unfinished
    BY <1>17, UnfinishedYet DEF ReceiptsAgree, Sealing
  <2>2. UNCHANGED <<run, manifest, verified, seal>> /\ pc' = "move"
    BY <1>17 DEF ReceiptsAgree, Repairing
  <2>3. Unfinished'
    BY <2>1, <2>2 DEF Unfinished
  <2> QED BY <2>2, <2>3, StillUnfinished DEF Sealing
<1>18. CASE WriteResumed
  <2>1. Unfinished /\ manifest \in Manifests
    BY <1>18, UnfinishedYet DEF WriteResumed, IInv, FilesOK, Sealing
  <2>2. /\ manifest'.state = manifest.state /\ run' = manifest' /\ pc' = "running"
        /\ UNCHANGED <<verified, seal>>
    BY <1>18, ResumedManifest DEF WriteResumed, Repairing
  <2>3. Unfinished'
    BY <2>1, <2>2 DEF Unfinished
  <2> QED BY <2>2, <2>3, StillUnfinished DEF Sealing
<1>19. CASE WriteVerifying
  <2>1. Unfinished /\ manifest \in Manifests
    BY <1>19, UnfinishedYet DEF WriteVerifying, IInv, FilesOK, Sealing
  <2>2. manifest'.state = "VERIFYING" /\ run' = manifest' /\ UNCHANGED <<verified, seal>>
    BY <1>19, <2>1 DEF WriteVerifying, WriteState, Manifests
  <2>3. Unfinished'
    BY <2>1, <2>2 DEF Unfinished
  <2> QED BY <1>19, <2>3, StillUnfinished DEF WriteVerifying, WriteState, Sealing
<1>20. CASE Verify
  <2>1. Unfinished /\ run = manifest /\ manifest \in Manifests /\ root /\ phase = Verification
    BY <1>20, UnfinishedYet DEF Verify, IInv, FilesOK, RootOK, Positions, Sealing
  <2>2. CASE Fails /\ UNCHANGED verified
    <3>1. Unfinished' /\ pc' = "idle"
      BY <1>20, <2>1, <2>2, FailsTyped, ManifestTyped DEF Verify, Unfinished, IInv, FilesOK
    <3> QED BY <3>1, StillUnfinished DEF Sealing
  <2>3. CASE /\ Verifies(Verification) /\ verified' = TRUE /\ manifest' = run
             /\ pc' = "phase" /\ mark' = "COMPLETED" /\ UNCHANGED run
    <3>1. UNCHANGED <<events, receipt, root, seal, phase>>
      BY <1>20 DEF Verify, evidence
    <3>2. EventsExact' /\ ReceiptsExact'
      BY <2>3, <3>1, EvidenceSame DEF Verifies
    <3> QED BY <2>1, <2>3, <3>1, <3>2 DEF VerifiedAt, Unfinished, Sealing
  <2> QED BY <1>20, <2>2, <2>3 DEF Verify
<1>21. CASE WriteCompleted
  <2>1. verified /\ verified \in BOOLEAN /\ root /\ Verifies(Seal) /\ seal = None
    BY <1>21 DEF WriteCompleted, IInv, VerifiedAt, Sealing
  <2>2. UNCHANGED <<phases, events, receipt, root, verified, seal>> /\ pc' = "seal"
    BY <1>21 DEF WriteCompleted, WriteState, evidence
  <2>3. Verifies(Seal)'
    BY <2>1, <2>2, EvidenceSame
  <2> QED BY <2>1, <2>2, <2>3 DEF VerifiedAt, Sealing
<1>22. CASE SealByHand
  <2>1. /\ verified /\ verified \in BOOLEAN /\ root /\ Verifies(Seal) /\ seal = None
    BY <1>22 DEF SealByHand, IInv, VerifiedAt, FilesOK
  <2>2. UNCHANGED <<phases, events, receipt, root, verified, seal>> /\ pc' = "seal"
    BY <1>22 DEF SealByHand, disk, evidence
  <2>3. Verifies(Seal)'
    BY <2>1, <2>2, EvidenceSame
  <2> QED BY <2>1, <2>2, <2>3 DEF VerifiedAt, Sealing
<1>23. CASE InstallSeal
  <2>1. /\ verified /\ verified \in BOOLEAN /\ root /\ Verifies(Seal)
    BY <1>23 DEF InstallSeal, IInv, VerifiedAt, Sealing
  <2>2. UNCHANGED <<phases, events, receipt, root, verified>> /\ pc' = "checksum"
    BY <1>23 DEF InstallSeal, evidence
  <2>3. Verifies(Seal)'
    BY <2>1, <2>2, EvidenceSame
  <2> QED BY <2>1, <2>2, <2>3 DEF VerifiedAt, Sealing
<1>24. CASE InstallChecksum
  <2>1. /\ verified /\ verified \in BOOLEAN /\ root /\ Verifies(Seal)
    BY <1>24 DEF InstallChecksum, IInv, VerifiedAt, Sealing
  <2>2. UNCHANGED <<phases, events, receipt, root, verified>> /\ pc' = "idle" /\ manifest' = None
    BY <1>24 DEF InstallChecksum, evidence, Ends
  <2>3. Verifies(Seal)'
    BY <2>1, <2>2, EvidenceSame
  <2> QED BY <2>1, <2>2, <2>3, ManifestTyped DEF VerifiedAt, Sealing
<1>25. CASE Interrupted
  <2>1. UNCHANGED <<phases, events, receipt, root, verified, seal>> /\ pc' = "idle" /\ manifest' = None
    BY <1>25 DEF Interrupted, Fails, Ends, evidence
  <2>2. run' \in Manifests => run \in Manifests /\ run'.state \in {run.state, "FAILED"}
    BY <1>25, FailsTyped DEF Interrupted, IInv, FilesOK
  <2> QED BY <2>1, <2>2, IdleAgain
<1>26. CASE TornWrite
  <2>1. pc \notin {"idle"} \cup Sealing /\ (run' = run \/ run' = Torn)
    BY <1>26 DEF TornWrite, Sealing
  <2>2. UNCHANGED <<root, verified, seal>> /\ pc' = "idle" /\ manifest' = None
    BY <1>26 DEF TornWrite, Ends
  <2>3. seal = None /\ (run \in Manifests => run.state # "COMPLETED")
        /\ verified \in BOOLEAN /\ (verified => root)
    BY <2>1 DEF IInv, VerifiedAt, Sealing
  <2> QED BY <2>1, <2>2, <2>3, ManifestTyped DEF VerifiedAt, Sealing
<1>27. ASSUME NEW c \in Cells, RenumberReceipt(c) PROVE VerifiedAt'
  <2>1. Unfinished
    BY <1>27, UnfinishedYet DEF RenumberReceipt, Sealing
  <2>2. UNCHANGED <<run, manifest, verified, seal>> /\ pc' = "renumber"
    BY <1>27 DEF RenumberReceipt, Repairing
  <2>3. Unfinished'
    BY <2>1, <2>2 DEF Unfinished
  <2> QED BY <2>2, <2>3, StillUnfinished DEF Sealing
<1>28. ASSUME NEW c \in Cells, MoveCell(c) PROVE VerifiedAt'
  <2>1. Unfinished
    BY <1>28, UnfinishedYet DEF MoveCell, Sealing
  <2>2. UNCHANGED <<run, manifest, verified, seal>> /\ pc' = "move"
    BY <1>28 DEF MoveCell, Repairing
  <2>3. Unfinished'
    BY <2>1, <2>2 DEF Unfinished
  <2> QED BY <2>2, <2>3, StillUnfinished DEF Sealing
<1>29. ASSUME NEW c \in Cells, LoseReceipt(c) PROVE VerifiedAt'
  <2>1. pc = "idle" /\ ~verified /\ UNCHANGED <<root, run, manifest, verified, seal, pc>>
    BY <1>29 DEF LoseReceipt
  <2> QED BY <2>1 DEF IInv, VerifiedAt, Sealing
<1>30. CASE UNCHANGED vars
  <2>1. UNCHANGED <<pc, run, manifest, root, phase, mark, phases, events, receipt, verified, seal>>
    BY <1>30 DEF vars, disk, evidence, local
  <2>2. /\ Verifies(Seal)' <=> Verifies(Seal)
        /\ EventsExact' <=> EventsExact
        /\ ReceiptsExact' <=> ReceiptsExact
    BY <2>1, EvidenceSame
  <2> QED BY <2>1, <2>2 DEF IInv, VerifiedAt
<1> QED BY <1>1, <1>2, <1>3, <1>4, <1>5, <1>6, <1>7, <1>8, <1>9, <1>10, <1>11, <1>12, <1>13,
    <1>14, <1>15, <1>16, <1>17, <1>18, <1>19, <1>20, <1>21, <1>22, <1>23, <1>24, <1>25, <1>26,
    <1>27, <1>28, <1>29, <1>30 DEF Next


------------------------------------------------------------------------------
(* Theorems *)

\* Every step keeps the invariant.
LEMMA NextIInv == IInv /\ [Next]_vars => IInv'
<1> SUFFICES ASSUME IInv, [Next]_vars PROVE IInv'
  OBVIOUS
<1>1. FilesOK' /\ CountersOK' /\ StreamsOK' /\ RootOK' /\ Positions'
  BY FilesOKKept, CountersOKKept, StreamsOKKept, RootOKKept, PositionsKept
<1>2. PhasesTell' /\ NothingOwed' /\ CellsTell' /\ RepairTells'
  BY PhasesTellKept, NothingOwedKept, CellsTellKept, RepairTellsKept
<1>3. ReceiptsOwned' /\ ArchiveHolds' /\ VerifiedAt'
  BY ReceiptsOwnedKept, ArchiveHoldsKept, VerifiedAtKept
<1> QED BY <1>1, <1>2, <1>3 DEF IInv

\* IInv holds in every reachable state.
LEMMA Inductive == Spec => []IInv
<1>1. IInv /\ [Next]_vars => IInv'
  BY NextIInv
<1> QED BY <1>1, InitIInv, PTL DEF Spec

\* However often the run crashed, failed, lost a receipt and was resumed, what
\* reaches its verification passes it, as the streams of a run that never crashed
\* do: _check_phases, _check_events and _check_receipts hold of the disk, and
\* run.json counts every spawned producer once.
THEOREM ResumedLikeFresh == Spec => []VerifiesLikeFresh
<1>1. IInv => VerifiesLikeFresh
  <2> SUFFICES ASSUME IInv, pc = "verify"
               PROVE  Verifies(Verification) /\ manifest.spawned = Cardinality(Spawned)
    BY DEF VerifiesLikeFresh
  <2>1. /\ phase = Verification /\ Observed = Begun /\ complete \subseteq Cells
        /\ Left \subseteq complete /\ Numbered /\ Counted /\ \A c \in complete : Bound(c)
    BY DEF IInv, FilesOK, Positions, PhasesTell, NothingOwed, CellsTell, Steady
  <2>2. PhasesExact(Verification)
    BY <2>1 DEF PhasesExact, Begun
  <2>3. complete = Cells
    <3>1. \A c \in Cells : PhaseOf[c] < Verification
      BY CellAssumption DEF Verification
    <3> QED BY <2>1, <3>1 DEF Left
  <2>4. Spawned \subseteq Cells
    BY CellAssumption
  <2>5. EventsExact
    BY <2>1, <2>3, <2>4 DEF EventsExact, Numbered, Bound, CellIsComplete
  <2>6. ReceiptsExact
    BY <2>1, <2>3 DEF ReceiptsExact, Bound, CellIsComplete
  <2>7. complete \cap Spawned = Spawned
    BY <2>3, <2>4
  <2> QED BY <2>1, <2>2, <2>5, <2>6, <2>7 DEF Verifies, Counted
<1> QED BY <1>1, Inductive, PTL

\* A seal is only ever found on a root that was verified and still verifies.
THEOREM SealVerified == Spec => []SealedStaysVerified
<1>1. IInv => SealedStaysVerified
  BY DEF IInv, VerifiedAt, SealedStaysVerified
<1> QED BY <1>1, Inductive, PTL

\* The archive of the resume that is going on.
LEMMA Archive ==
    ASSUME IInv, pc \in Repair \ {"archive"}
    PROVE  /\ Attempt \in Attempts /\ superseded[Attempt] \in Archives /\ superseded[Attempt] # None
           /\ superseded \in [Attempts -> Archives \cup {None}]
BY AttemptTyped, FileAssumption DEF IInv, ArchiveHolds, FilesOK

\* Only CutEvents drops events, and those are archived.
LEMMA EventsSafe == ASSUME IInv, Next, pc # "idle" PROVE EventsStay
<1>1. CASE events' = events
  BY <1>1 DEF EventsStay, SameEvent
<1>2. CASE StartCell \/ EndCell
  <2>1. events \in Seq(EventRecords)
    BY <1>2, Started, Ended
  <2>2. events' = events \/ \E r \in EventRecords : events' = Append(events, r)
    BY <1>2, Started, Ended
  <2>3. \A i \in DOMAIN events : i \in DOMAIN events' /\ events'[i] = events[i]
    BY <2>1, <2>2, Recorded
  <2> QED BY <2>3 DEF EventsStay, SameEvent
<1>3. CASE CutEvents
  <2>1. /\ events \in Seq(EventRecords)
        /\ \A j \in DOMAIN events' : SameEvent(events[Place(Retained, j)], events'[j])
        /\ \A k \in Retained : /\ Rank(Retained, k) \in DOMAIN events'
                               /\ Place(Retained, Rank(Retained, k)) = k
    BY <1>3, EventsCut
  <2> DEFINE D == DOMAIN events \ Retained
             t == Subsequence(events, D)
  <2>2. \A k \in D : Rank(D, k) \in DOMAIN t /\ t[Rank(D, k)] = events[k]
    <3>1. D \subseteq DOMAIN events
      OBVIOUS
    <3> QED BY <2>1, <3>1, Listed
  <2>3. /\ Attempt \in Attempts /\ superseded'[Attempt] # None
        /\ superseded'[Attempt].events = t
    BY <1>3, Archive DEF CutEvents, Repair, IInv, ArchiveHolds
  <2>4. ASSUME NEW i \in DOMAIN events
        PROVE  \/ \E j \in DOMAIN events' : SameEvent(events[i], events'[j])
               \/ \E n \in Attempts : superseded'[n] # None
                     /\ \E j \in DOMAIN superseded'[n].events :
                           SameEvent(events[i], superseded'[n].events[j])
    <3>1. CASE i \in Retained
      BY <2>1, <3>1
    <3>2. CASE i \notin Retained
      <4> HIDE DEF t
      <4>1. i \in D
        BY <3>2
      <4>2. Rank(D, i) \in DOMAIN t /\ SameEvent(events[i], t[Rank(D, i)])
        BY <2>2, <4>1 DEF SameEvent
      <4> QED BY <2>3, <4>2
    <3> QED BY <3>1, <3>2
  <2> QED BY <2>4 DEF EventsStay
<1>4. CASE TornWrite
  <2>1. events' \in {events, Torn}
    BY <1>4 DEF TornWrite, evidence
  <2> QED BY <2>1 DEF EventsStay, SameEvent
<1>5. CASE ~(StartCell \/ EndCell \/ CutEvents \/ TornWrite)
  BY <1>1, <1>5 DEF Next, evidence, disk, WriteState, Fresh, WriteInitial, RecordPlans,
      WriteRunning, WritePhase, AppendPhase, NoCellLeft, WriteReceipt, Resume, MakeArchive,
      DropPhases, CutPhases, DropEvents, ReceiptsAgree, WriteResumed, WriteVerifying, Verify,
      WriteCompleted, SealByHand, InstallSeal, InstallChecksum, Interrupted, RenumberReceipt,
      MoveCell, LoseReceipt
<1> QED BY <1>2, <1>3, <1>4, <1>5

\* Only CutPhases and DropPhases drop phase records, and those are archived.
LEMMA PhasesSafe == ASSUME IInv, Next, pc # "idle" PROVE PhasesStay
<1>1. CASE phases' = phases
  BY <1>1 DEF PhasesStay
<1>2. CASE AppendPhase
  <2>1. phases \in Seq(PhaseRecords) /\ \E r : phases' = Append(phases, r)
    BY <1>2, PhaseRecorded DEF AppendPhase
  <2>2. \A i \in DOMAIN phases : i \in DOMAIN phases' /\ phases'[i] = phases[i]
    BY <2>1, LenProperties
  <2> QED BY <2>2 DEF PhasesStay
<1>3. CASE CutPhases
  <2> DEFINE t == SubSeq(phases, 1, 2 * phase)
             u == SubSeq(phases, 2 * phase + 1, Len(phases))
  <2>1. phases \in Seq(PhaseRecords) /\ pc \in Repair /\ IsPrefix(PhasesBelow(phase), Observed)
    BY <1>3 DEF CutPhases, IInv, StreamsOK, PhasesTell, Repair
  <2>2. /\ phase \in Nat /\ 2 * phase \in 0..Len(phases) /\ Len(phases) \in Nat
        /\ t \in Seq(PhaseRecords) /\ Len(t) = 2 * phase
        /\ \A i \in 1..(2 * phase) : t[i] = phases[i]
        /\ u \in Seq(PhaseRecords) /\ Len(u) = Len(phases) - 2 * phase
        /\ \A i \in 1..(Len(phases) - 2 * phase) : u[i] = phases[2 * phase + i]
    BY <2>1, PhasesCut
  <2>3. /\ Attempt \in Attempts /\ superseded'[Attempt] # None
        /\ superseded'[Attempt].phases = u /\ phases' = t
    BY <1>3, Archive DEF CutPhases, Repair, IInv, ArchiveHolds
  <2> HIDE DEF t, u
  <2>4. DOMAIN phases = 1..Len(phases) /\ DOMAIN t = 1..Len(t) /\ DOMAIN u = 1..Len(u)
    BY <2>1, <2>2, LenProperties
  <2>5. ASSUME NEW i \in DOMAIN phases
        PROVE  \/ \E j \in DOMAIN phases' : phases'[j] = phases[i]
               \/ \E n \in Attempts : superseded'[n] # None
                     /\ \E j \in DOMAIN superseded'[n].phases :
                           phases[i] = superseded'[n].phases[j]
    <3>1. CASE i <= 2 * phase
      BY <2>2, <2>3, <2>4, <3>1
    <3>2. CASE i > 2 * phase
      <4> DEFINE j == i - 2 * phase
      <4>1. j \in 1..Len(phases) - 2 * phase /\ 2 * phase + j = i
        BY <2>2, <2>4, <3>2
      <4>2. j \in DOMAIN u /\ phases[i] = u[j]
        BY <2>2, <2>4, <4>1
      <4> QED BY <2>3, <4>2
    <3> QED BY <2>2, <2>4, <3>1, <3>2
  <2> QED BY <2>5 DEF PhasesStay
<1>4. CASE TornWrite
  <2>1. phases' \in {phases, Torn}
    BY <1>4 DEF TornWrite, evidence
  <2> QED BY <2>1 DEF PhasesStay
<1>5. CASE ~(AppendPhase \/ CutPhases \/ TornWrite)
  BY <1>1, <1>5 DEF Next, evidence, disk, WriteState, Fresh, WriteInitial, RecordPlans,
      WriteRunning, WritePhase, NoCellLeft, StartCell, EndCell, WriteReceipt, Resume,
      MakeArchive, DropPhases, DropEvents, CutEvents, ReceiptsAgree, WriteResumed,
      WriteVerifying, Verify, WriteCompleted, SealByHand, InstallSeal, InstallChecksum,
      Interrupted, RenumberReceipt, MoveCell, LoseReceipt
<1> QED BY <1>2, <1>3, <1>4, <1>5

\* Only a move takes receipts away, and it takes them to the archive.
LEMMA ReceiptsSafe == ASSUME IInv, Next, pc # "idle" PROVE ReceiptsStay
<1>1. CASE receipt' = receipt
  BY <1>1 DEF ReceiptsStay
<1>2. CASE WriteReceipt
  <2>1. receipt[cell] = None
    BY <1>2 DEF WriteReceipt, IInv, Positions, ReceiptsOwned, Busy
  <2>2. \A c \in Cells : c # cell => receipt'[c] = receipt[c]
    BY <1>2, ReceiptTyped
  <2> QED BY <2>1, <2>2 DEF ReceiptsStay
<1>3. ASSUME NEW d \in Cells, RenumberReceipt(d) PROVE ReceiptsStay
  <2>1. /\ receipt' = [receipt EXCEPT ![d] = Renumbered(d)] /\ d \in Cells
        /\ receipt \in [Cells -> Receipts \cup {None, Torn}]
    BY <1>3 DEF RenumberReceipt, IInv, FilesOK
  <2>2. Renumbered(d) \in Receipts /\ Renumbered(d).time = receipt[d].time
    BY <1>3, RenumberedTyped DEF RenumberReceipt
  <2>3. \A c \in Cells : IF c = d THEN receipt'[c] = Renumbered(d) ELSE receipt'[c] = receipt[c]
    BY <2>1
  <2> QED BY <2>2, <2>3, FileAssumption DEF ReceiptsStay
<1>4. ASSUME NEW d \in Cells, MoveCell(d) PROVE ReceiptsStay
  <2>1. /\ Attempt \in Attempts /\ superseded[Attempt] \in Archives
        /\ superseded \in [Attempts -> Archives \cup {None}]
        /\ receipt \in [Cells -> Receipts \cup {None, Torn}]
    BY <1>4, Archive DEF MoveCell, Repair, IInv, FilesOK
  <2> DEFINE w == [superseded[Attempt] EXCEPT !.receipts[d] = receipt[d]]
  <2>2. w \in Archives /\ w.receipts[d] = receipt[d] /\ w # None
    BY <2>1, Archived
  <2>3. superseded' = [superseded EXCEPT ![Attempt] = w] /\ receipt' = [receipt EXCEPT ![d] = None]
    BY <1>4 DEF MoveCell
  <2> HIDE DEF w
  <2>4. superseded'[Attempt] = w /\ \A c \in Cells : c # d => receipt'[c] = receipt[c]
    BY <2>1, <2>3
  <2> QED BY <2>1, <2>2, <2>4 DEF ReceiptsStay
<1>5. CASE TornWrite
  <2>1. /\ receipt \in [Cells -> Receipts \cup {None, Torn}]
        /\ \/ receipt' = receipt
           \/ pc = "receipt" /\ receipt' = [receipt EXCEPT ![cell] = Torn]
           \/ \E d \in Misnumbered : receipt' = [receipt EXCEPT ![d] = Torn]
    BY <1>5 DEF TornWrite, evidence, IInv, FilesOK
  <2>2. \A c \in Cells : receipt'[c] \in {receipt[c], Torn}
    BY <2>1
  <2> QED BY <2>2, FileAssumption DEF ReceiptsStay
<1>6. CASE ~(WriteReceipt \/ TornWrite \/ \E d \in Cells : RenumberReceipt(d) \/ MoveCell(d))
  BY <1>1, <1>6 DEF Next, evidence, disk, WriteState, Fresh, WriteInitial, RecordPlans,
      WriteRunning, WritePhase, AppendPhase, NoCellLeft, StartCell, EndCell, Resume,
      MakeArchive, DropPhases, CutPhases, DropEvents, CutEvents, ReceiptsAgree, WriteResumed,
      WriteVerifying, Verify, WriteCompleted, SealByHand, InstallSeal, InstallChecksum,
      Interrupted, LoseReceipt
<1> QED BY <1>2, <1>3, <1>4, <1>5, <1>6

\* No step of a resume, short of one cut in the middle of a write, loses a whole
\* record of a stream or a receipt: it is where it was, or below superseded/.
THEOREM ResumeKeepsAll == Spec => NothingDestroyed
<1>1. IInv /\ [Next]_vars =>
          [pc # "idle" => EventsStay /\ PhasesStay /\ ReceiptsStay]_vars
  BY EventsSafe, PhasesSafe, ReceiptsSafe
<1> QED BY <1>1, Inductive, PTL DEF Spec, NothingDestroyed
==============================================================================
