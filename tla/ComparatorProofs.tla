--------------------------- MODULE ComparatorProofs ---------------------------
(* The comparators of src/baselines/: the contexts and the overflow flag of      *)
(* Bcg12, what is proved of Sj16, and the answers of Bcg12.                       *)
EXTENDS Bcg12, Sj16, FiniteSetTheorems, ArithmeticLemmas, TLAPS

(***************************************************************************)
(* For any number of threads, any pool, any groups and sets: no BN_CTX is  *)
(* used by two threads, and a query that used the fallback is not answered *)
(* unless a test fixed its exponents.                                      *)
(*                                                                         *)
(* A thread holds a context only while its loop runs, so the pool is not   *)
(* replaced under it (OnlyInLoops), and the threads beyond the pool hold   *)
(* the one fallback one at a time (FallbackAlone).                         *)
(*                                                                         *)
(* The two exponent draws see every overflow because the schedule is       *)
(* static: a thread that has an iteration of a later loop had one of the   *)
(* hash loop over the same items, so it raised the flag before the first   *)
(* draw (Told), and after the second draw no thread beyond the pool has    *)
(* anything to do.                                                         *)
(***************************************************************************)

\* The fields the steps rely on.
Fields == {"stands", "phase", "out", "done", "a", "b", "fixed"}
Shape ==
    /\ Fields \subseteq DOMAIN query
    /\ DOMAIN worker = Tids
    /\ \A t \in Tids : DOMAIN worker[t] = {"next", "last", "call", "at"}
    /\ pool \in Nat

\* A thread is inside the group, or waits for the fallback, only during its own
\* iterations of a parallel loop.
OnlyInLoops == \A t \in Tids : worker[t].at # "ready" => InRegion /\ Busy(t)

\* Under the curve at most one thread beyond the pool is inside.
FallbackAlone == backend = "EC" =>
    \A s, t \in Tids : s # t /\ s >= pool /\ t >= pool
                       => ~(worker[s].at = "inside" /\ worker[t].at = "inside")

IInv == Shape /\ OnlyInLoops /\ FallbackAlone

AllReady == DOMAIN worker = Tids /\ \A t \in Tids : DOMAIN worker[t] = {"next", "last", "call", "at"} /\ worker[t].at = "ready"

-----------------------------------------------------------------------------
\* A team whose threads are all outside the group satisfies everything.
LEMMA ReadyIsFine ==
    ASSUME AllReady, pool \in Nat, Fields \subseteq DOMAIN query
    PROVE  IInv
BY DEF AllReady, IInv, Shape, OnlyInLoops, FallbackAlone

\* Outside a parallel loop every thread is outside the group.
LEMMA OutsideReady ==
    ASSUME IInv, ~InRegion
    PROVE  AllReady
BY DEF AllReady, IInv, Shape, OnlyInLoops

\* A team that has just been forked is outside the group.
LEMMA ForkReady ==
    ASSUME NEW q, NEW ph, Fork(q, ph)
    PROVE  AllReady'
<1> DEFINE Forked(t) == IF ph \in Regions /\ t < threads
             THEN [Resting EXCEPT !.next = Start(Iterations(q, ph), t) + 1, !.last = Start(Iterations(q, ph), t + 1)]
             ELSE Resting
<1>1. worker' = [t \in Tids |-> Forked(t)]
    BY DEF Fork
<1>2. \A t \in Tids : DOMAIN Forked(t) = {"next", "last", "call", "at"} /\ Forked(t).at = "ready"
    BY DEF Resting
<1> HIDE DEF Forked
<1> QED
    BY <1>1, <1>2 DEF AllReady, Tids

\* Beginning a part of the protocol keeps the fields of the query.
LEMMA EnterReady ==
    ASSUME NEW q, NEW ph, Enter(q, ph), Fields \subseteq DOMAIN q, pool' \in Nat
    PROVE  IInv'
<1>1. Fields \subseteq DOMAIN query'
    BY DEF Enter, Fields
<1>2. AllReady'
    BY ForkReady DEF Enter
<1> QED
    BY <1>1, <1>2 DEF AllReady, IInv, Shape, OnlyInLoops, FallbackAlone

LEMMA InitIInv == Init => IInv
BY Bcg12Assumption, ReadyIsFine DEF Init, AllReady, Idle, Fields, Resting, Tids

-----------------------------------------------------------------------------
\* What leaves the team where it is and keeps the loop, or finds the team outside
\* the group, preserves the invariant.
LEMMA TeamUntouched ==
    ASSUME IInv, UNCHANGED worker, pool' \in Nat, AllReady,
           Fields \subseteq DOMAIN query'
    PROVE  IInv'
BY DEF AllReady, IInv, Shape, OnlyInLoops, FallbackAlone

\* A refused or ended query keeps its fields.
LEMMA RefuseFields ==
    ASSUME Refuse \/ Terminate PROVE Fields \subseteq DOMAIN query'
BY DEF Refuse, Terminate, Idle, Fields

LEMMA StoreFields ==
    ASSUME IInv, NEW name, NEW vec
    PROVE  Fields \subseteq DOMAIN Store(name, vec)
BY DEF Store, IInv, Shape, Fields

\* The set-up calls, made while no query is open.
LEMMA SetUpKeeps ==
    ASSUME IInv, Setup \/ (\E s \in Seeds : SetHashSeed(s)) \/ (\E count \in 1 .. MaxThreads : SetThreads(count)),
           threads \in Nat
    PROVE  IInv'
<1>1. AllReady
    BY OutsideReady DEF Setup, SetHashSeed, SetThreads, Quiet, InRegion
<1> QED
    BY <1>1, TeamUntouched DEF Setup, SetHashSeed, SetThreads, object, IInv, Shape

\* A query is begun or refused at its start.
LEMMA RunQueryKeeps ==
    ASSUME IInv, NEW x \in Sets, NEW y \in Sets, NEW fixed \in BOOLEAN, RunQuery(x, y, fixed)
    PROVE  IInv'
<1> DEFINE begun == [Idle EXCEPT !.x = x, !.y = y, !.asked = seed, !.fixed = fixed]
<1>1. AllReady
    BY OutsideReady DEF RunQuery, InRegion
<1>2. pool' \in Nat
    BY DEF RunQuery, object, IInv, Shape
<1>3. CASE query' = [begun EXCEPT !.stands = "refused", !.fixed = FALSE] /\ UNCHANGED worker
    BY <1>1, <1>2, <1>3, TeamUntouched DEF Idle, Fields
<1>4. CASE Enter([begun EXCEPT !.stands = "asked", !.a = Items(x), !.b = Items(y)], "hashA")
    <2> DEFINE q == [begun EXCEPT !.stands = "asked", !.a = Items(x), !.b = Items(y)]
    <2>1. Fields \subseteq DOMAIN q
        BY DEF Idle, Fields
    <2> HIDE DEF q
    <2> QED
        BY <1>2, <1>4, <2>1, EnterReady DEF q
<1> QED
    BY <1>3, <1>4 DEF RunQuery

\* A call into the group by one thread.
LEMMA CallKeeps ==
    ASSUME IInv, NEW t \in Tids, CallStep(t)
    PROVE  IInv'
<1>1. pool' = pool /\ backend' = backend
    BY DEF CallStep, BeginCall, LockFallback, EndCall, CallThrows, object
<1>2. ASSUME Terminate PROVE IInv'
    <2>1. AllReady'
        BY <1>2 DEF Terminate, AllReady, Resting
    <2> QED
        BY <1>1, <1>2, <2>1, RefuseFields DEF AllReady, IInv, Shape, OnlyInLoops, FallbackAlone
<1>3. CASE BeginCall(t) /\ ~Terminate
    <2> DEFINE place == IF backend = "FF" \/ t < pool THEN "inside" ELSE "waiting"
    <2>1. worker' = [worker EXCEPT ![t].at = place] /\ UNCHANGED query
        BY <1>3 DEF BeginCall
    <2>2. Shape'
        BY <1>1, <2>1 DEF IInv, Shape
    <2>3. OnlyInLoops'
        BY <1>3, <2>1 DEF IInv, Shape, OnlyInLoops, BeginCall, InRegion, Busy
    <2>4. FallbackAlone'
        BY <1>1, <2>1 DEF IInv, Shape, FallbackAlone, Tids
    <2> QED
        BY <2>2, <2>3, <2>4 DEF IInv
<1>4. CASE LockFallback(t)
    <2>1. worker' = [worker EXCEPT ![t].at = "inside"] /\ UNCHANGED query
        BY <1>4 DEF LockFallback
    <2>2. Shape'
        BY <1>1, <2>1 DEF IInv, Shape
    <2>3. OnlyInLoops'
        BY <1>4, <2>1 DEF IInv, Shape, OnlyInLoops, LockFallback, InRegion, Busy
    <2>4. FallbackAlone'
        BY <1>1, <1>4, <2>1 DEF IInv, Shape, FallbackAlone, LockFallback
    <2> QED
        BY <2>2, <2>3, <2>4 DEF IInv
<1>5. CASE EndCall(t)
    <2>1. /\ DOMAIN query' = DOMAIN query
          /\ query'.stands = query.stands /\ query'.phase = query.phase
        BY <1>5 DEF EndCall, IInv, Shape, Fields
    <2>2. /\ DOMAIN worker' = Tids
          /\ DOMAIN worker'[t] = {"next", "last", "call", "at"} /\ worker'[t].at = "ready"
          /\ \A s \in Tids \ {t} : worker'[s] = worker[s]
        BY <1>5, ZenonT(40) DEF EndCall, IInv, Shape
    <2>3. Shape'
        BY <1>1, <2>1, <2>2 DEF IInv, Shape
    <2>4. OnlyInLoops'
        BY <2>1, <2>2 DEF IInv, OnlyInLoops, InRegion, Busy
    <2>5. FallbackAlone'
        BY <1>1, <2>2 DEF IInv, FallbackAlone
    <2> QED
        BY <2>3, <2>4, <2>5 DEF IInv
<1>6. CASE CallThrows(t)
    BY <1>2, <1>6 DEF CallThrows
<1> QED
    BY <1>2, <1>3, <1>4, <1>5, <1>6 DEF CallStep

\* The barrier at the end of a loop: no thread has an iteration left, so none is
\* inside.
LEMMA JoinKeeps ==
    ASSUME IInv, Join
    PROVE  IInv'
<1>1. AllReady
    BY DEF Join, AllReady, IInv, Shape, OnlyInLoops
<1>2. pool' \in Nat
    BY DEF Join, object, IInv, Shape
<1>3. CASE query.phase = "unblind"
    <2>1. UNCHANGED worker /\ Fields \subseteq DOMAIN query'
        BY <1>3 DEF Join, Idle, Fields
    <2> QED
        BY <1>1, <1>2, <2>1, TeamUntouched
<1>4. CASE query.phase # "unblind"
    BY <1>2, <1>4, StoreFields, EnterReady DEF Join
<1> QED
    BY <1>3, <1>4

\* The sequential code between the loops, and an exception out of it.
LEMMA SequentialKeeps ==
    ASSUME IInv, Sequential \/ SequentialThrows \/ Leave
    PROVE  IInv'
<1>1. pool' \in Nat
    BY DEF Sequential, SequentialThrows, Leave, DrawA, DrawB, Shuffle, object, IInv, Shape
<1>2. ASSUME NEW r, DrawA(r) PROVE IInv'
    <2>1. Fields \subseteq DOMAIN [query EXCEPT !.ra = r]
        BY DEF IInv, Shape, Fields
    <2> QED
        BY <1>1, <1>2, <2>1, EnterReady DEF DrawA
<1>3. ASSUME NEW r, NEW pi, DrawB(r, pi) PROVE IInv'
    <2>1. Fields \subseteq DOMAIN [query EXCEPT !.rb = r, !.pi = pi]
        BY DEF IInv, Shape, Fields
    <2> QED
        BY <1>1, <1>3, <2>1, EnterReady DEF DrawB
<1>4. ASSUME NEW pi, Shuffle(pi) PROVE IInv'
    BY <1>1, <1>4, StoreFields, EnterReady DEF Shuffle
<1>5. CASE Sequential
    BY <1>2, <1>3, <1>4, <1>5 DEF Sequential
<1>6. CASE SequentialThrows
    <2>1. AllReady
        BY <1>6, OutsideReady DEF SequentialThrows, ChecksOverflow, AsksRandomness, InRegion, Regions
    <2> QED
        BY <1>1, <1>6, <2>1, TeamUntouched, RefuseFields DEF SequentialThrows
<1>7. CASE Leave
    <2>1. AllReady
        BY <1>7, OutsideReady DEF Leave, InRegion
    <2>2. Fields \subseteq DOMAIN query' /\ UNCHANGED worker
        BY <1>7 DEF Leave, Idle, Fields
    <2> QED
        BY <1>1, <2>1, <2>2, TeamUntouched
<1> QED
    BY <1>5, <1>6, <1>7

-----------------------------------------------------------------------------
(* The theorem *)

\* The team size is a number, so the pool a set-up makes has a size.
TeamSized == threads \in Nat

\* Every step preserves the invariant, one lemma per group of actions.
LEMMA NextIInv ==
    ASSUME IInv, TeamSized, [Next]_vars
    PROVE  IInv' /\ TeamSized'
<1> USE DEF TeamSized
<1>1. CASE Setup \/ (\E s \in Seeds : SetHashSeed(s)) \/ (\E count \in 1 .. MaxThreads : SetThreads(count))
    <2>1. IInv'
        BY <1>1, SetUpKeeps
    <2>2. threads' \in Nat
        BY <1>1, Bcg12Assumption DEF Setup, SetHashSeed, SetThreads
    <2> QED
        BY <2>1, <2>2
<1>2. CASE \E x, y \in Sets, fixed \in {f \in BOOLEAN : f => mode = "exact"} : RunQuery(x, y, fixed)
    <2>1. PICK x \in Sets, y \in Sets, fixed \in BOOLEAN : RunQuery(x, y, fixed)
        BY <1>2
    <2> QED
        BY <2>1, RunQueryKeeps DEF RunQuery
<1>3. CASE \E t \in Tids : CallStep(t)
    BY <1>3, CallKeeps DEF CallStep, BeginCall, LockFallback, EndCall, CallThrows
<1>4. CASE Join
    BY <1>4, JoinKeeps DEF Join
<1>5. CASE Sequential \/ SequentialThrows \/ Leave
    BY <1>5, SequentialKeeps DEF Sequential, SequentialThrows, Leave, DrawA, DrawB, Shuffle
<1>6. CASE UNCHANGED vars
    BY <1>6 DEF vars, object, IInv, Shape, OnlyInLoops, FallbackAlone, InRegion, Busy
<1> QED
    BY <1>1, <1>2, <1>3, <1>4, <1>5, <1>6 DEF Next, Advance

\* Two threads inside the group use two contexts, or one of them would be a
\* second holder of the fallback.
LEMMA IInvExclusive == IInv => ContextExclusive
<1> SUFFICES ASSUME IInv, backend = "EC", NEW s \in Tids, NEW t \in Tids, s # t,
                    worker[s].at = "inside", worker[t].at = "inside"
             PROVE  Context(s) # Context(t)
    BY DEF ContextExclusive
<1>1. ~(s >= pool /\ t >= pool)
    BY DEF IInv, FallbackAlone
<1> QED
    BY <1>1, Bcg12Assumption DEF Context, Tids, IInv, Shape

\* For any number of threads and any pool size no BN_CTX is used by two threads
\* at a time: the pooled ones are private, the fallback is held alone.
THEOREM NeverShared == Spec => []ContextExclusive
<1>1. Init => IInv /\ TeamSized
    BY InitIInv, Bcg12Assumption DEF Init, TeamSized
<1>2. IInv /\ TeamSized /\ [Next]_vars => (IInv /\ TeamSized)'
    BY NextIInv
<1> QED
    BY <1>1, <1>2, IInvExclusive, PTL DEF Spec

-----------------------------------------------------------------------------
(* The overflow is told *)

\* The part of a loop over size items that is thread t's.
Share(size, t) == IF t < threads
               THEN [Resting EXCEPT !.next = Start(size, t) + 1, !.last = Start(size, t + 1)]
               ELSE Resting

\* A thread beyond the pool has a part of a loop over size items.
Late(size) == \E t \in Tids : t >= pool /\ Share(size, t).next <= Share(size, t).last
LateA == Late(Len(query.a))
LateB == Late(Len(query.b))

\* No thread beyond the pool has begun its part.
Untouched == \A t \in Tids : t >= pool => worker[t] = Share(Iterations(query, query.phase), t)

EarlyPhases == {"hashA", "hashB", "drawA", "round1", "drawB"}
LatePhases == {"blindA", "shuffle", "blindB", "unblind"}

Told ==
    /\ query.phase \in EarlyPhases \cup LatePhases
    /\ query.phase \in {"hashA", "hashB"} => overflow \/ Untouched
    /\ query.phase \in EarlyPhases \ {"hashA"} => overflow \/ ~LateA
    /\ query.phase \in EarlyPhases \ {"hashA", "hashB"} => overflow \/ ~LateB
    /\ query.phase \in EarlyPhases => overflow \/ ~strayed
    /\ query.phase \in LatePhases => ~strayed /\ ~LateA /\ ~LateB
    /\ query.phase \in LatePhases \ {"shuffle"} => Untouched

Telling ==
    /\ backend \in {"FF", "EC"} /\ overflow \in BOOLEAN /\ strayed \in BOOLEAN
    /\ backend = "FF" => ~strayed
    /\ backend = "EC" /\ query.stands = "asked" /\ ~query.fixed => Told
    /\ backend = "EC" /\ query.stands = "answered" /\ ~query.fixed => ~strayed

Flagged == IInv /\ Telling

\* What the query and the team are does not change while a query is open.
SameQuery == /\ UNCHANGED <<backend, pool, threads>>
             /\ query'.a = query.a /\ query'.b = query.b /\ query'.fixed = query.fixed

\* Who has a part of a loop is settled when the query begins.
LEMMA SameLate ==
    ASSUME SameQuery PROVE LateA' = LateA /\ LateB' = LateB
BY DEF SameQuery, LateA, LateB, Late, Share, Start, Smaller, Tids, Resting

\* A loop has just been forked: nobody has begun.
LEMMA EnterUntouched ==
    ASSUME NEW q, NEW ph, Enter(q, ph), Fields \subseteq DOMAIN q, UNCHANGED <<pool, threads>>
    PROVE  /\ query'.stands = q.stands /\ query'.phase = ph /\ query'.fixed = q.fixed
           /\ query'.a = q.a /\ query'.b = q.b
           /\ ph \in Regions => Untouched'
<1>1. /\ query'.stands = q.stands /\ query'.phase = ph /\ query'.fixed = q.fixed
      /\ query'.a = q.a /\ query'.b = q.b
    BY DEF Enter, Fields
<1>2. ASSUME ph \in Regions, NEW t \in Tids
      PROVE  worker'[t] = Share(Iterations(q, ph), t)
    BY <1>2 DEF Enter, Fork, Share
<1>3. Iterations(query', ph) = Iterations(q, ph)
    BY <1>1 DEF Iterations
<1> QED
    BY <1>1, <1>2, <1>3 DEF Untouched, Share, Start, Smaller, Iterations

\* A part that has not been begun is outside the group.
LEMMA ShareReady == \A size, t : Share(size, t).at = "ready"
BY DEF Share, Resting

\* When every thread has finished its part and nobody beyond the pool had begun,
\* nobody beyond the pool had a part.
LEMMA LoopDone ==
    ASSUME IInv, Untouched, query.phase \in Regions, \A t \in Tids : ~Busy(t)
    PROVE  IF query.phase \in {"hashB", "blindB"} THEN ~LateB ELSE ~LateA
BY DEF Untouched, Busy, Late, LateA, LateB, Iterations

\* Nobody beyond the pool takes part in a loop it has no part of.
LEMMA NobodyLate ==
    ASSUME Untouched, ~LateA, ~LateB, NEW t \in Tids, t >= pool
    PROVE  ~Busy(t) /\ worker[t].at = "ready"
BY ShareReady DEF Untouched, Busy, Late, LateA, LateB, Iterations

\* The steps of a thread that raise no flag: its own place in the team moves, and
\* it is either in the pool or has begun before.
LEMMA QuietCallTells ==
    ASSUME Flagged, InRegion, SameQuery, UNCHANGED <<overflow, strayed>>,
           query'.stands = query.stands, query'.phase = query.phase,
           NEW t \in Tids, t < pool \/ worker[t].at # "ready",
           \A s \in Tids \ {t} : worker'[s] = worker[s]
    PROVE  Telling'
<1>1. CASE backend = "FF" \/ query.fixed
    BY <1>1 DEF Flagged, Telling, SameQuery, InRegion
<1>2. CASE backend = "EC" /\ ~query.fixed
    <2>1. Told
        BY <1>2 DEF Flagged, Telling, InRegion
    <2>2. LateA' = LateA /\ LateB' = LateB
        BY SameLate
    <2>3. \A s \in Tids : Share(Iterations(query, query.phase), s)' = Share(Iterations(query, query.phase), s)
        BY DEF SameQuery, Share, Start, Smaller, Iterations, Resting
    <2>4. Untouched => t < pool
        BY ShareReady, Bcg12Assumption DEF Untouched, Flagged, IInv, Shape, Tids
    <2>5. Untouched => Untouched'
        BY <2>3, <2>4 DEF Untouched, SameQuery, Flagged, IInv, Shape, Tids
    <2>6. Told'
        BY <2>1, <2>2, <2>5 DEF Told
    <2> QED
        BY <1>2, <2>6 DEF Flagged, Telling, SameQuery, InRegion
<1> QED
    BY <1>1, <1>2 DEF Flagged, Telling

\* A thread beyond the pool that begins a call raises the flag, and there is none
\* after the second draw.
LEMMA StrayTells ==
    ASSUME Flagged, InRegion, SameQuery, NEW t \in Tids, t >= pool, Busy(t),
           query' = query, backend = "EC", overflow' = TRUE, strayed' = TRUE
    PROVE  Telling'
<1>1. CASE query.fixed
    BY <1>1 DEF Flagged, Telling, SameQuery, InRegion
<1>2. CASE ~query.fixed
    <2>1. Told
        BY <1>2 DEF Flagged, Telling, InRegion
    <2>2. query.phase \notin LatePhases
        BY <2>1, NobodyLate DEF Told, LatePhases, InRegion, Regions
    <2>3. Told'
        BY <2>1, <2>2 DEF Told, EarlyPhases, LatePhases
    <2> QED
        BY <1>2, <2>3 DEF Flagged, Telling, SameQuery, InRegion
<1> QED
    BY <1>1, <1>2

\* The four steps of a call into the group, and the end of the process in it.
LEMMA CallTells ==
    ASSUME Flagged, NEW t \in Tids, CallStep(t)
    PROVE  Telling'
<1>1. ASSUME Terminate, UNCHANGED <<object, strayed>>, overflow' \in BOOLEAN PROVE Telling'
    BY <1>1 DEF Terminate, Idle, object, Flagged, Telling
<1>2. CASE BeginCall(t) /\ ~Terminate
    <2>1. /\ InRegion /\ Busy(t) /\ query' = query
          /\ worker' = [worker EXCEPT ![t].at = IF backend = "FF" \/ t < pool THEN "inside" ELSE "waiting"]
          /\ overflow' = (overflow \/ worker'[t].at = "waiting")
          /\ strayed' = (strayed \/ worker'[t].at = "waiting")
        BY <1>2 DEF BeginCall
    <2>2. SameQuery
        BY <1>2, <2>1 DEF BeginCall, object, SameQuery
    <2>3. worker'[t].at = IF backend = "FF" \/ t < pool THEN "inside" ELSE "waiting"
        BY <2>1 DEF Flagged, IInv, Shape
    <2>4. CASE backend = "FF"
        BY <2>1, <2>2, <2>3, <2>4 DEF SameQuery, Flagged, Telling
    <2>5. CASE backend = "EC" /\ t < pool
        <3>1. overflow' = overflow /\ strayed' = strayed
            BY <2>1, <2>3, <2>5 DEF Flagged, Telling
        <3> QED
            BY <2>1, <2>2, <2>5, <3>1, QuietCallTells
    <2>6. CASE backend = "EC" /\ t >= pool
        <3>1. worker'[t].at = "waiting"
            BY <2>3, <2>6, Bcg12Assumption DEF Tids, Flagged, IInv, Shape
        <3>2. overflow' = TRUE /\ strayed' = TRUE
            BY <2>1, <3>1
        <3> QED
            BY <2>1, <2>2, <2>6, <3>2, StrayTells
    <2> QED
        BY <2>4, <2>5, <2>6, Bcg12Assumption DEF Tids, Flagged, IInv, Shape, Telling
<1>3. CASE LockFallback(t)
    <2>1. SameQuery /\ UNCHANGED <<overflow, strayed, query>> /\ InRegion /\ worker[t].at # "ready"
        BY <1>3 DEF LockFallback, SameQuery, object
    <2>2. \A s \in Tids \ {t} : worker'[s] = worker[s]
        BY <1>3 DEF LockFallback, Flagged, IInv, Shape
    <2> QED
        BY <2>1, <2>2, QuietCallTells
<1>4. CASE EndCall(t)
    <2>1. /\ query'.stands = query.stands /\ query'.phase = query.phase
          /\ query'.a = query.a /\ query'.b = query.b /\ query'.fixed = query.fixed
        BY <1>4 DEF EndCall, Flagged, IInv, Shape, Fields
    <2>2. SameQuery /\ UNCHANGED <<overflow, strayed>> /\ InRegion /\ worker[t].at # "ready"
        BY <1>4, <2>1 DEF EndCall, SameQuery, object
    <2>3. \A s \in Tids \ {t} : worker'[s] = worker[s]
        BY <1>4 DEF EndCall, Flagged, IInv, Shape
    <2> QED
        BY <2>1, <2>2, <2>3, QuietCallTells
<1>5. CASE BeginCall(t) /\ Terminate
    <2>1. query' # query
        BY <1>5 DEF BeginCall, Terminate, Idle, InRegion
    <2>2. overflow' = FALSE /\ UNCHANGED <<object, strayed>>
        BY <1>5, <2>1 DEF BeginCall, object
    <2> QED
        BY <1>1, <1>5, <2>2
<1>6. CASE CallThrows(t)
    BY <1>1, <1>6 DEF CallThrows, Flagged, Telling
<1> QED
    BY <1>2, <1>3, <1>4, <1>5, <1>6 DEF CallStep

\* The barrier at the end of a loop. At the end of the hash loops the flag is up
\* or nobody beyond the pool had a part.
LEMMA JoinTells ==
    ASSUME Flagged, Join
    PROVE  Telling'
<1>1. UNCHANGED <<backend, pool, threads, overflow, strayed>> /\ InRegion
    BY DEF Join, object
<1>2. CASE backend = "FF"
    BY <1>1, <1>2 DEF Flagged, Telling
<1>3. CASE backend = "EC" /\ query.phase = "unblind"
    <2>1. query'.stands = "answered" /\ query'.fixed = query.fixed
        BY <1>3 DEF Join, Idle
    <2> QED
        BY <1>1, <1>3, <2>1 DEF Flagged, Telling, Told, InRegion, LatePhases
<1>4. CASE backend = "EC" /\ query.phase # "unblind"
    <2> DEFINE q == Store(query.phase, query.out)
    <2>1. /\ Fields \subseteq DOMAIN q /\ q.stands = query.stands /\ q.fixed = query.fixed
          /\ q.a = query.a /\ q.b = query.b
        BY StoreFields DEF Store, Flagged, IInv, Shape, Fields
    <2> HIDE DEF q
    <2>2. Enter(q, After(query.phase))
        BY <1>4 DEF Join, q
    <2>3. /\ query'.stands = query.stands /\ query'.phase = After(query.phase)
          /\ SameQuery /\ (After(query.phase) \in Regions => Untouched')
        BY <1>1, <2>1, <2>2, EnterUntouched DEF SameQuery
    <2>4. LateA' = LateA /\ LateB' = LateB
        BY <2>3, SameLate
    <2>5. CASE query.fixed
        BY <1>1, <1>4, <2>3, <2>5 DEF Flagged, Telling, SameQuery, InRegion
    <2>6. CASE ~query.fixed
        <3>1. Told
            BY <1>1, <1>4, <2>6 DEF Flagged, Telling, InRegion
        <3>2. Untouched => IF query.phase \in {"hashB", "blindB"} THEN ~LateB ELSE ~LateA
            BY LoopDone DEF Flagged, Join, InRegion
        <3>3. Told'
            <4>1. CASE query.phase = "hashA"
                BY <1>1, <2>3, <2>4, <3>1, <3>2, <4>1 DEF Told, After, EarlyPhases, LatePhases, Regions
            <4>2. CASE query.phase = "hashB"
                BY <1>1, <2>3, <2>4, <3>1, <3>2, <4>2 DEF Told, After, EarlyPhases, LatePhases, Regions
            <4>3. CASE query.phase \in {"round1", "blindA", "blindB"}
                BY <1>1, <2>3, <2>4, <3>1, <4>3 DEF Told, After, EarlyPhases, LatePhases, Regions
            <4> QED
                BY <1>1, <1>4, <4>1, <4>2, <4>3 DEF InRegion, Regions
        <3> QED
            BY <1>1, <2>3, <2>6, <3>3 DEF Flagged, Telling, SameQuery, InRegion
    <2> QED
        BY <2>5, <2>6
<1> QED
    BY <1>2, <1>3, <1>4 DEF Flagged, Telling

\* The draws and the shuffle. The second draw goes through only without the flag.
LEMMA SequentialTells ==
    ASSUME Flagged, Sequential
    PROVE  Telling'
<1>1. /\ UNCHANGED <<backend, pool, threads, overflow, strayed>> /\ query.stands = "asked"
      /\ ~(ChecksOverflow /\ overflow)
    BY DEF Sequential, DrawA, DrawB, Shuffle, object
<1>2. ASSUME NEW q, Fields \subseteq DOMAIN q, query.phase \in {"drawA", "drawB", "shuffle"},
             Enter(q, After(query.phase)),
             q.stands = query.stands, q.a = query.a, q.b = query.b, q.fixed = query.fixed
      PROVE  Telling'
    <2>1. /\ query'.stands = query.stands /\ query'.phase = After(query.phase)
          /\ SameQuery /\ (After(query.phase) \in Regions => Untouched')
        BY <1>1, <1>2, EnterUntouched DEF SameQuery
    <2>2. LateA' = LateA /\ LateB' = LateB
        BY <2>1, SameLate
    <2>3. ASSUME backend = "EC", ~query.fixed PROVE Told'
        <3>1. Told
            BY <1>1, <2>3 DEF Flagged, Telling
        <3>2. query.phase = "drawB" => ~overflow
            BY <1>1, <2>3 DEF ChecksOverflow
        <3> QED
            BY <1>1, <1>2, <2>1, <2>2, <3>1, <3>2 DEF Told, After, EarlyPhases, LatePhases, Regions
    <2> QED
        BY <1>1, <2>1, <2>3 DEF Flagged, Telling, SameQuery
<1>3. ASSUME NEW r, DrawA(r) PROVE Telling'
    <2> DEFINE q == [query EXCEPT !.ra = r]
    <2>1. /\ Fields \subseteq DOMAIN q /\ q.stands = query.stands /\ q.a = query.a /\ q.b = query.b
          /\ q.fixed = query.fixed
        BY DEF Flagged, IInv, Shape, Fields
    <2>2. Enter(q, After(query.phase)) /\ query.phase = "drawA"
        BY <1>3 DEF DrawA, After
    <2> HIDE DEF q
    <2> QED
        BY <1>2, <2>1, <2>2
<1>4. ASSUME NEW r, NEW pi, DrawB(r, pi) PROVE Telling'
    <2> DEFINE q == [query EXCEPT !.rb = r, !.pi = pi]
    <2>1. /\ Fields \subseteq DOMAIN q /\ q.stands = query.stands /\ q.a = query.a /\ q.b = query.b
          /\ q.fixed = query.fixed
        BY DEF Flagged, IInv, Shape, Fields
    <2>2. Enter(q, After(query.phase)) /\ query.phase = "drawB"
        BY <1>4 DEF DrawB, After
    <2> HIDE DEF q
    <2> QED
        BY <1>2, <2>1, <2>2
<1>5. ASSUME NEW pi, Shuffle(pi) PROVE Telling'
    <2> DEFINE q == Store("shuffled", [i \in DOMAIN query.a |-> query.done.blindA[pi[i]]])
    <2>1. /\ Fields \subseteq DOMAIN q /\ q.stands = query.stands /\ q.a = query.a /\ q.b = query.b
          /\ q.fixed = query.fixed
        BY StoreFields DEF Store, Flagged, IInv, Shape, Fields
    <2>2. Enter(q, After(query.phase)) /\ query.phase = "shuffle"
        BY <1>5 DEF Shuffle, After
    <2> HIDE DEF q
    <2> QED
        BY <1>2, <2>1, <2>2
<1> QED
    BY <1>3, <1>4, <1>5 DEF Sequential

\* A query begins with nothing strayed and everyone before its part.
LEMMA RunQueryTells ==
    ASSUME Flagged, NEW x, NEW y, NEW fixed, RunQuery(x, y, fixed)
    PROVE  Telling'
<1> DEFINE begun == [Idle EXCEPT !.x = x, !.y = y, !.asked = seed, !.fixed = fixed]
           q == [begun EXCEPT !.stands = "asked", !.a = Items(x), !.b = Items(y)]
<1>1. UNCHANGED <<backend, pool, threads, overflow>> /\ strayed' = FALSE
    BY DEF RunQuery, object
<1>2. CASE query'.stands = "refused"
    BY <1>1, <1>2 DEF Flagged, Telling
<1>3. CASE Enter(q, "hashA")
    <2>1. Fields \subseteq DOMAIN q
        BY DEF Idle, Fields
    <2> HIDE DEF q
    <2>2. query'.stands = q.stands /\ query'.phase = "hashA" /\ Untouched'
        BY <1>1, <1>3, <2>1, EnterUntouched DEF Regions
    <2>3. Told'
        BY <1>1, <2>2 DEF Told, EarlyPhases, LatePhases
    <2>4. query'.stands = "asked"
        BY <2>2 DEF q, Idle
    <2> QED
        BY <1>1, <2>3, <2>4 DEF Flagged, Telling
<1>4. query'.stands = "refused" \/ Enter(q, "hashA")
    BY DEF RunQuery, Idle
<1> QED
    BY <1>2, <1>3, <1>4

\* Every step keeps the flag up to date with the stray calls.
LEMMA NextFlagged ==
    ASSUME Flagged, TeamSized, [Next]_vars
    PROVE  Flagged' /\ TeamSized'
<1>1. ASSUME query'.stands \notin {"asked", "answered"}, UNCHANGED backend,
             strayed' => strayed, strayed' \in BOOLEAN, overflow' \in BOOLEAN
      PROVE  Telling'
    BY <1>1 DEF Flagged, Telling
<1>2. CASE Setup \/ (\E s \in Seeds : SetHashSeed(s)) \/ (\E count \in 1 .. MaxThreads : SetThreads(count))
    <2>1. /\ UNCHANGED <<backend, query, strayed>> /\ query.stands # "asked"
          /\ overflow' \in BOOLEAN
        BY <1>2 DEF Setup, SetHashSeed, SetThreads, object, Quiet, Flagged, Telling
    <2> QED
        BY <2>1, NextIInv DEF Flagged, Telling
<1>3. CASE \E x, y \in Sets, fixed \in {f \in BOOLEAN : f => mode = "exact"} : RunQuery(x, y, fixed)
    BY <1>3, RunQueryTells, NextIInv DEF Flagged
<1>4. CASE \E t \in Tids : CallStep(t)
    BY <1>4, CallTells, NextIInv DEF Flagged
<1>5. CASE Join
    BY <1>5, JoinTells, NextIInv DEF Flagged
<1>6. CASE Sequential
    BY <1>6, SequentialTells, NextIInv DEF Flagged
<1>7. CASE SequentialThrows
    <2>1. query'.stands = "refused" /\ UNCHANGED <<backend, strayed>> /\ overflow' \in BOOLEAN
        BY <1>7 DEF SequentialThrows, Refuse, Idle, object
    <2> QED
        BY <1>1, <1>7, <2>1, NextIInv DEF Flagged, Telling
<1>8. CASE Leave
    <2>1. query'.stands = "idle" /\ UNCHANGED <<backend, overflow>> /\ strayed' = FALSE
        BY <1>8 DEF Leave, Idle, object
    <2> QED
        BY <1>1, <1>8, <2>1, NextIInv DEF Flagged, Telling
<1>9. CASE UNCHANGED vars
    <2>1. SameQuery /\ UNCHANGED <<worker, overflow, strayed, query>>
        BY <1>9 DEF vars, object, SameQuery
    <2>2. LateA' = LateA /\ LateB' = LateB
        BY <2>1, SameLate
    <2>3. Untouched' = Untouched
        BY <2>1 DEF SameQuery, Untouched, Share, Start, Smaller, Iterations, Resting
    <2> QED
        BY <2>1, <2>2, <2>3, NextIInv DEF Flagged, Telling, Told, SameQuery
<1> QED
    BY <1>2, <1>3, <1>4, <1>5, <1>6, <1>7, <1>8, <1>9 DEF Next, Advance

\* However many threads come after the pool was made, a query that used the
\* fallback context is not answered, unless its exponents were fixed.
THEOREM OverflowTold == Spec => []OverflowSurfaces
<1>1. Init => Flagged /\ TeamSized
    <2> SUFFICES ASSUME Init PROVE Flagged /\ TeamSized
        OBVIOUS
    <2>1. query.stands = "idle" /\ backend \in {"FF", "EC"} /\ overflow = FALSE /\ strayed = FALSE
        BY DEF Init, Idle
    <2> QED
        <3>1. IInv /\ TeamSized
            BY InitIInv, Bcg12Assumption DEF Init, TeamSized
        <3> QED
            BY <2>1, <3>1 DEF Flagged, Telling
<1>2. Flagged /\ TeamSized /\ [Next]_vars => (Flagged /\ TeamSized)'
    BY NextFlagged
<1>3. Flagged => OverflowSurfaces
    BY DEF Flagged, Telling, OverflowSurfaces
<1> QED
    BY <1>1, <1>2, <1>3, PTL DEF Spec

------------------------------------------------------------------------------
(***************************************************************************)
(* For any number of concurrent callers, any universe, any pool and any    *)
(* history of set-up calls: no entry of the randomizer pool goes into two  *)
(* ciphertexts. The compare-and-swap hands a query the block behind        *)
(* pool_index_, so the blocks of open queries are disjoint                 *)
(* (BlocksDisjoint) and what lies beyond the index has not been used       *)
(* (RestUnused); an iteration of the loop takes the entry of its own       *)
(* position, the mask takes the last (BlocksUnused).                       *)
(*                                                                         *)
(* Entries the pool does not have are not in DOMAIN used, so nothing is    *)
(* said here about the size of the pool.                                   *)
(***************************************************************************)

SjFields == {"pc", "cur", "base", "left", "z", "failed"}
SjShape ==
    /\ DOMAIN call = Callers
    /\ \A c \in Callers : SjFields \subseteq DOMAIN call[c]
    /\ m \in Nat /\ poolIndex \in Nat
    /\ DOMAIN used \subseteq Nat
    /\ \A i \in DOMAIN used : used[i] \in {0, 1}
    /\ used = [i \in DOMAIN used |-> used[i]]

\* A query that has not reserved yet has its whole loop before it.
Unstarted == \A c \in Callers : call[c].pc \in {"load", "reserve"} => precompute /\ call[c].left = 0 .. m - 1

Holds(c) == precompute /\ call[c].pc = "encrypt"

BlocksReserved == \A c \in Callers : Holds(c) =>
    /\ call[c].base \in Nat /\ call[c].base + m + 1 <= poolIndex
    /\ call[c].left \subseteq 0 .. m - 1

BlocksDisjoint == \A c, d \in Callers : c # d /\ Holds(c) /\ Holds(d) =>
    \/ call[c].base + m + 1 <= call[d].base
    \/ call[d].base + m + 1 <= call[c].base

\* The entries of the iterations still to run and of the mask.
BlocksUnused == \A c \in Callers : Holds(c) =>
    \A i \in call[c].left \cup {m} : call[c].base + i + 1 \in DOMAIN used => used[call[c].base + i + 1] = 0

RestUnused == \A i \in DOMAIN used : i > poolIndex => used[i] = 0

SjIInv == SjShape /\ Unstarted /\ BlocksReserved /\ BlocksDisjoint /\ BlocksUnused /\ RestUnused

\* One caller's query moves.
OnlyMoves(c) ==
    /\ DOMAIN call' = Callers /\ SjFields \subseteq DOMAIN call'[c]
    /\ \A d \in Callers \ {c} : call'[d] = call[d]

-----------------------------------------------------------------------------
\* While no query is open the pool and the universe may be replaced: all that is
\* asked of them is that unreserved entries are unused.
LEMMA QuietKeeps ==
    ASSUME SjIInv, NoneOpen, UNCHANGED call, m' \in Nat, poolIndex' \in Nat,
           \/ UNCHANGED <<used, poolIndex>>
           \/ used' = <<>>
           \/ \E count \in Nat : used' = NoneUsed(count)
    PROVE  SjIInv'
<1>1. ASSUME NEW count \in Nat, used' = NoneUsed(count)
      PROVE  /\ DOMAIN used' \subseteq Nat
             /\ \A i \in DOMAIN used' : used'[i] = 0
             /\ used' = [i \in DOMAIN used' |-> used'[i]]
    BY <1>1 DEF NoneUsed
<1>2. ASSUME used' = <<>>
      PROVE  /\ DOMAIN used' \subseteq Nat
             /\ \A i \in DOMAIN used' : used'[i] = 0
             /\ used' = [i \in DOMAIN used' |-> used'[i]]
    BY <1>2
<1>3. SjShape' /\ RestUnused'
    BY <1>1, <1>2 DEF SjIInv, SjShape, RestUnused
<1>4. \A c \in Callers : call'[c].pc \notin {"load", "reserve", "encrypt"}
    BY DEF NoneOpen
<1> QED
    BY <1>3, <1>4 DEF SjIInv, Unstarted, Holds, BlocksReserved, BlocksDisjoint, BlocksUnused

\* A query that touches neither the pool nor the index, and takes back no
\* iteration, disturbs nobody.
LEMMA MoveKeeps ==
    ASSUME SjIInv, NEW c \in Callers, OnlyMoves(c),
           UNCHANGED <<precompute, m, poolIndex, used>>,
           call'[c].pc \in {"load", "reserve"} => precompute /\ call'[c].left = 0 .. m - 1,
           Holds(c)' => Holds(c) /\ call'[c].base = call[c].base /\ call'[c].left \subseteq call[c].left
    PROVE  SjIInv'
<1> USE DEF OnlyMoves
<1>1. SjShape'
    BY DEF SjIInv, SjShape
<1>2. Unstarted' /\ BlocksReserved' /\ RestUnused'
    BY DEF SjIInv, Unstarted, Holds, BlocksReserved, RestUnused
<1>3. BlocksDisjoint'
    BY DEF SjIInv, Holds, BlocksDisjoint
<1>4. BlocksUnused'
    BY DEF SjIInv, Holds, BlocksUnused
<1> QED
    BY <1>1, <1>2, <1>3, <1>4 DEF SjIInv

\* The compare-and-swap succeeds: the block behind the index is fresh, and every
\* open query's block ends before it.
LEMMA TakeKeeps ==
    ASSUME SjIInv, NEW c \in Callers, ReserveTakes(c)
    PROVE  SjIInv'
<1>1. /\ call'[c].pc = "encrypt" /\ call'[c].base = poolIndex
      /\ call'[c].left = 0 .. m - 1 /\ SjFields \subseteq DOMAIN call'[c]
      /\ DOMAIN call' = Callers
      /\ \A d \in Callers \ {c} : call'[d] = call[d]
    BY DEF ReserveTakes, SjIInv, SjShape, Unstarted, SjFields
<1>2. poolIndex' = poolIndex + m + 1 /\ UNCHANGED <<precompute, m, used>>
    BY DEF ReserveTakes, setup
<1>3. SjShape'
    BY <1>1, <1>2 DEF SjIInv, SjShape
<1>4. Unstarted' /\ RestUnused'
    BY <1>1, <1>2 DEF SjIInv, SjShape, Unstarted, RestUnused
<1>5. BlocksReserved'
    BY <1>1, <1>2 DEF SjIInv, SjShape, Holds, BlocksReserved
<1>6. BlocksDisjoint'
    BY <1>1, <1>2 DEF SjIInv, SjShape, Holds, BlocksReserved, BlocksDisjoint
<1>7. BlocksUnused'
    <2>1. ASSUME NEW i \in 0 .. m, poolIndex + i + 1 \in DOMAIN used
          PROVE  used[poolIndex + i + 1] = 0
        BY <2>1 DEF SjIInv, SjShape, RestUnused
    <2>2. call'[c].left \cup {m} = 0 .. m
        BY <1>1 DEF SjIInv, SjShape
    <2>3. ASSUME NEW d \in Callers \ {c}, Holds(d)' PROVE Holds(d) /\ call'[d] = call[d]
        BY <1>1, <1>2, <2>3 DEF Holds
    <2> QED
        BY <1>1, <1>2, <2>1, <2>2, <2>3 DEF SjIInv, BlocksUnused
<1> QED
    BY <1>3, <1>4, <1>5, <1>6, <1>7 DEF SjIInv

\* Entry i of the caller's block goes into a ciphertext: it was unused, lies in no
\* other block, and is not needed again.
LEMMA SpendKeeps ==
    ASSUME SjIInv, NEW c \in Callers, call[c].pc = "encrypt",
           NEW i \in call[c].left \cup {m}, Spend(call[c].base + i),
           OnlyMoves(c), UNCHANGED <<precompute, m, poolIndex>>,
           call'[c].pc \notin {"load", "reserve"},
           call'[c].pc = "encrypt" =>
               i # m /\ call'[c].base = call[c].base /\ call'[c].left \subseteq call[c].left \ {i}
    PROVE  SjIInv'
<1>1. CASE ~precompute
    BY <1>1, MoveKeeps DEF Spend, Holds
<1>2. CASE precompute
    <2> DEFINE entry == call[c].base + i + 1
    <2>1. \A d \in Callers \ {c} : call'[d] = call[d]
        BY DEF OnlyMoves
    <2>2. Holds(c) /\ call[c].base \in Nat /\ i \in 0 .. m /\ entry \in Nat /\ entry <= poolIndex
        BY <1>2 DEF Holds, SjIInv, SjShape, BlocksReserved
    <2>3. /\ DOMAIN used' = DOMAIN used
          /\ \A j \in DOMAIN used : used'[j] = IF j = entry THEN used[entry] + 1 ELSE used[j]
          /\ used' = [j \in DOMAIN used' |-> used'[j]]
        BY <1>2 DEF Spend
    <2>4. entry \in DOMAIN used => used[entry] = 0
        BY <2>2 DEF SjIInv, BlocksUnused
    <2> HIDE DEF entry
    <2>5. SjShape'
        BY <2>1, <2>3, <2>4 DEF SjIInv, SjShape, OnlyMoves
    <2>6. Unstarted' /\ RestUnused'
        BY <2>1, <2>2, <2>3 DEF SjIInv, SjShape, Unstarted, RestUnused
    <2>7. BlocksReserved' /\ BlocksDisjoint'
        BY <2>1, <2>2 DEF SjIInv, Holds, BlocksReserved, BlocksDisjoint
    <2>8. BlocksUnused'
        <3>1. ASSUME NEW j \in call'[c].left \cup {m}, call'[c].pc = "encrypt" PROVE call[c].base + j + 1 # entry
            BY <2>2, <3>1 DEF entry, SjIInv, SjShape, BlocksReserved
        <3>2. ASSUME NEW d \in Callers \ {c}, Holds(d), NEW j \in call[d].left \cup {m}
              PROVE  call[d].base + j + 1 # entry
            BY <2>2, <3>2 DEF entry, SjIInv, SjShape, BlocksReserved, BlocksDisjoint
        <3> QED
            BY <2>1, <2>2, <2>3, <3>1, <3>2 DEF SjIInv, Holds, BlocksUnused
    <2> QED
        BY <2>5, <2>6, <2>7, <2>8 DEF SjIInv
<1> QED
    BY <1>1, <1>2

-----------------------------------------------------------------------------
(* The actions *)

LEMMA SjInitIInv == SjInit => SjIInv
<1> SUFFICES ASSUME SjInit PROVE SjIInv
    OBVIOUS
<1>1. SjShape
    BY DEF SjInit, SjShape, Blank, SjFields
<1>2. \A c \in Callers : call[c].pc = "idle"
    BY DEF SjInit, Blank
<1> QED
    BY <1>1, <1>2 DEF SjIInv, SjInit, Unstarted, Holds, BlocksReserved, BlocksDisjoint, BlocksUnused, RestUnused

LEMMA SjSetUpKeeps ==
    ASSUME SjIInv,
           \/ SjSetup \/ SetupFails \/ \E u \in Universes : SetUniverse(u)
           \/ \E count \in PoolSizes : PrepareRandomizerPool(count) \/ PrepareThrows(count)
    PROVE  SjIInv'
<1>1. NoneOpen /\ UNCHANGED call
    BY DEF SjSetup, SetupFails, SetUniverse, PrepareRandomizerPool, PrepareThrows, SetUp
<1>2. m' \in Nat /\ poolIndex' \in Nat
    BY Sj16Assumption DEF SjSetup, SetupFails, SetUniverse, PrepareRandomizerPool, PrepareThrows, SjIInv, SjShape
<1>3. \/ UNCHANGED <<used, poolIndex>>
      \/ used' = <<>>
      \/ \E count \in Nat : used' = NoneUsed(count)
    BY Sj16Assumption DEF SjSetup, SetupFails, SetUniverse, PrepareRandomizerPool, PrepareThrows
<1> QED
    BY <1>1, <1>2, <1>3, QuietKeeps

LEMMA RunProtocolKeeps ==
    ASSUME SjIInv, NEW c \in Callers, NEW pair, NEW mask, RunProtocol(c, pair, mask)
    PROVE  SjIInv'
<1> DEFINE r == IF Admitted(pair, mask)
                THEN [Blank EXCEPT !.pair = pair, !.mask = mask, !.left = 0 .. m - 1,
                                   !.z = [i \in 0 .. m - 1 |-> 0],
                                   !.pc = IF precompute THEN "load" ELSE "encrypt"]
                ELSE [Blank EXCEPT !.pair = pair, !.pc = "refused"]
<1>1. call' = [call EXCEPT ![c] = r] /\ UNCHANGED <<precompute, m, poolIndex, used>>
    BY DEF RunProtocol, setup
<1>2. /\ SjFields \subseteq DOMAIN r
      /\ r.pc \in {"load", "reserve"} => precompute /\ r.left = 0 .. m - 1
      /\ ~(r.pc = "encrypt" /\ precompute)
    BY DEF Blank, SjFields
<1> HIDE DEF r
<1>3. OnlyMoves(c) /\ call'[c] = r
    BY <1>1, <1>2 DEF OnlyMoves, SjIInv, SjShape
<1> QED
    BY <1>1, <1>2, <1>3, MoveKeeps DEF Holds

\* A query that throws, or that its caller leaves, holds nothing.
LEMMA ThrowKeeps ==
    ASSUME SjIInv, NEW c \in Callers, Throw(c) \/ call' = [call EXCEPT ![c] = Blank],
           UNCHANGED <<precompute, m, poolIndex, used>>
    PROVE  SjIInv'
<1>1. OnlyMoves(c) /\ call'[c].pc \in {"idle", "refused"}
    <2>1. CASE Throw(c)
        BY <2>1 DEF Throw, Blank, SjFields, OnlyMoves, SjIInv, SjShape
    <2>2. CASE call' = [call EXCEPT ![c] = Blank]
        BY <2>2 DEF Blank, SjFields, OnlyMoves, SjIInv, SjShape
    <2> QED
        BY <2>1, <2>2
<1> QED
    BY <1>1, MoveKeeps DEF Holds

LEMMA ReserveKeeps ==
    ASSUME SjIInv, NEW c \in Callers, Reserve(c)
    PROVE  SjIInv'
<1>1. CASE ReserveLoad(c) \/ ReserveRetries(c)
    <2>1. OnlyMoves(c) /\ call'[c].pc = "reserve" /\ call'[c].left = call[c].left
        BY <1>1 DEF ReserveLoad, ReserveRetries, OnlyMoves, SjIInv, SjShape, SjFields
    <2>2. UNCHANGED <<precompute, m, poolIndex, used>>
        BY <1>1 DEF ReserveLoad, ReserveRetries, setup
    <2>3. precompute /\ call[c].left = 0 .. m - 1
        BY <1>1 DEF ReserveLoad, ReserveRetries, SjIInv, Unstarted
    <2> QED
        BY <2>1, <2>2, <2>3, MoveKeeps DEF Holds
<1>2. CASE ReserveThrows(c)
    BY <1>2, ThrowKeeps DEF ReserveThrows, setup
<1>3. CASE ReserveTakes(c)
    BY <1>3, TakeKeeps
<1> QED
    BY <1>1, <1>2, <1>3 DEF Reserve

LEMMA IterateKeeps ==
    ASSUME SjIInv, NEW c \in Callers, Iterate(c)
    PROVE  SjIInv'
<1> PICK i \in 0 .. m - 1 : EncryptAt(c, i) \/ EncryptThrows(c, i) \/ EncryptSkips(c, i)
    BY DEF Iterate
<1>1. /\ OnlyMoves(c) /\ call[c].pc = "encrypt" /\ call'[c].pc = "encrypt"
      /\ call'[c].base = call[c].base /\ i \in call[c].left /\ call'[c].left = call[c].left \ {i}
    <2>1. CASE EncryptAt(c, i)
        BY <2>1 DEF EncryptAt, OnlyMoves, SjIInv, SjShape, SjFields
    <2>2. CASE EncryptThrows(c, i)
        BY <2>2 DEF EncryptThrows, OnlyMoves, SjIInv, SjShape, SjFields
    <2>3. CASE EncryptSkips(c, i)
        BY <2>3 DEF EncryptSkips, OnlyMoves, SjIInv, SjShape, SjFields
    <2> QED
        BY <2>1, <2>2, <2>3
<1>2. CASE EncryptAt(c, i)
    <2>1. i # m
        BY DEF SjIInv, SjShape
    <2> QED
        BY <1>1, <1>2, <2>1, SpendKeeps DEF EncryptAt, setup
<1>3. CASE EncryptThrows(c, i) \/ EncryptSkips(c, i)
    BY <1>1, <1>3, MoveKeeps DEF EncryptThrows, EncryptSkips, setup, Holds
<1> QED
    BY <1>2, <1>3

LEMMA FinishKeeps ==
    ASSUME SjIInv, NEW c \in Callers, Finish(c) \/ FinishThrows(c)
    PROVE  SjIInv'
<1>1. CASE Finish(c)
    <2>1. OnlyMoves(c) /\ call'[c].pc \in {"answered", "refused"}
        <3>1. CASE Throw(c)
            BY <3>1 DEF Throw, Blank, SjFields, OnlyMoves, SjIInv, SjShape
        <3>2. ASSUME NEW answer,
                     call' = [call EXCEPT ![c] = [Blank EXCEPT !.pc = "answered", !.pair = call[c].pair,
                                                               !.answer = answer]]
              PROVE  OnlyMoves(c) /\ call'[c].pc = "answered"
            BY <3>2 DEF Blank, SjFields, OnlyMoves, SjIInv, SjShape
        <3> QED
            BY <1>1, <3>1, <3>2 DEF Finish
    <2> QED
        BY <1>1, <2>1, SpendKeeps DEF Finish, setup
<1>2. CASE FinishThrows(c)
    BY <1>2, ThrowKeeps DEF FinishThrows, setup
<1> QED
    BY <1>1, <1>2

LEMMA SjNextIInv == SjIInv /\ [SjNext]_sjVars => SjIInv'
<1> SUFFICES ASSUME SjIInv, [SjNext]_sjVars PROVE SjIInv'
    OBVIOUS
<1>1. CASE \/ SjSetup \/ SetupFails \/ \E u \in Universes : SetUniverse(u)
           \/ \E count \in PoolSizes : PrepareRandomizerPool(count) \/ PrepareThrows(count)
    BY <1>1, SjSetUpKeeps
<1>2. ASSUME NEW c \in Callers, NEW pair, NEW mask, RunProtocol(c, pair, mask) PROVE SjIInv'
    BY <1>2, RunProtocolKeeps
<1>3. ASSUME NEW c \in Callers, Step(c) PROVE SjIInv'
    BY <1>3, ReserveKeeps, IterateKeeps, FinishKeeps DEF Step
<1>4. ASSUME NEW c \in Callers, TakeResult(c) PROVE SjIInv'
    BY <1>4, ThrowKeeps DEF TakeResult, setup
<1>5. CASE UNCHANGED sjVars
    BY <1>5 DEF sjVars, setup, SjIInv, SjShape, Unstarted, Holds, BlocksReserved, BlocksDisjoint, BlocksUnused, RestUnused
<1> QED
    BY <1>1, <1>2, <1>3, <1>4, <1>5 DEF SjNext

\* Whatever queries run beside each other, no randomizer of the pool goes into two
\* ciphertexts.
THEOREM NeverTwice == SjSpec => []RandomizerOnce
<1>1. SjIInv => RandomizerOnce
    BY DEF SjIInv, SjShape, RandomizerOnce
<1> QED
    BY SjInitIInv, SjNextIInv, <1>1, PTL DEF SjSpec

------------------------------------------------------------------------------
(* Paillier *)

\* What mpz_powm computes.
LEMMA PowModIs ==
    ASSUME NEW b \in Int, NEW e \in Nat, NEW k \in Nat \ {0}
    PROVE  PowMod(b, e, k) \in 0 .. k - 1 /\ Same(PowMod(b, e, k), Power(b)[e], k)
<1> DEFINE prev == [i \in Nat |-> i - 1]
           next == [i \in Nat |-> [t \in 0 .. k - 1 |-> (t * b) % k]]
           Body(f) == [i \in 0 .. e |-> IF i = 0 THEN 1 % k ELSE (f[i - 1] * b) % k]
           F == CHOOSE f : f = Body(f)
<1>0. 1 % k \in 0 .. k - 1 /\ \A t \in Int : (t * b) % k \in 0 .. k - 1
  <2>1. 1 % k \in 0 .. k - 1
    BY SameRemainder
  <2>2. \A x \in Int : x % k \in 0 .. k - 1
    BY SameRemainder
  <2>3. ASSUME NEW t \in Int PROVE (t * b) % k \in 0 .. k - 1
    <3> DEFINE y == t * b
    <3>1. y \in Int
      OBVIOUS
    <3> HIDE DEF y
    <3>2. y % k \in 0 .. k - 1
      BY <3>1, SameRemainder
    <3> QED BY <3>2 DEF y
  <2> QED BY <2>1, <2>3
<1>1. Recursion(0 .. k - 1, 1 % k, prev, next)
  <2>1. \A i \in Nat, t \in 0 .. k - 1 : next[i][t] \in 0 .. k - 1
    BY <1>0
  <2>2. \A i \in Nat \ {0} : prev[i] \in 0..(i - 1)
    OBVIOUS
  <2> HIDE DEF prev, next
  <2> QED BY <1>0, <2>1, <2>2 DEF Recursion
<1>2. PICK g \in [Nat -> 0 .. k - 1] : g = [i \in Nat |-> IF i = 0 THEN 1 % k ELSE next[i][g[prev[i]]]]
  <2> HIDE DEF prev, next
  <2> QED BY <1>1, RecursiveFunctionExists
<1>3. \A i \in Nat : g[i] = IF i = 0 THEN 1 % k ELSE (g[i - 1] * b) % k
  <2>1. ASSUME NEW i \in Nat, i # 0 PROVE next[i][g[prev[i]]] = (g[i - 1] * b) % k
    <3>1. i - 1 \in Nat /\ prev[i] = i - 1 /\ g[i - 1] \in 0 .. k - 1
      BY <2>1
    <3> DEFINE t == g[i - 1]
    <3>2. next[i][t] = (t * b) % k
      <4> HIDE DEF t
      <4>1. t \in 0 .. k - 1
        BY <3>1 DEF t
      <4> QED BY <4>1
    <3> HIDE DEF next
    <3> QED BY <3>1, <3>2
  <2> HIDE DEF next, prev
  <2> QED BY <1>2, <2>1
<1> DEFINE h == [i \in 0 .. e |-> g[i]]
<1>4. h = Body(h)
  <2>1. ASSUME NEW i \in 0 .. e PROVE h[i] = IF i = 0 THEN 1 % k ELSE (h[i - 1] * b) % k
    <3>1. i \in Nat /\ (i # 0 => i - 1 \in 0 .. e)
      OBVIOUS
    <3>2. h[i] = g[i] /\ (i # 0 => h[i - 1] = g[i - 1])
      BY <3>1
    <3> HIDE DEF h
    <3> QED BY <1>3, <3>1, <3>2
  <2> QED BY <2>1
<1>5. F = Body(F)
  <2> HIDE DEF Body, h
  <2> QED BY <1>4
<1>6. PowMod(b, e, k) = F[e]
  BY DEF PowMod
<1> HIDE DEF F
<1>7. \A i \in 0 .. e : F[i] = IF i = 0 THEN 1 % k ELSE (F[i - 1] * b) % k
  BY <1>5
<1> DEFINE E == Power(b)
           S == {i \in Nat : i <= e => F[i] \in 0 .. k - 1 /\ Same(F[i], E[i], k)}
<1>8. E \in [Nat -> Int] /\ E[0] = 1 /\ \A d \in Nat \ {0} : E[d] = b * E[d - 1]
  BY PowerUnfolds
<1> HIDE DEF E
<1>9. 0 \in S
  <2>1. F[0] = 1 % k
    BY <1>7
  <2>2. Same(1 % k, 1, k)
    BY SameRemainder
  <2> QED BY <1>0, <1>8, <2>1, <2>2
<1>10. ASSUME NEW i \in Nat, i \in S PROVE i + 1 \in S
  <2> SUFFICES ASSUME i + 1 <= e PROVE F[i + 1] \in 0 .. k - 1 /\ Same(F[i + 1], E[i + 1], k)
    OBVIOUS
  <2>1. i <= e /\ i + 1 \in 0 .. e /\ i + 1 # 0 /\ (i + 1) - 1 = i /\ i + 1 \in Nat \ {0}
    OBVIOUS
  <2>2. F[i] \in 0 .. k - 1 /\ Same(F[i], E[i], k)
    BY <1>10, <2>1
  <2> DEFINE t == F[i]
             w == E[i]
  <2>3. F[i + 1] = (t * b) % k /\ E[i + 1] = b * w
    BY <1>7, <1>8, <2>1
  <2>4. t \in Int /\ w \in Int /\ Same(t, w, k)
    BY <1>8, <2>2
  <2> HIDE DEF t, w
  <2>5. Same(t * b, w * b, k)
    <3>1. Same(b, b, k)
      BY SameOrder
    <3> QED BY <2>4, <3>1, SameProduct
  <2>6. Same((t * b) % k, t * b, k) /\ (t * b) % k \in 0 .. k - 1
    <3>1. t * b \in Int
      BY <2>4
    <3> QED BY <3>1, SameRemainder
  <2>7. Same((t * b) % k, w * b, k)
    <3>1. t * b \in Int /\ w * b \in Int /\ (t * b) % k \in Int
      BY <2>4, <2>6
    <3> QED BY <2>5, <2>6, <3>1, SameOrder
  <2>8. w * b = b * w
    BY <2>4
  <2> QED BY <2>3, <2>6, <2>7, <2>8
<1>11. Nat \subseteq S
  <2> HIDE DEF S
  <2> QED BY <1>9, <1>10, InductiveSet
<1> QED BY <1>6, <1>11 DEF E

\* Divides is divisibility.
LEMMA DividesIs ==
    ASSUME NEW d \in Nat \ {0}, NEW x \in Int
    PROVE  Divides(d, x) <=> Same(x, 0, d)
<1> DEFINE r == x % d
<1>1. Same(r, x, d) /\ Same(x, r, d) /\ r \in 0 .. d - 1
  BY SameRemainder
<1>2. Divides(d, x) <=> r = 0
  BY DEF Divides
<1> HIDE DEF r
<1>3. ASSUME Same(x, 0, d) PROVE r = 0
  <2>1. Same(r, 0, d)
    <3>1. r \in Int
      BY <1>1
    <3> QED BY <1>1, <1>3, <3>1, SameOrder
  <2>2. 0 \in 0 .. d - 1
    OBVIOUS
  <2> QED BY <1>1, <2>1, <2>2, SameEqual
<1> QED BY <1>1, <1>2, <1>3

\* Division of a multiple gives the factor.
LEMMA ExactDivision ==
    ASSUME NEW d \in Nat \ {0}, NEW y \in Int
    PROVE  (y * d) \div d = y
<1> DEFINE x == y * d
           c == x \div d
           r == x % d
<1>1. x \in Int /\ x = d * c + r /\ c \in Int /\ r \in 0 .. d - 1
  <2>1. x \in Int
    OBVIOUS
  <2> HIDE DEF x
  <2> QED BY <2>1
<1> HIDE DEF c, r
<1>2. (y - c) * d = r
  BY <1>1
<1>3. y - c >= 1 => (y - c) * d >= d
  BY <1>1
<1>4. y - c <= -1 => (y - c) * d <= -d
  BY <1>1
<1>5. y - c = 0
  BY <1>1, <1>2, <1>3, <1>4
<1>6. c = y
  BY <1>1, <1>5
<1> QED BY <1>6 DEF c

\* Gcd is the greatest of the common divisors.
LEMMA GcdIs ==
    ASSUME NEW a \in Nat, NEW b \in Nat \ {0}
    PROVE  /\ Gcd(a, b) \in 1 .. b
           /\ Divides(Gcd(a, b), a) /\ Divides(Gcd(a, b), b)
           /\ \A e \in Gcd(a, b) + 1 .. b : ~(Divides(e, a) /\ Divides(e, b))
<1> DEFINE Common == {d \in 1 .. b : Divides(d, a) /\ Divides(d, b)}
           Below == {b - d : d \in Common}
<1>1. 1 \in Common
  <2>1. a % 1 = 0 /\ b % 1 = 0
    OBVIOUS
  <2> QED BY <2>1 DEF Divides
<1>2. PICK f \in Below : \A g \in Below : f <= g
  <2>1. Below \subseteq Nat /\ Below # {}
    <3> HIDE DEF Common
    <3>1. Common \subseteq 1 .. b
      BY DEF Common
    <3> QED BY <1>1, <3>1
  <2> HIDE DEF Below
  <2> QED BY <2>1, LeastNatural
<1>3. PICK d \in Common : f = b - d
  OBVIOUS
<1>4. ASSUME NEW e \in d + 1 .. b, Divides(e, a), Divides(e, b) PROVE FALSE
  <2>1. e \in Common
    BY <1>4
  <2>2. b - e \in Below
    BY <2>1
  <2>3. f <= b - e
    BY <1>2, <2>2
  <2> QED BY <1>3, <2>3
<1>5. d \in 1 .. b /\ Divides(d, a) /\ Divides(d, b) /\ \A e \in d + 1 .. b : ~(Divides(e, a) /\ Divides(e, b))
  BY <1>4
<1> QED BY <1>5 DEF Gcd

\* A greatest common divisor of one leaves no other.
LEMMA GcdCoprime ==
    ASSUME NEW a \in Nat, NEW b \in Nat \ {0}, Gcd(a, b) = 1
    PROVE  Coprime(a, b)
<1> SUFFICES ASSUME NEW d \in Nat, Same(a, 0, d), Same(b, 0, d) PROVE d = 1
  BY DEF Coprime
<1>1. d \in 1 .. b
  BY DivisorBounds
<1>2. Divides(d, a) /\ Divides(d, b)
  BY <1>1, DividesIs
<1>3. \A e \in 1 + 1 .. b : ~(Divides(e, a) /\ Divides(e, b))
  BY GcdIs
<1> QED BY <1>1, <1>2, <1>3

\* Two different primes whose lambda has an inverse: what KeyGen keeps.
KeyPrimes(p, q) == PrimeNumber(p) /\ PrimeNumber(q) /\ p # q /\ LambdaInvertible(p, q)

\* Lambda is a common multiple of p - 1 and q - 1.
LEMMA LambdaIs ==
    ASSUME NEW p \in Nat, NEW q \in Nat, p > 1, q > 1
    PROVE  /\ Lambda(p, q) \in Nat
           /\ \E c \in Nat : Lambda(p, q) = (p - 1) * c
           /\ \E c \in Nat : Lambda(p, q) = (q - 1) * c
<1> DEFINE a == p - 1
           b == q - 1
           g == Gcd(a, b)
<1>1. a \in Nat \ {0} /\ b \in Nat \ {0}
  OBVIOUS
<1>2. g \in Nat \ {0} /\ Divides(g, a) /\ Divides(g, b)
  <2> HIDE DEF a, b
  <2>1. g \in 1 .. b /\ Divides(g, a) /\ Divides(g, b)
    BY <1>1, GcdIs
  <2> QED BY <1>1, <2>1
<1>3. Lambda(p, q) = (a * b) \div g
  BY DEF Lambda
<1> HIDE DEF a, b, g
<1>4. Same(a, 0, g) /\ Same(b, 0, g)
  BY <1>1, <1>2, DividesIs
<1>5. PICK c \in Int : a = 0 + c * g
  BY <1>4 DEF Same
<1>6. PICK e \in Int : b = 0 + e * g
  BY <1>4 DEF Same
<1>7. c \in Nat /\ e \in Nat
  <2>1. c <= 0 => c * g <= 0
    BY <1>2
  <2>2. e <= 0 => e * g <= 0
    BY <1>2
  <2> QED BY <1>1, <1>2, <1>5, <1>6, <2>1, <2>2
<1>8. a * b = (a * e) * g /\ a * b = (b * c) * g
  <2>1. a * (e * g) = (a * e) * g /\ b * (c * g) = (b * c) * g /\ a * b = b * a
    BY <1>1, <1>2
  <2>2. a = c * g /\ b = e * g
    BY <1>2, <1>5, <1>6
  <2> QED BY <2>1, <2>2
<1>9. a * e \in Nat /\ b * c \in Nat
  BY <1>1, <1>7
<1>10. (a * b) \div g = a * e /\ (a * b) \div g = b * c
  <2> DEFINE y == a * e
             z == b * c
  <2>1. y \in Int /\ z \in Int /\ a * b = y * g /\ a * b = z * g
    BY <1>8, <1>9
  <2> HIDE DEF y, z
  <2>2. (y * g) \div g = y /\ (z * g) \div g = z
    BY <1>2, <2>1, ExactDivision
  <2>3. (a * b) \div g = y /\ (a * b) \div g = z
    BY <2>1, <2>2
  <2> QED BY <2>3 DEF y, z
<1> QED BY <1>3, <1>7, <1>9, <1>10 DEF a, b

\* A number with no factor of n is one modulo n when raised to lambda.
LEMMA UnitVanishes ==
    ASSUME NEW p, NEW q, KeyPrimes(p, q), NEW r \in Units(p * q), Nonces \subseteq Nat
    PROVE  Same(Power(r)[Lambda(p, q)], 1, p * q)
<1> DEFINE k == p * q
           l == Lambda(p, q)
<1>1. p \in Nat \ {0} /\ q \in Nat \ {0} /\ p > 1 /\ q > 1 /\ p - 1 \in Nat /\ q - 1 \in Nat
  BY DEF KeyPrimes, PrimeNumber
<1>2. k \in Nat \ {0}
  BY <1>1
<1>3. r \in Nat /\ Gcd(r, k) = 1
  BY DEF Units
<1>4. Coprime(r, k)
  <2> HIDE DEF k
  <2> QED BY <1>2, <1>3, GcdCoprime
<1>5. ~Same(r, 0, p) /\ ~Same(r, 0, q)
  <2>1. k = 0 + q * p /\ k = 0 + p * q
    BY <1>1
  <2>2. Same(k, 0, p) /\ Same(k, 0, q)
    <3> HIDE DEF k
    <3> QED BY <1>1, <2>1 DEF Same
  <2> QED BY <1>1, <1>4, <2>2 DEF Coprime
<1>6. l \in Nat /\ (\E c \in Nat : l = (p - 1) * c) /\ (\E c \in Nat : l = (q - 1) * c)
  BY <1>1, LambdaIs
<1> HIDE DEF k, l
<1>7. ASSUME NEW s, s \in {p, q} PROVE Same(Power(r)[l], 1, s)
  <2>1. PrimeNumber(s) /\ s \in Nat /\ s - 1 \in Nat /\ ~Same(r, 0, s)
    BY <1>1, <1>5, <1>7 DEF KeyPrimes
  <2>2. PICK c \in Nat : l = (s - 1) * c
    BY <1>6, <1>7
  <2> DEFINE x == Power(r)[s - 1]
  <2>3. x \in Int
    BY <1>3, <2>1, PowerUnfolds
  <2>4. Same(x, 1, s)
    BY <1>3, <2>1, Fermat
  <2>5. Power(x)[c] = Power(r)[(s - 1) * c]
    BY <1>3, <2>1, PowerOfPower
  <2> HIDE DEF x
  <2>6. Same(Power(x)[c], 1, s)
    BY <2>1, <2>3, <2>4, SamePowerOfOne
  <2> QED BY <2>2, <2>5, <2>6
<1>8. Power(r)[l] \in Int
  BY <1>3, <1>6, PowerUnfolds
<1>9. Same(Power(r)[l], 1, p * q)
  BY <1>7, <1>8, PrimesDivideProduct DEF KeyPrimes
<1> QED BY <1>9 DEF l

\* A nonce's power is invisible after decryption with k and l.
Invisible(w, k, l) == w \in Int /\ Same(Power(w)[l], 1, k * k)

\* The power every ciphertext is blinded with is invisible.
LEMMA NonceInvisible ==
    ASSUME NEW p, NEW q, KeyPrimes(p, q), NEW r \in Units(p * q), Nonces \subseteq Nat
    PROVE  Invisible(PowMod(r, p * q, (p * q) * (p * q)), p * q, Lambda(p, q))
<1> DEFINE k == p * q
           l == Lambda(p, q)
           w == PowMod(r, k, k * k)
<1>1. p \in Nat \ {0} /\ q \in Nat \ {0} /\ p > 1 /\ q > 1
  BY DEF KeyPrimes, PrimeNumber
<1>2. k \in Nat \ {0} /\ r \in Nat
  BY <1>1 DEF Units
<1>3. l \in Nat
  BY <1>1, LambdaIs
<1>4. Same(Power(r)[l], 1, k)
  BY UnitVanishes
<1> HIDE DEF k, l
<1>5. k * k \in Nat \ {0}
  BY <1>2
<1>6. w \in Int /\ Same(w, Power(r)[k], k * k)
  BY <1>2, <1>5, PowModIs
<1> HIDE DEF w
<1>7. PICK t \in Int : Power(r)[l] = 1 + t * k
  BY <1>4 DEF Same
<1>8. Power(Power(r)[k])[l] = Power(Power(r)[l])[k]
  <2>1. k * l = l * k
    BY <1>2, <1>3
  <2> QED BY <1>2, <1>3, <2>1, PowerOfPower
<1>9. Same(Power(1 + t * k)[k], 1 + (k * t) * k, k * k)
  BY <1>2, PowerBesideOne
<1>10. Same(1 + (k * t) * k, 1, k * k)
  <2>1. 1 + (k * t) * k = 1 + t * (k * k)
    BY <1>2
  <2> QED BY <2>1 DEF Same
<1>11. Same(Power(w)[l], Power(Power(r)[k])[l], k * k)
  <2>1. Power(r)[k] \in Int
    BY <1>2, PowerUnfolds
  <2> QED BY <1>3, <1>5, <1>6, <2>1, SamePower
<1>12. Same(Power(w)[l], 1, k * k)
  <2>1. /\ Power(w)[l] \in Int /\ Power(Power(r)[k])[l] \in Int
        /\ 1 + t * k \in Int /\ Power(1 + t * k)[k] \in Int
        /\ 1 + (k * t) * k \in Int
    <3>1. Power(r)[k] \in Int
      BY <1>2, PowerUnfolds
    <3>3. Power(w)[l] \in Int
      BY <1>3, <1>6, PowerUnfolds
    <3>2. 1 + t * k \in Int /\ 1 + (k * t) * k \in Int
      BY <1>2
    <3>4. Power(Power(r)[k])[l] \in Int
      BY <1>3, <3>1, PowerUnfolds
    <3>5. Power(1 + t * k)[k] \in Int
      BY <1>2, <3>2, PowerUnfolds
    <3> QED BY <3>2, <3>3, <3>4, <3>5
  <2>2. Same(Power(Power(r)[k])[l], 1, k * k)
    BY <1>5, <1>7, <1>8, <1>9, <1>10, <2>1, SameOrder
  <2> QED BY <1>5, <1>11, <2>1, <2>2, SameOrder
<1>13. Invisible(w, k, l)
  BY <1>6, <1>12 DEF Invisible
<1> QED BY <1>13 DEF w, k, l

\* c is a ciphertext of s.
Encrypts(c, s, k, l) == \E w \in Int : Invisible(w, k, l) /\ Same(c, (1 + s * k) * w, k * k)

\* What Encrypt and EncryptPooled make is one of their message.
LEMMA EncryptWithEncrypts ==
    ASSUME NEW k \in Nat \ {0}, NEW l \in Nat, NEW s \in Nat, NEW w, Invisible(w, k, l)
    PROVE  /\ EncryptWith(s, w, k, k * k) \in 0 .. k * k - 1
           /\ Encrypts(EncryptWith(s, w, k, k * k), s, k, l)
<1> DEFINE kk == k * k
           y == s % k
           e == y * k + 1
           f == e % kk
           g == f * w
           h == g % kk
<1>1. kk \in Nat \ {0} /\ w \in Int
  BY DEF Invisible
<1>2. EncryptWith(s, w, k, k * k) = h
  BY DEF EncryptWith
<1>3. y \in Int /\ Same(y, s, k)
  <2>1. y \in 0 .. k - 1 /\ Same(y, s, k)
    BY SameRemainder
  <2> QED BY <2>1
<1> HIDE DEF y
<1>4. e \in Int
  BY <1>3
<1>5. Same(e, 1 + s * k, kk)
  <2>1. PICK c \in Int : y = s + c * k
    BY <1>3 DEF Same
  <2>2. e = (1 + s * k) + c * kk
    BY <1>3, <2>1
  <2> HIDE DEF e, kk
  <2> QED BY <2>2 DEF Same
<1>6. 1 + s * k \in Int
  OBVIOUS
<1> DEFINE a == 1 + s * k
<1> HIDE DEF e, kk, a
<1>7. f \in Int /\ Same(f, e, kk)
  <2>1. f \in 0 .. kk - 1 /\ Same(f, e, kk)
    BY <1>1, <1>4, SameRemainder
  <2> QED BY <1>1, <2>1
<1>8. Same(f, a, kk)
  BY <1>1, <1>4, <1>5, <1>6, <1>7, SameOrder DEF a
<1> HIDE DEF f
<1>9. g \in Int /\ Same(g, a * w, kk)
  <2>1. Same(w, w, kk)
    BY <1>1, SameOrder
  <2>2. a \in Int
    BY <1>6 DEF a
  <2>3. g \in Int
    BY <1>1, <1>7
  <2> QED BY <1>1, <1>7, <1>8, <2>1, <2>2, <2>3, SameProduct
<1> HIDE DEF g
<1>10. h \in 0 .. kk - 1 /\ Same(h, g, kk)
  BY <1>1, <1>9, SameRemainder
<1> HIDE DEF h
<1>11. Same(h, a * w, kk)
  <2>1. a * w \in Int /\ h \in Int
    BY <1>1, <1>6, <1>10 DEF a
  <2> QED BY <1>1, <1>9, <1>10, <2>1, SameOrder
<1>12. Encrypts(h, s, k, l)
  BY <1>1, <1>11 DEF Encrypts, a, kk
<1> QED BY <1>2, <1>10, <1>12 DEF kk

\* One encrypts zero.
LEMMA OneEncrypts ==
    ASSUME NEW k \in Nat \ {0}, NEW l \in Nat
    PROVE  Encrypts(1, 0, k, l)
<1>1. k * k \in Nat
  OBVIOUS
<1>2. Invisible(1, k, l)
  BY <1>1, PowerOfOne, SameOrder DEF Invisible
<1>3. Same(1, (1 + 0 * k) * 1, k * k)
  <2>1. (1 + 0 * k) * 1 = 1
    OBVIOUS
  <2>2. Same(1, 1, k * k)
    BY <1>1, SameOrder
  <2> QED BY <2>1, <2>2
<1> QED BY <1>2, <1>3 DEF Encrypts

\* The product of two ciphertexts is one of the sum.
LEMMA ProductEncrypts ==
    ASSUME NEW k \in Nat \ {0}, NEW l \in Nat, NEW a \in Int, NEW b \in Int,
           NEW s \in Int, NEW t \in Int, Encrypts(a, s, k, l), Encrypts(b, t, k, l)
    PROVE  Encrypts((a * b) % (k * k), s + t, k, l)
<1> DEFINE kk == k * k
<1>1. PICK w \in Int : Invisible(w, k, l) /\ Same(a, (1 + s * k) * w, kk)
  BY DEF Encrypts
<1>2. PICK v \in Int : Invisible(v, k, l) /\ Same(b, (1 + t * k) * v, kk)
  BY DEF Encrypts
<1>3. kk \in Nat \ {0}
  OBVIOUS
<1> DEFINE A == (1 + s * k) * w
           B == (1 + t * k) * v
           W == w * v
           D == (1 + (s + t) * k) * W
           h == (a * b) % kk
<1>4. A \in Int /\ B \in Int /\ W \in Int /\ D \in Int /\ a * b \in Int
  OBVIOUS
<1>5. Same(A * B, D, kk)
  <2> DEFINE c == (s * t) * W
  <2>1. A * B = D + c * kk
    <3>1. A * B = ((1 + s * k) * (1 + t * k)) * W
      OBVIOUS
    <3>2. (1 + s * k) * (1 + t * k) = (1 + (s + t) * k) + (s * t) * kk
      OBVIOUS
    <3>3. ((1 + (s + t) * k) + (s * t) * kk) * W = D + c * kk
      <4> DEFINE x == 1 + (s + t) * k
                 y == s * t
      <4>1. x \in Int /\ y \in Int /\ D = x * W /\ c = y * W
        OBVIOUS
      <4> HIDE DEF x, y, W, D, c, kk
      <4>2. (x + y * kk) * W = x * W + (y * W) * kk
        BY <1>3, <1>4, <4>1
      <4>3. (x + y * kk) * W = D + c * kk
        BY <4>1, <4>2
      <4> QED BY <4>3 DEF x, y
    <3> QED BY <3>1, <3>2, <3>3
  <2>2. c \in Int
    BY <1>4
  <2> HIDE DEF A, B, D, c, kk
  <2> QED BY <2>1, <2>2 DEF Same
<1>6. Same(a * b, A * B, kk)
  <2> HIDE DEF A, B, kk
  <2> QED BY <1>1, <1>2, <1>3, <1>4, SameProduct DEF A, B
<1>7. Same(h, a * b, kk) /\ h \in Int
  <2> DEFINE ab == a * b
  <2>1. ab \in Int
    OBVIOUS
  <2> HIDE DEF ab, kk
  <2>2. Same(ab % kk, ab, kk) /\ ab % kk \in 0 .. kk - 1
    BY <1>3, <2>1, SameRemainder
  <2> QED BY <1>3, <2>2 DEF ab
<1>8. Same(h, D, kk)
  <2>1. A * B \in Int
    BY <1>4
  <2> HIDE DEF A, B, D, h, kk
  <2>2. Same(a * b, D, kk)
    BY <1>3, <1>4, <1>5, <1>6, <2>1, SameOrder
  <2> QED BY <1>3, <1>4, <1>7, <2>2, SameOrder
<1>9. Invisible(W, k, l)
  <2>1. Power(W)[l] = Power(w)[l] * Power(v)[l]
    BY PowerOfProduct
  <2>2. Power(w)[l] \in Int /\ Power(v)[l] \in Int
    BY PowerUnfolds
  <2>3. Same(Power(w)[l] * Power(v)[l], 1 * 1, kk)
    <3>1. Same(Power(w)[l], 1, kk) /\ Same(Power(v)[l], 1, kk)
      BY <1>1, <1>2 DEF Invisible
    <3> HIDE DEF kk
    <3> QED BY <1>3, <2>2, <3>1, SameProduct
  <2>4. Same(Power(W)[l], 1, kk)
    <3>1. 1 * 1 = 1
      OBVIOUS
    <3> HIDE DEF kk, W
    <3> QED BY <2>1, <2>3, <3>1
  <2> HIDE DEF W
  <2> QED BY <1>4, <2>4 DEF Invisible
<1>10. Encrypts(h, s + t, k, l)
  <2> HIDE DEF h, W
  <2> QED BY <1>4, <1>8, <1>9 DEF Encrypts
<1> QED BY <1>10

\* mpz_invert finds the inverse of what has no factor of the modulus.
LEMMA ModInverseIs ==
    ASSUME NEW a \in Nat, NEW k \in Nat, k > 1, Coprime(a, k)
    PROVE  ModInverse(a, k) \in 0 .. k - 1 /\ Same(a * ModInverse(a, k), 1, k)
<1>0. k \in Nat \ {0} /\ k # 0 /\ a \in Int
  OBVIOUS
<1>1. PICK j \in Int : Same(a * j, 1, k)
  BY <1>0, InverseExists
<1> DEFINE Inv(i) == (a * i) % k = 1 % k
<1> DEFINE i == j % k
<1>2. i \in 0 .. k - 1 /\ Same(i, j, k)
  BY <1>0, SameRemainder
<1> HIDE DEF i
<1>3. Same(a * i, 1, k)
  <2>1. Same(a, a, k) /\ i \in Int
    BY <1>2, SameOrder
  <2>2. Same(a * i, a * j, k)
    BY <1>2, <2>1, SameProduct
  <2>3. a * i \in Int /\ a * j \in Int
    BY <2>1
  <2> QED BY <1>1, <2>2, <2>3, SameOrder
<1>4. ASSUME NEW x \in Int PROVE x % k = 1 % k <=> Same(x, 1, k)
  <2> DEFINE r == x % k
             s == 1 % k
  <2>1. r \in 0 .. k - 1 /\ Same(r, x, k) /\ Same(x, r, k)
    BY <1>0, SameRemainder
  <2>2. s \in 0 .. k - 1 /\ Same(s, 1, k) /\ Same(1, s, k)
    <3>1. PICK one \in Int : one = 1
      OBVIOUS
    <3>2. one % k \in 0 .. k - 1 /\ Same(one % k, one, k) /\ Same(one, one % k, k)
      BY <1>0, SameRemainder
    <3> QED BY <3>1, <3>2
  <2> HIDE DEF r, s
  <2>3. r = s => Same(x, 1, k)
    <3>1. r \in Int /\ s \in Int
      BY <2>1, <2>2
    <3> QED BY <2>1, <2>2, <3>1, SameOrder
  <2>4. Same(x, 1, k) => r = s
    <3> SUFFICES ASSUME Same(x, 1, k) PROVE r = s
      OBVIOUS
    <3>1. r \in Int /\ s \in Int
      BY <2>1, <2>2
    <3>2. Same(r, 1, k)
      BY <2>1, <3>1, SameOrder
    <3>3. Same(r, s, k)
      BY <2>2, <3>1, <3>2, SameOrder
    <3> QED BY <2>1, <2>2, <3>3, SameEqual
  <2> QED BY <2>3, <2>4 DEF r, s
<1>5. Inv(i)
  <2>1. a * i \in Int
    BY <1>2
  <2> QED BY <1>3, <1>4, <2>1
<1> DEFINE M == ModInverse(a, k)
<1>6. M \in 0 .. k - 1 /\ Inv(M)
  <2>1. M = CHOOSE x \in 0 .. k - 1 : Inv(x)
    BY DEF ModInverse
  <2> HIDE DEF M, Inv
  <2> QED BY <1>2, <1>5, <2>1
<1> HIDE DEF M
<1>7. Same(a * M, 1, k)
  <2>1. a * M \in Int
    BY <1>6
  <2> QED BY <1>4, <1>6, <2>1
<1> QED BY <1>6, <1>7 DEF M

\* A ciphertext decrypts to its message.
LEMMA DecryptIs ==
    ASSUME NEW p, NEW q, KeyPrimes(p, q), paillier = Key(p, q),
           NEW c \in Int, NEW s \in Nat, Encrypts(c, s, p * q, Lambda(p, q))
    PROVE  Decrypt(c) = {s % (p * q)}
<1> DEFINE k == p * q
           l == Lambda(p, q)
           mu == ModInverse(l, k)
<1>1. p \in Nat \ {0} /\ q \in Nat \ {0} /\ p > 1 /\ q > 1
  BY DEF KeyPrimes, PrimeNumber
<1>2. k \in Nat \ {0} /\ k > 1
  <2>1. p * q >= p
    BY <1>1
  <2>2. p * q \in Nat
    BY <1>1
  <2> QED BY <1>1, <2>1, <2>2
<1>3. l \in Nat
  BY <1>1, LambdaIs
<1>4. Gcd(l, k) = 1
  BY DEF KeyPrimes, LambdaInvertible
<1>5. paillier.n = k /\ paillier.nsq = k * k /\ paillier.lambda = l /\ paillier.mu = mu
  BY DEF Key, KeyWith
<1> HIDE DEF k, l
<1>6. mu \in 0 .. k - 1 /\ Same(l * mu, 1, k)
  <2>1. Coprime(l, k)
    BY <1>2, <1>3, <1>4, GcdCoprime
  <2> QED BY <1>2, <1>3, <2>1, ModInverseIs
<1> HIDE DEF mu
<1> DEFINE kk == k * k
           u == PowMod(c, l, kk)
           y == (l * s) % k
           v == 1 + y * k
<1>7. kk \in Nat \ {0}
  BY <1>2
<1> HIDE DEF kk
<1>8. u \in 0 .. kk - 1 /\ Same(u, Power(c)[l], kk)
  BY <1>3, <1>7, PowModIs
<1> HIDE DEF u
<1>9. PICK w \in Int : Invisible(w, k, l) /\ Same(c, (1 + s * k) * w, kk)
  BY DEF Encrypts, k, l, kk
<1>10. Same(Power(c)[l], 1 + (l * s) * k, kk)
  <2> DEFINE a == 1 + s * k
             A == Power(a)[l]
             W == Power(w)[l]
             b == 1 + (l * s) * k
  <2>1. a \in Int /\ b \in Int /\ a * w \in Int
    BY <1>2, <1>3
  <2>2. Same(A, b, kk)
    BY <1>2, <1>3, PowerBesideOne DEF kk
  <2>3. Same(W, 1, kk)
    BY <1>9 DEF Invisible, kk
  <2>4. Same(Power(c)[l], Power(a * w)[l], kk)
    <3> HIDE DEF a, b
    <3> QED BY <1>3, <1>7, <1>9, <2>1, SamePower DEF a
  <2> HIDE DEF a, b
  <2>5. A \in Int /\ W \in Int /\ Power(c)[l] \in Int
    <3>1. A \in Int
      BY <1>3, <2>1, PowerUnfolds
    <3>2. W \in Int /\ Power(c)[l] \in Int
      BY <1>3, PowerUnfolds
    <3> QED BY <3>1, <3>2
  <2>6. Power(a * w)[l] = A * W
    BY <1>3, <2>1, PowerOfProduct
  <2> HIDE DEF A, W
  <2>7. Same(A * W, b * 1, kk)
    BY <1>7, <2>1, <2>2, <2>3, <2>5, SameProduct
  <2>8. b * 1 = b /\ A * W \in Int
    BY <2>1, <2>5
  <2>9. Same(Power(c)[l], A * W, kk)
    BY <2>4, <2>6
  <2>10. Same(A * W, b, kk)
    BY <2>7, <2>8
  <2>11. Same(Power(c)[l], b, kk)
    BY <1>7, <2>1, <2>5, <2>8, <2>9, <2>10, SameOrder
  <2> QED BY <2>11 DEF b
<1> DEFINE ls == l * s
<1>11. ls \in Nat
  BY <1>3
<1>12. y \in 0 .. k - 1 /\ Same(y, ls, k)
  <2>1. y = ls % k
    OBVIOUS
  <2> HIDE DEF ls, y
  <2>2. ls % k \in 0 .. k - 1 /\ Same(ls % k, ls, k)
    BY <1>2, <1>11, SameRemainder
  <2> QED BY <2>1, <2>2
<1> HIDE DEF y
<1>13. v \in 0 .. kk - 1
  <2>1. y * k >= 0 /\ y * k \in Int
    BY <1>2, <1>12
  <2>2. y * k <= (k - 1) * k
    BY <1>2, <1>12
  <2>3. (k - 1) * k = kk - k
    BY <1>2 DEF kk
  <2> QED BY <1>2, <1>7, <2>1, <2>2, <2>3
<1>14. Same(v, 1 + ls * k, kk)
  <2>1. PICK e \in Int : y = ls + e * k
    BY <1>12 DEF Same
  <2>2. v = (1 + ls * k) + e * kk
    <3> HIDE DEF ls
    <3> QED BY <1>2, <1>11, <2>1 DEF kk
  <2> QED BY <2>2 DEF Same
<1>15. u = v
  <2>1. 1 + ls * k \in Int /\ u \in Int /\ v \in Int
    BY <1>2, <1>8, <1>11, <1>13
  <2>2. Power(c)[l] \in Int
    BY <1>3, PowerUnfolds
  <2> HIDE DEF ls, v
  <2>3. Same(u, 1 + ls * k, kk)
    BY <1>7, <1>8, <1>10, <2>1, <2>2, SameOrder DEF ls
  <2>4. Same(u, v, kk)
    BY <1>7, <1>14, <2>1, <2>3, SameOrder
  <2> QED BY <1>7, <1>8, <1>13, <2>4, SameEqual
<1>16. u > 0 /\ u - 1 = y * k /\ Divides(k, u - 1) /\ (u - 1) \div k = y
  <2>1. y * k >= 0 /\ y * k \in Int
    BY <1>2, <1>12
  <2>2. u - 1 = y * k /\ u > 0
    BY <1>15, <2>1
  <2>3. (y * k) \div k = y
    BY <1>2, <1>12, ExactDivision
  <2>4. Divides(k, u - 1)
    <3>1. u - 1 = 0 + y * k /\ u - 1 \in Int /\ y \in Int
      BY <1>12, <2>1, <2>2
    <3>2. Same(u - 1, 0, k)
      BY <3>1 DEF Same
    <3> QED BY <1>2, <3>1, <3>2, DividesIs
  <2> QED BY <2>2, <2>3, <2>4
<1>17. Decrypt(c) = {(y * mu) % k}
  <2>1. Decrypt(c) = IF u > 0 /\ Divides(k, u - 1) THEN {(((u - 1) \div k) * mu) % k} ELSE 0 .. k - 1
    BY <1>5 DEF Decrypt, u, kk
  <2> QED BY <1>16, <2>1
<1>18. (y * mu) % k = s % k
  <2> DEFINE a == y * mu
             r == a % k
             t == s % k
  <2>1. a \in Int /\ y \in Int /\ mu \in Int
    BY <1>6, <1>12
  <2>2. Same(a, ls * mu, k)
    <3>1. Same(mu, mu, k)
      BY <1>2, <2>1, SameOrder
    <3> QED BY <1>2, <1>11, <1>12, <2>1, <3>1, SameProduct
  <2>3. Same(ls * mu, s, k)
    <3>1. ls * mu = (l * mu) * s
      BY <1>3, <2>1
    <3>2. Same((l * mu) * s, 1 * s, k)
      <4>1. Same(s, s, k) /\ l * mu \in Int
        BY <1>2, <1>3, <2>1, SameOrder
      <4> QED BY <1>2, <1>6, <4>1, SameProduct
    <3>3. 1 * s = s
      OBVIOUS
    <3> HIDE DEF ls
    <3> QED BY <3>1, <3>2, <3>3
  <2>4. r \in 0 .. k - 1 /\ Same(r, a, k)
    <3> HIDE DEF a
    <3> QED BY <1>2, <2>1, SameRemainder
  <2>5. t \in 0 .. k - 1 /\ Same(s, t, k)
    BY <1>2, SameRemainder
  <2>6. ls * mu \in Int
    BY <1>11, <2>1
  <2> HIDE DEF a, r, t, ls
  <2>7. Same(a, s, k)
    BY <1>2, <2>1, <2>2, <2>3, <2>6, SameOrder
  <2>8. Same(r, s, k)
    BY <1>2, <2>1, <2>4, <2>7, SameOrder
  <2>9. Same(r, t, k)
    BY <1>2, <2>4, <2>5, <2>8, SameOrder
  <2>10. r = t
    BY <1>2, <2>4, <2>5, <2>9, SameEqual
  <2> QED BY <2>10 DEF r, t, a
<1> QED BY <1>17, <1>18 DEF k

\* The elements below i that both sets have.
SharedBelow(x, y, i) == {j \in 0 .. i - 1 : j \in Members(x) \cap Members(y)}

LEMMA SharedGrows ==
    ASSUME NEW x, NEW y, NEW i \in Nat
    PROVE  /\ Cardinality(SharedBelow(x, y, i)) \in Nat
           /\ SharedBelow(x, y, 0) = {} /\ Cardinality(SharedBelow(x, y, 0)) = 0
           /\ Cardinality(SharedBelow(x, y, i + 1)) =
                  IF i \in Members(x) \cap Members(y) THEN Cardinality(SharedBelow(x, y, i)) + 1
                  ELSE Cardinality(SharedBelow(x, y, i))
<1> DEFINE S == SharedBelow(x, y, i)
<1>1. IsFiniteSet(S)
  <2>1. S \in SUBSET (0 .. i - 1)
    BY DEF SharedBelow
  <2>2. IsFiniteSet(0 .. i - 1)
    BY FS_Interval
  <2> QED BY <2>1, <2>2, FS_Subset
<1>2. Cardinality(S) \in Nat
  BY <1>1, FS_CardinalityType
<1>3. SharedBelow(x, y, 0) = {}
  BY DEF SharedBelow
<1>4. i \in Members(x) \cap Members(y) => SharedBelow(x, y, i + 1) = S \cup {i} /\ i \notin S
  BY DEF SharedBelow
<1>5. i \notin Members(x) \cap Members(y) => SharedBelow(x, y, i + 1) = S
  <2> SUFFICES ASSUME i \notin Members(x) \cap Members(y) PROVE SharedBelow(x, y, i + 1) = S
    OBVIOUS
  <2>1. \A j : j \in 0 .. (i + 1) - 1 <=> j \in 0 .. i - 1 \/ j = i
    OBVIOUS
  <2> QED BY <2>1 DEF SharedBelow
<1>6. Cardinality(S \cup {i}) = IF i \in S THEN Cardinality(S) ELSE Cardinality(S) + 1
  BY <1>1, FS_AddElement
<1> QED BY <1>2, <1>3, <1>4, <1>5, <1>6, FS_EmptySet

\* The product over the positions of y is a ciphertext of the number of elements that
\* the encrypted indicator vector and y share.
LEMMA ProductAtIs ==
    ASSUME NEW k \in Nat \ {0}, NEW l \in Nat, paillier.nsq = k * k, m \in Nat,
           NEW x, NEW y, NEW z,
           \A i \in 0 .. m - 1 : z[i] \in Int /\ Encrypts(z[i], Indicator(x)[i], k, l)
    PROVE  /\ ProductAt(z, y) \in Int
           /\ Encrypts(ProductAt(z, y), Cardinality(SharedBelow(x, y, m)), k, l)
<1> DEFINE prev == [i \in Nat |-> i - 1]
           Times(t, i) == IF i <= m /\ i - 1 \in Members(y) THEN AddCipher(t, z[i - 1]) ELSE t
           next == [i \in Nat |-> [t \in Int |-> IF i = 0 THEN 0 ELSE Times(t, i)]]
           Body(f) == [i \in 0 .. m |-> IF i = 0 THEN 1
                                        ELSE IF i - 1 \in Members(y) THEN AddCipher(f[i - 1], z[i - 1])
                                        ELSE f[i - 1]]
           F == CHOOSE f : f = Body(f)
<1>0. \A a, b \in Int : AddCipher(a, b) = (a * b) % (k * k) /\ AddCipher(a, b) \in Int
  <2> SUFFICES ASSUME NEW a \in Int, NEW b \in Int PROVE AddCipher(a, b) = (a * b) % (k * k) /\ AddCipher(a, b) \in Int
    OBVIOUS
  <2> DEFINE ab == a * b
             kk == k * k
  <2>1. ab \in Int /\ kk \in Nat /\ kk # 0
    OBVIOUS
  <2>2. AddCipher(a, b) = ab % kk
    BY DEF AddCipher
  <2> HIDE DEF ab, kk
  <2>3. ab % kk \in Int
    BY <2>1
  <2> QED BY <2>2, <2>3 DEF ab, kk
<1>1. Recursion(Int, 1, prev, next)
  <2>1. ASSUME NEW i \in Nat, NEW t \in Int PROVE next[i][t] \in Int
    <3>1. CASE i # 0 /\ i <= m
      <4>1. i - 1 \in 0 .. m - 1
        BY <3>1
      <4>2. z[i - 1] \in Int
        BY <4>1
      <4> HIDE DEF Body, F
      <4>3. Times(t, i) \in Int
        BY <1>0, <4>2
      <4> HIDE DEF Times
      <4> QED BY <4>3
    <3>2. CASE ~(i # 0 /\ i <= m)
      <4>1. i = 0 \/ Times(t, i) = t
        BY <3>2
      <4> HIDE DEF Times
      <4> QED BY <4>1
    <3> QED BY <3>1, <3>2
  <2>2. \A i \in Nat \ {0} : prev[i] \in 0..(i - 1)
    OBVIOUS
  <2> HIDE DEF prev, next
  <2> QED BY <2>1, <2>2 DEF Recursion
<1>2. PICK g \in [Nat -> Int] : g = [i \in Nat |-> IF i = 0 THEN 1 ELSE next[i][g[prev[i]]]]
  <2> HIDE DEF prev, next
  <2> QED BY <1>1, RecursiveFunctionExists
<1>3. \A i \in Nat : g[i] = IF i = 0 THEN 1 ELSE Times(g[i - 1], i)
  <2>1. ASSUME NEW i \in Nat, i # 0 PROVE next[i][g[prev[i]]] = Times(g[i - 1], i)
    <3>1. i - 1 \in Nat /\ prev[i] = i - 1
      BY <2>1
    <3> DEFINE t == g[i - 1]
    <3>2. t \in Int
      BY <3>1
    <3> HIDE DEF t, Times
    <3>3. next[i][t] = Times(t, i)
      BY <2>1, <3>2
    <3> HIDE DEF next, prev
    <3> QED BY <3>1, <3>3 DEF t
  <2> HIDE DEF next, prev, Times
  <2> QED BY <1>2, <2>1
<1> DEFINE h == [i \in 0 .. m |-> g[i]]
<1>4. h = Body(h)
  <2>1. ASSUME NEW i \in 0 .. m
        PROVE  h[i] = IF i = 0 THEN 1 ELSE IF i - 1 \in Members(y) THEN AddCipher(h[i - 1], z[i - 1]) ELSE h[i - 1]
    <3>1. i \in Nat /\ i <= m /\ (i # 0 => i - 1 \in 0 .. m)
      OBVIOUS
    <3>2. h[i] = g[i] /\ (i # 0 => h[i - 1] = g[i - 1])
      BY <3>1
    <3>3. g[i] = IF i = 0 THEN 1 ELSE IF i - 1 \in Members(y) THEN AddCipher(g[i - 1], z[i - 1]) ELSE g[i - 1]
      BY <1>3, <3>1
    <3> HIDE DEF h
    <3> QED BY <3>1, <3>2, <3>3
  <2> QED BY <2>1
<1>5. F = Body(F)
  <2> HIDE DEF Body, h
  <2> QED BY <1>4
<1>6. ProductAt(z, y) = F[m]
  BY DEF ProductAt
<1> HIDE DEF F
<1>7. \A i \in 0 .. m : F[i] = IF i = 0 THEN 1 ELSE IF i - 1 \in Members(y) THEN AddCipher(F[i - 1], z[i - 1]) ELSE F[i - 1]
  BY <1>5
<1> DEFINE Count(i) == Cardinality(SharedBelow(x, y, i))
           S == {i \in Nat : i <= m => F[i] \in Int /\ Encrypts(F[i], Count(i), k, l)}
<1>8. 0 \in S
  <2>1. F[0] = 1 /\ Count(0) = 0
    BY <1>7, SharedGrows
  <2> HIDE DEF Count
  <2> QED BY <2>1, OneEncrypts
<1>9. ASSUME NEW i \in Nat, i \in S PROVE i + 1 \in S
  <2> SUFFICES ASSUME i + 1 <= m PROVE F[i + 1] \in Int /\ Encrypts(F[i + 1], Count(i + 1), k, l)
    OBVIOUS
  <2>1. i <= m /\ i + 1 \in 0 .. m /\ i + 1 # 0 /\ (i + 1) - 1 = i /\ i \in 0 .. m - 1
    OBVIOUS
  <2>2. F[i] \in Int /\ Encrypts(F[i], Count(i), k, l)
    BY <1>9, <2>1
  <2>3. F[i + 1] = IF i \in Members(y) THEN AddCipher(F[i], z[i]) ELSE F[i]
    BY <1>7, <2>1
  <2>4. z[i] \in Int /\ Encrypts(z[i], IF i \in Members(x) THEN 1 ELSE 0, k, l)
    BY <2>1 DEF Indicator
  <2>5. Count(i) \in Nat /\ Count(i + 1) = IF i \in Members(x) \cap Members(y) THEN Count(i) + 1 ELSE Count(i)
    BY SharedGrows
  <2> DEFINE d == IF i \in Members(x) THEN 1 ELSE 0
             f == F[i]
  <2> HIDE DEF Count
  <2>6. CASE i \in Members(y)
    <3>1. F[i + 1] = (f * z[i]) % (k * k) /\ F[i + 1] \in Int
      BY <1>0, <2>2, <2>3, <2>4, <2>6
    <3>2. Encrypts((f * z[i]) % (k * k), Count(i) + d, k, l)
      <4>1. d \in Int /\ f \in Int /\ Count(i) \in Int /\ Encrypts(f, Count(i), k, l) /\ Encrypts(z[i], d, k, l)
        BY <2>2, <2>4, <2>5
      <4> HIDE DEF d, f
      <4> QED BY <2>4, <4>1, ProductEncrypts
    <3>3. Count(i) + d = Count(i + 1)
      BY <2>5, <2>6
    <3> QED BY <3>1, <3>2, <3>3
  <2>7. CASE i \notin Members(y)
    BY <2>2, <2>3, <2>5, <2>7
  <2> QED BY <2>6, <2>7
<1>10. Nat \subseteq S
  <2> HIDE DEF S
  <2> QED BY <1>8, <1>9, InductiveSet
<1>11. F[m] \in Int /\ Encrypts(F[m], Count(m), k, l)
  BY <1>10
<1> QED BY <1>6, <1>11

\* The shares of a query add up to the number of shared elements.
LEMMA SharesAddUp ==
    ASSUME NEW k \in Nat \ {0}, NEW r \in 0 .. k - 1, NEW s \in 0 .. k - 1
    PROVE  (((s + r) % k) + ((k - r) % k)) % k = s
<1> DEFINE a == s + r
           b == k - r
<1>1. a \in Int /\ b \in Int /\ a + b = s + k
  OBVIOUS
<1> HIDE DEF a, b
<1> DEFINE u == a % k
           v == b % k
<1>2. u \in 0 .. k - 1 /\ Same(u, a, k)
  BY <1>1, SameRemainder
<1>3. v \in 0 .. k - 1 /\ Same(v, b, k)
  BY <1>1, SameRemainder
<1> HIDE DEF u, v
<1> DEFINE c == u + v
<1>4. c \in Int /\ Same(c, a + b, k)
  <2>1. u \in Int /\ v \in Int
    BY <1>2, <1>3
  <2> QED BY <1>1, <1>2, <1>3, <2>1, SameSum
<1>5. Same(a + b, s, k)
  <2>1. a + b = s + 1 * k
    BY <1>1
  <2> QED BY <2>1 DEF Same
<1> HIDE DEF c
<1> DEFINE w == c % k
<1>6. w \in 0 .. k - 1 /\ Same(w, c, k)
  BY <1>4, SameRemainder
<1> HIDE DEF w
<1>7. Same(w, s, k)
  <2>1. w \in Int /\ a + b \in Int /\ s \in Int
    BY <1>1, <1>6
  <2>2. Same(c, s, k)
    BY <1>4, <1>5, <2>1, SameOrder
  <2> QED BY <1>4, <1>6, <2>1, <2>2, SameOrder
<1>8. w = s
  BY <1>6, <1>7, SameEqual
<1> QED BY <1>8 DEF w, c, u, v, a, b

------------------------------------------------------------------------------
(* Queries are answered exactly *)

Asking(c) == call[c].pc \in {"load", "reserve", "encrypt"}

SjRecords == DOMAIN call = Callers /\ \A c \in Callers : DOMAIN call[c] = DOMAIN Blank
SjNumbers == m \in Universes \cup {0} /\ poolIndex \in Nat /\ rhoPool \in Seq(Int)

\* The modulus queries are admitted with is the last one a whole Setup() chose, and
\* unless a later one failed, so is the key.
ModulusIs(p, q) == p # q /\ FullLength(p, q) /\ LambdaInvertible(p, q) /\ n = p * q
KeyFits == keyed => \E p, q \in Primes : ModulusIs(p, q) /\ ("key" \notin damaged => paillier = Key(p, q))

\* Unless filling it failed, the pool has powers of nonces of that modulus.
PoolFits == "pool" \notin damaged => \A i \in 1 .. Len(rhoPool) : \E r \in Units(n) : rhoPool[i] = PowMod(r, n, n * n)

\* What a query in progress has: inputs inside the universe, a block inside the pool,
\* and at every position whose iteration is over a ciphertext of the indicator.
QueryAdmitted(c) ==
    /\ keyed /\ m # 0
    /\ call[c].pair \in Inputs
    /\ Members(call[c].pair[1]) \cup Members(call[c].pair[2]) \subseteq 0 .. m - 1
    /\ call[c].mask = Fresh \/ call[c].mask \in 0 .. n - 1
BlockFits(c) ==
    /\ call[c].left \subseteq 0 .. m - 1 /\ DOMAIN call[c].z = 0 .. m - 1
    /\ call[c].pc \in {"load", "reserve"} => precompute /\ call[c].left = 0 .. m - 1
    /\ call[c].pc = "reserve" => call[c].cur \in Nat
    /\ call[c].pc = "encrypt" /\ precompute => call[c].base \in Nat /\ call[c].base + m + 1 <= Len(rhoPool)
Encrypted(c, i) == /\ call[c].z[i] \in Int
                   /\ Encrypts(call[c].z[i], Indicator(call[c].pair[1])[i], n, paillier.lambda)
VectorFits(c) == ~call[c].failed /\ damaged = {} => \A i \in (0 .. m - 1) \ call[c].left : Encrypted(c, i)
QueryFits(c) == QueryAdmitted(c) /\ BlockFits(c) /\ VectorFits(c)

SjFit == SjRecords /\ SjNumbers /\ KeyFits /\ PoolFits /\ \A c \in Callers : Asking(c) => QueryFits(c)

\* The numbers of Primes are primes.
LEMMA PrimesPrime ==
    ASSUME NEW p \in Primes PROVE PrimeNumber(p)
<1>1. p \in Nat /\ p > 1 /\ \A d \in 2 .. p - 1 : p % d # 0
  BY Sj16Assumption
<1>2. ASSUME NEW d \in 2 .. p - 1 PROVE ~Same(p, 0, d)
  <2>1. d \in Nat \ {0} /\ p \in Int /\ ~Divides(d, p)
    BY <1>1 DEF Divides
  <2> QED BY <2>1, DividesIs
<1> QED BY <1>1, <1>2 DEF PrimeNumber

\* A keyed object has a modulus of two primes.
LEMMA KeyedModulus ==
    ASSUME SjFit, keyed
    PROVE  n \in Nat \ {0} /\ n * n \in Nat \ {0}
<1>1. PICK p \in Primes, q \in Primes : ModulusIs(p, q)
  BY DEF SjFit, KeyFits
<1>2. p \in Nat \ {0} /\ q \in Nat \ {0}
  BY Sj16Assumption
<1>3. p * q \in Nat \ {0}
  BY <1>2
<1>4. n \in Nat \ {0}
  BY <1>1, <1>3 DEF ModulusIs
<1> QED BY <1>4

\* What the pool is filled with.
LEMMA FilledIs ==
    ASSUME n \in Nat \ {0}, n * n \in Nat \ {0}, NEW count \in Nat, NEW made \in 0 .. count,
           NEW rho \in [1 .. made -> Units(n)]
    PROVE  /\ Filled(count, made, rho) \in Seq(Int)
           /\ Len(Filled(count, made, rho)) = count
           /\ \A i \in 1 .. made : Filled(count, made, rho)[i] = PowMod(rho[i], n, n * n)
<1> DEFINE F == Filled(count, made, rho)
<1>1. \A r \in Units(n) : r \in Int
  BY Sj16Assumption DEF Units
<1>2. ASSUME NEW i \in 1 .. count PROVE (IF i <= made THEN PowMod(rho[i], n, n * n) ELSE 0) \in Int
  <2>1. CASE i <= made
    <3>1. rho[i] \in Int
      BY <1>1, <2>1
    <3>2. PowMod(rho[i], n, n * n) \in 0 .. n * n - 1
      BY <3>1, PowModIs
    <3> QED BY <2>1, <3>2
  <2>2. CASE ~(i <= made)
    BY <2>2
  <2> QED BY <2>1, <2>2
<1>3. F = [i \in 1 .. count |-> IF i <= made THEN PowMod(rho[i], n, n * n) ELSE 0]
  BY DEF Filled
<1>4. F \in [1 .. count -> Int]
  BY <1>2, <1>3
<1>5. F \in Seq(Int) /\ Len(F) = count
  <2> HIDE DEF F
  <2> QED BY <1>4
<1>6. \A i \in 1 .. made : F[i] = PowMod(rho[i], n, n * n)
  <2>1. \A i \in 1 .. made : i \in 1 .. count /\ i <= made
    OBVIOUS
  <2> QED BY <1>3, <2>1
<1> QED BY <1>5, <1>6

\* While no query is open, set-up calls leave a key and a pool that fit or say so.
LEMMA SetUpFits ==
    ASSUME SjFit,
           \/ SjSetup \/ SetupFails \/ \E u \in Universes : SetUniverse(u)
           \/ \E count \in PoolSizes : PrepareRandomizerPool(count) \/ PrepareThrows(count)
    PROVE  SjFit'
<1>1. NoneOpen /\ UNCHANGED call
  BY DEF SjSetup, SetupFails, SetUniverse, PrepareRandomizerPool, PrepareThrows, SetUp
<1>2. SjRecords' /\ \A c \in Callers : Asking(c)' => QueryFits(c)'
  <2>1. \A c \in Callers : ~Asking(c)'
    BY <1>1 DEF NoneOpen, Asking
  <2> QED BY <1>1, <2>1 DEF SjFit, SjRecords
<1>3. CASE SjSetup
  <2>1. PICK p \in Primes, q \in Primes :
            p # q /\ FullLength(p, q) /\ LambdaInvertible(p, q) /\ paillier' = Key(p, q) /\ n' = p * q
    BY <1>3 DEF SjSetup
  <2>2. rhoPool' = <<>> /\ poolIndex' = 0 /\ m' = m
    BY <1>3 DEF SjSetup
  <2>3. KeyFits'
    BY <2>1 DEF KeyFits, ModulusIs
  <2>4. PoolFits' /\ SjNumbers'
    <3>1. Len(<<>>) = 0 /\ <<>> \in Seq(Int)
      OBVIOUS
    <3> QED BY <2>2, <3>1 DEF PoolFits, SjNumbers, SjFit
  <2> QED BY <1>2, <2>3, <2>4 DEF SjFit
<1>4. CASE SetupFails
  <2>1. /\ damaged' = IF paillier' = paillier THEN damaged ELSE damaged \cup {"key"}
        /\ UNCHANGED <<keyed, n, m, rhoPool, poolIndex>>
    BY <1>4 DEF SetupFails
  <2>2. KeyFits'
    BY <2>1 DEF KeyFits, ModulusIs, SjFit
  <2>3. PoolFits' /\ SjNumbers'
    BY <2>1 DEF PoolFits, SjNumbers, SjFit
  <2> QED BY <1>2, <2>2, <2>3 DEF SjFit
<1>5. ASSUME NEW u \in Universes, SetUniverse(u) PROVE SjFit'
  <2>1. m' = u /\ UNCHANGED <<keyed, paillier, n, rhoPool, poolIndex, damaged>>
    BY <1>5 DEF SetUniverse
  <2>2. KeyFits' /\ PoolFits' /\ SjNumbers'
    BY <2>1 DEF KeyFits, ModulusIs, PoolFits, SjNumbers, SjFit
  <2> QED BY <1>2, <2>2 DEF SjFit
<1>6. ASSUME NEW count \in PoolSizes, PrepareRandomizerPool(count) PROVE SjFit'
  <2>1. PICK rho \in [1 .. count -> Units(n)] : rhoPool' = Filled(count, count, rho)
    BY <1>6 DEF PrepareRandomizerPool
  <2>2. keyed /\ poolIndex' = 0 /\ damaged' = damaged \ {"pool"} /\ UNCHANGED <<keyed, paillier, n, m>>
    BY <1>6 DEF PrepareRandomizerPool
  <2>3. n \in Nat \ {0} /\ n * n \in Nat \ {0} /\ count \in Nat /\ count \in 0 .. count
    BY <2>2, KeyedModulus, Sj16Assumption
  <2>4. /\ rhoPool' \in Seq(Int) /\ Len(rhoPool') = count
        /\ \A i \in 1 .. count : rhoPool'[i] = PowMod(rho[i], n, n * n)
    BY <2>1, <2>3, FilledIs
  <2>5. PoolFits'
    BY <2>2, <2>4 DEF PoolFits
  <2>6. KeyFits' /\ SjNumbers'
    BY <2>2, <2>4 DEF KeyFits, ModulusIs, SjNumbers, SjFit
  <2> QED BY <1>2, <2>5, <2>6 DEF SjFit
<1>7. ASSUME NEW count \in PoolSizes, PrepareThrows(count) PROVE SjFit'
  <2>1. PICK made \in 0 .. count - 1 : \E rho \in [1 .. made -> Units(n)] : rhoPool' = Filled(count, made, rho)
    BY <1>7 DEF PrepareThrows
  <2>2. PICK rho \in [1 .. made -> Units(n)] : rhoPool' = Filled(count, made, rho)
    BY <2>1
  <2>3. keyed /\ damaged' = damaged \cup {"pool"} /\ UNCHANGED <<keyed, paillier, n, m, poolIndex>>
    BY <1>7 DEF PrepareThrows
  <2>4. n \in Nat \ {0} /\ n * n \in Nat \ {0} /\ count \in Nat /\ made \in 0 .. count
    BY <2>3, KeyedModulus, Sj16Assumption
  <2>5. rhoPool' \in Seq(Int)
    BY <2>2, <2>4, FilledIs
  <2>6. PoolFits' /\ KeyFits' /\ SjNumbers'
    BY <2>3, <2>5 DEF PoolFits, KeyFits, ModulusIs, SjNumbers, SjFit
  <2> QED BY <1>2, <2>6 DEF SjFit
<1> QED BY <1>3, <1>4, <1>5, <1>6, <1>7

\* A step of one query leaves the others as they are.
LEMMA QueryMovesFit ==
    ASSUME SjFit, NEW c \in Callers, UNCHANGED setup, poolIndex' \in Nat,
           DOMAIN call' = Callers, DOMAIN call'[c] = DOMAIN Blank,
           \A d \in Callers \ {c} : call'[d] = call[d],
           Asking(c)' => QueryFits(c)'
    PROVE  SjFit'
<1>1. UNCHANGED <<precompute, keyed, paillier, n, m, rhoPool, damaged>>
  BY DEF setup
<1>2. SjRecords' /\ SjNumbers' /\ KeyFits' /\ PoolFits'
  BY <1>1 DEF SjFit, SjRecords, SjNumbers, KeyFits, ModulusIs, PoolFits
<1>3. ASSUME NEW d \in Callers, d # c, Asking(d)' PROVE QueryFits(d)'
  <2>1. call'[d] = call[d]
    BY <1>3
  <2>2. QueryFits(d)
    BY <1>3, <2>1 DEF SjFit, Asking
  <2> QED BY <1>1, <2>1, <2>2
          DEF QueryFits, QueryAdmitted, BlockFits, VectorFits, Encrypted, Encrypts, Invisible, Indicator
<1> QED BY <1>2, <1>3 DEF SjFit

\* The key of an object that is not damaged.
LEMMA WholeKey ==
    ASSUME SjFit, keyed, damaged = {}
    PROVE  \E p, q \in Primes : /\ KeyPrimes(p, q) /\ FullLength(p, q)
                                /\ paillier = Key(p, q) /\ n = p * q
                                /\ paillier.n = n /\ paillier.nsq = n * n /\ paillier.lambda = Lambda(p, q)
<1>1. PICK p \in Primes, q \in Primes : ModulusIs(p, q) /\ paillier = Key(p, q)
  BY DEF SjFit, KeyFits
<1>2. PrimeNumber(p) /\ PrimeNumber(q)
  BY PrimesPrime
<1>3. KeyPrimes(p, q) /\ FullLength(p, q) /\ n = p * q
  BY <1>1, <1>2 DEF KeyPrimes, ModulusIs
<1>4. paillier.n = p * q /\ paillier.nsq = (p * q) * (p * q) /\ paillier.lambda = Lambda(p, q)
  BY <1>1 DEF Key, KeyWith
<1> QED BY <1>1, <1>3, <1>4

\* With the pool or without, what a query encrypts is a ciphertext of its message.
LEMMA EncMsgIs ==
    ASSUME SjFit, keyed, damaged = {}, NEW msg \in Nat, NEW entry,
           precompute => entry \in Nat /\ entry + 1 <= Len(rhoPool),
           NEW ct \in EncMsg(msg, entry)
    PROVE  ct \in Int /\ Encrypts(ct, msg, n, paillier.lambda)
<1>1. PICK p \in Primes, q \in Primes :
          /\ KeyPrimes(p, q) /\ paillier = Key(p, q) /\ n = p * q
          /\ paillier.n = n /\ paillier.nsq = n * n /\ paillier.lambda = Lambda(p, q)
  BY WholeKey
<1>2. n \in Nat \ {0} /\ n * n \in Nat \ {0} /\ Nonces \subseteq Nat
  BY KeyedModulus, Sj16Assumption
<1>3. Lambda(p, q) \in Nat
  BY <1>1, LambdaIs DEF KeyPrimes, PrimeNumber
<1>4. ASSUME NEW r \in Units(n) PROVE Invisible(PowMod(r, n, n * n), n, Lambda(p, q))
  BY <1>1, <1>2, NonceInvisible
<1>5. PICK r \in Units(n) : ct = EncryptWith(msg, PowMod(r, n, n * n), n, n * n)
  <2>1. CASE precompute
    <3>1. entry + 1 \in 1 .. Len(rhoPool)
      <4>1. Len(rhoPool) \in Nat
        BY DEF SjFit, SjNumbers
      <4> QED BY <2>1, <4>1
    <3>2. PICK r \in Units(n) : rhoPool[entry + 1] = PowMod(r, n, n * n)
      BY <3>1 DEF SjFit, PoolFits
    <3> QED BY <2>1, <3>2 DEF EncMsg
  <2>2. CASE ~precompute
    BY <1>1, <2>2 DEF EncMsg
  <2> QED BY <2>1, <2>2
<1> DEFINE w == PowMod(r, n, n * n)
<1>6. Invisible(w, n, Lambda(p, q))
  BY <1>4
<1> HIDE DEF w
<1>7. /\ EncryptWith(msg, w, n, n * n) \in 0 .. n * n - 1
      /\ Encrypts(EncryptWith(msg, w, n, n * n), msg, n, Lambda(p, q))
  BY <1>2, <1>3, <1>6, EncryptWithEncrypts
<1> QED BY <1>1, <1>2, <1>5, <1>7 DEF w

LEMMA RunProtocolFits ==
    ASSUME SjFit, NEW c \in Callers, NEW pair \in Inputs, NEW mask, RunProtocol(c, pair, mask)
    PROVE  SjFit'
<1> DEFINE asked == [Blank EXCEPT !.pair = pair, !.mask = mask, !.left = 0 .. m - 1,
                                  !.z = [i \in 0 .. m - 1 |-> 0],
                                  !.pc = IF precompute THEN "load" ELSE "encrypt"]
           refused == [Blank EXCEPT !.pair = pair, !.pc = "refused"]
           r == IF Admitted(pair, mask) THEN asked ELSE refused
<1>1. call' = [call EXCEPT ![c] = r] /\ UNCHANGED <<setup, poolIndex>>
  BY DEF RunProtocol
<1>2. /\ DOMAIN asked = DOMAIN Blank /\ DOMAIN refused = DOMAIN Blank
      /\ refused.pc = "refused"
      /\ asked.pair = pair /\ asked.mask = mask /\ asked.left = 0 .. m - 1
      /\ asked.z = [i \in 0 .. m - 1 |-> 0]
      /\ asked.pc = IF precompute THEN "load" ELSE "encrypt"
  BY DEF Blank
<1> HIDE DEF asked, refused
<1>3. DOMAIN r = DOMAIN Blank
  BY <1>2
<1>4. call'[c] = r /\ DOMAIN call' = Callers /\ \A d \in Callers \ {c} : call'[d] = call[d]
  BY <1>1 DEF SjFit, SjRecords
<1>5. UNCHANGED <<precompute, keyed, paillier, n, m, rhoPool, damaged>>
  BY <1>1 DEF setup
<1>6. ASSUME Asking(c)' PROVE QueryFits(c)'
  <2>1. Admitted(pair, mask) /\ call'[c] = asked
    BY <1>2, <1>4, <1>6 DEF Asking
  <2>2. QueryAdmitted(c)'
    <3>1. Members(pair[1]) \cup Members(pair[2]) \subseteq Nat
      BY Sj16Assumption
    <3>2. m \in Nat
      BY Sj16Assumption DEF SjFit, SjNumbers
    <3>3. Members(pair[1]) \cup Members(pair[2]) \subseteq 0 .. m - 1
      BY <2>1, <3>1, <3>2 DEF Admitted
    <3> QED BY <1>2, <1>5, <2>1, <3>3 DEF QueryAdmitted, Admitted
  <2>3. BlockFits(c)'
    BY <1>2, <1>5, <2>1 DEF BlockFits
  <2>4. VectorFits(c)'
    BY <1>2, <1>5, <2>1 DEF VectorFits
  <2> QED BY <2>2, <2>3, <2>4 DEF QueryFits
<1>7. poolIndex' \in Nat
  BY <1>1 DEF SjFit, SjNumbers
<1> QED BY <1>1, <1>3, <1>4, <1>6, <1>7, QueryMovesFit

\* A query that throws or is left has nothing.
LEMMA ThrowFits ==
    ASSUME SjFit, NEW c \in Callers, UNCHANGED <<setup, poolIndex>>, NEW r, call' = [call EXCEPT ![c] = r],
           DOMAIN r = DOMAIN Blank, r.pc \in {"idle", "answered", "refused"}
    PROVE  SjFit'
<1>1. call'[c] = r /\ DOMAIN call' = Callers /\ \A d \in Callers \ {c} : call'[d] = call[d]
  BY DEF SjFit, SjRecords
<1>2. ~Asking(c)'
  BY <1>1 DEF Asking
<1>3. poolIndex' \in Nat
  BY DEF SjFit, SjNumbers
<1> QED BY <1>1, <1>2, <1>3, QueryMovesFit

LEMMA ThrowIs ==
    ASSUME NEW c \in Callers, Throw(c)
    PROVE  \E r : /\ call' = [call EXCEPT ![c] = r] /\ DOMAIN r = DOMAIN Blank
                  /\ r.pc = "refused" /\ r.pair = call[c].pair
<1> DEFINE r == [Blank EXCEPT !.pc = "refused", !.pair = call[c].pair]
<1>1. call' = [call EXCEPT ![c] = r]
  BY DEF Throw
<1>2. DOMAIN r = DOMAIN Blank /\ r.pc = "refused" /\ r.pair = call[c].pair
  BY DEF Blank
<1> QED BY <1>1, <1>2

LEMMA ReserveFits ==
    ASSUME SjFit, NEW c \in Callers, Reserve(c)
    PROVE  SjFit'
<1>0. /\ UNCHANGED setup
      /\ UNCHANGED <<precompute, keyed, paillier, n, m, rhoPool, damaged>>
  BY DEF Reserve, ReserveLoad, ReserveThrows, ReserveTakes, ReserveRetries, setup
<1>1. CASE ReserveThrows(c)
  <2>1. PICK r : call' = [call EXCEPT ![c] = r] /\ DOMAIN r = DOMAIN Blank /\ r.pc = "refused"
    BY <1>1, ThrowIs DEF ReserveThrows
  <2> QED BY <1>0, <1>1, <2>1, ThrowFits DEF ReserveThrows
<1>2. CASE ReserveLoad(c) \/ ReserveTakes(c) \/ ReserveRetries(c)
  <2>1. Asking(c)
    BY <1>2 DEF ReserveLoad, ReserveTakes, ReserveRetries, Asking
  <2>2. QueryFits(c) /\ DOMAIN call[c] = DOMAIN Blank /\ DOMAIN call = Callers
    BY <2>1 DEF SjFit, SjRecords
  <2>3. poolIndex \in Nat /\ m \in Nat /\ Len(rhoPool) \in Nat
    BY Sj16Assumption DEF SjFit, SjNumbers
  <2>4. /\ DOMAIN call' = Callers /\ DOMAIN call'[c] = DOMAIN Blank
        /\ \A d \in Callers \ {c} : call'[d] = call[d]
        /\ call'[c].pc \in {"reserve", "encrypt"}
        /\ call'[c].pair = call[c].pair /\ call'[c].mask = call[c].mask
        /\ call'[c].left = call[c].left /\ call'[c].z = call[c].z /\ call'[c].failed = call[c].failed
        /\ call'[c].pc = "reserve" => call'[c].cur = poolIndex
        /\ call'[c].pc = "encrypt" => call'[c].base = call[c].cur /\ call[c].pc = "reserve" /\ ~Short(c)
        /\ call[c].pc \in {"load", "reserve"}
    <3>1. CASE ReserveLoad(c)
      BY <2>2, <3>1 DEF ReserveLoad, Blank
    <3>2. CASE ReserveTakes(c)
      BY <2>2, <3>2 DEF ReserveTakes, Blank
    <3>3. CASE ReserveRetries(c)
      BY <2>2, <3>3 DEF ReserveRetries, Blank
    <3> QED BY <1>2, <3>1, <3>2, <3>3
  <2>5. poolIndex' \in Nat
    BY <1>2, <2>2, <2>3 DEF ReserveLoad, ReserveTakes, ReserveRetries, QueryFits, BlockFits
  <2>6. QueryAdmitted(c)'
    BY <1>0, <2>2, <2>4 DEF QueryFits, QueryAdmitted
  <2>7. BlockFits(c)'
    <3>1. call'[c].pc = "encrypt" => call'[c].base \in Nat /\ call'[c].base + m + 1 <= Len(rhoPool)
      <4> SUFFICES ASSUME call'[c].pc = "encrypt"
                   PROVE  call'[c].base \in Nat /\ call'[c].base + m + 1 <= Len(rhoPool)
        OBVIOUS
      <4>1. call'[c].base = call[c].cur /\ call[c].cur \in Nat /\ ~Short(c)
        BY <2>2, <2>4 DEF QueryFits, BlockFits
      <4>2. ~(call[c].cur + m + 1 > Len(rhoPool))
        BY <4>1 DEF Short
      <4> QED BY <2>3, <4>1, <4>2
    <3> QED BY <1>0, <2>2, <2>3, <2>4, <3>1 DEF QueryFits, BlockFits
  <2>8. VectorFits(c)'
    BY <1>0, <2>2, <2>4 DEF QueryFits, VectorFits, Encrypted, Encrypts, Invisible, Indicator
  <2> QED BY <1>0, <2>4, <2>5, <2>6, <2>7, <2>8, QueryMovesFit DEF QueryFits
<1> QED BY <1>1, <1>2 DEF Reserve

LEMMA IterateFits ==
    ASSUME SjFit, NEW c \in Callers, Iterate(c)
    PROVE  SjFit'
<1>a. m \in Nat /\ Len(rhoPool) \in Nat
  BY Sj16Assumption DEF SjFit, SjNumbers
<1> PICK i \in 0 .. m - 1 : EncryptAt(c, i) \/ EncryptThrows(c, i) \/ EncryptSkips(c, i)
  BY DEF Iterate
<1>0. /\ UNCHANGED <<setup, poolIndex>>
      /\ UNCHANGED <<precompute, keyed, paillier, n, m, rhoPool, damaged>>
  BY DEF EncryptAt, EncryptThrows, EncryptSkips, setup
<1>1. call[c].pc = "encrypt" /\ i \in call[c].left
  BY DEF EncryptAt, EncryptThrows, EncryptSkips
<1>2. QueryFits(c) /\ DOMAIN call[c] = DOMAIN Blank /\ DOMAIN call = Callers
  BY <1>1 DEF SjFit, SjRecords, Asking
<1>3. poolIndex' \in Nat
  BY <1>0 DEF SjFit, SjNumbers
<1>4. /\ DOMAIN call' = Callers /\ DOMAIN call'[c] = DOMAIN Blank
      /\ \A d \in Callers \ {c} : call'[d] = call[d]
      /\ call'[c].pc = "encrypt"
      /\ call'[c].pair = call[c].pair /\ call'[c].mask = call[c].mask /\ call'[c].base = call[c].base
      /\ call'[c].left = call[c].left \ {i}
      /\ DOMAIN call'[c].z = DOMAIN call[c].z
      /\ \A j \in DOMAIN call[c].z : j # i => call'[c].z[j] = call[c].z[j]
      /\ ~call'[c].failed => ~call[c].failed /\ EncryptAt(c, i)
  <2>1. CASE EncryptAt(c, i)
    <3>1. PICK ct : call' = [call EXCEPT ![c].z[i] = ct, ![c].left = @ \ {i}]
      BY <2>1 DEF EncryptAt
    <3>2. call'[c].failed = call[c].failed
      BY <1>2, <3>1 DEF Blank
    <3>3. /\ DOMAIN call'[c].z = DOMAIN call[c].z
          /\ \A j \in DOMAIN call[c].z : j # i => call'[c].z[j] = call[c].z[j]
      BY <1>2, <3>1 DEF Blank
    <3>4. DOMAIN call' = Callers /\ DOMAIN call'[c] = DOMAIN Blank /\ \A d \in Callers \ {c} : call'[d] = call[d]
      BY <1>2, <3>1 DEF Blank
    <3>5. /\ call'[c].pc = call[c].pc /\ call'[c].pair = call[c].pair /\ call'[c].mask = call[c].mask
          /\ call'[c].base = call[c].base /\ call'[c].left = call[c].left \ {i}
      BY <1>2, <3>1 DEF Blank
    <3>6. ~call'[c].failed => ~call[c].failed /\ EncryptAt(c, i)
      BY <2>1, <3>2
    <3> QED BY <1>1, <3>3, <3>4, <3>5, <3>6
  <2>2. CASE EncryptThrows(c, i)
    BY <1>2, <2>2 DEF EncryptThrows, Blank
  <2>3. CASE EncryptSkips(c, i)
    BY <1>2, <2>3 DEF EncryptSkips, Blank
  <2> QED BY <2>1, <2>2, <2>3
<1>5. QueryAdmitted(c)'
  BY <1>0, <1>2, <1>4 DEF QueryFits, QueryAdmitted
<1>6. BlockFits(c)'
  <2>1. call'[c].left \subseteq 0 .. m - 1 /\ DOMAIN call'[c].z = 0 .. m - 1
    <3>1. call[c].left \subseteq 0 .. m - 1 /\ DOMAIN call[c].z = 0 .. m - 1
      BY <1>2 DEF QueryFits, BlockFits
    <3> QED BY <1>4, <3>1
  <2>2. precompute => call[c].base \in Nat /\ call[c].base + m + 1 <= Len(rhoPool)
    BY <1>1, <1>2 DEF QueryFits, BlockFits
  <2>3. call'[c].pc = "encrypt" /\ call'[c].base = call[c].base
    BY <1>4
  <2> QED BY <1>0, <2>1, <2>2, <2>3 DEF BlockFits
<1>7. VectorFits(c)'
  <2> SUFFICES ASSUME ~call'[c].failed, damaged' = {}, NEW j \in (0 .. m - 1) \ call'[c].left
               PROVE  Encrypted(c, j)'
    BY <1>0 DEF VectorFits
  <2>1. ~call[c].failed /\ EncryptAt(c, i) /\ damaged = {}
    BY <1>0, <1>4
  <2>2. CASE j # i
    <3>1. j \in (0 .. m - 1) \ call[c].left /\ j \in DOMAIN call[c].z
      BY <1>2, <1>4, <2>2 DEF QueryFits, BlockFits
    <3>2. Encrypted(c, j)
      BY <1>2, <2>1, <3>1 DEF QueryFits, VectorFits
    <3>3. call'[c].z[j] = call[c].z[j] /\ call'[c].pair = call[c].pair
      BY <1>4, <2>2, <3>1
    <3> QED BY <1>0, <3>2, <3>3 DEF Encrypted, Encrypts, Invisible, Indicator
  <2>3. CASE j = i
    <3> DEFINE msg == Indicator(call[c].pair[1])[i]
    <3>1. PICK ct \in EncMsg(msg, call[c].base + i) :
              call' = [call EXCEPT ![c].z[i] = ct, ![c].left = @ \ {i}]
      BY <2>1 DEF EncryptAt
    <3>2. call'[c].z[i] = ct
      <4>1. i \in DOMAIN call[c].z
        BY <1>2 DEF QueryFits, BlockFits
      <4> HIDE DEF msg
      <4> QED BY <1>2, <3>1, <4>1 DEF Blank
    <3>3. msg \in Nat
      BY DEF Indicator
    <3>4. precompute => call[c].base + i \in Nat /\ (call[c].base + i) + 1 <= Len(rhoPool)
      <4>1. precompute => call[c].base \in Nat /\ call[c].base + m + 1 <= Len(rhoPool)
        BY <1>1, <1>2 DEF QueryFits, BlockFits
      <4> QED BY <1>a, <4>1
    <3>5. keyed
      BY <1>2 DEF QueryFits, QueryAdmitted
    <3>6. ct \in Int /\ Encrypts(ct, msg, n, paillier.lambda)
      <4> HIDE DEF msg
      <4> QED BY <2>1, <3>3, <3>4, <3>5, EncMsgIs
    <3> QED BY <1>0, <1>4, <2>3, <3>2, <3>6 DEF Encrypted, Encrypts, Invisible, Indicator
  <2> QED BY <2>2, <2>3
<1> QED BY <1>0, <1>3, <1>4, <1>5, <1>6, <1>7, QueryMovesFit DEF QueryFits

\* The number of shared elements is below the modulus.
LEMMA SharedIsSmall ==
    ASSUME SjFit, NEW c \in Callers, Asking(c), damaged = {}
    PROVE  LET shared == Members(call[c].pair[1]) \cap Members(call[c].pair[2])
           IN  SharedBelow(call[c].pair[1], call[c].pair[2], m) = shared /\ Cardinality(shared) \in 0 .. n - 1
<1> DEFINE x == call[c].pair[1]
           y == call[c].pair[2]
           shared == Members(x) \cap Members(y)
<1>1. /\ keyed /\ m # 0 /\ Members(x) \cup Members(y) \subseteq 0 .. m - 1
      /\ m \in Universes \cup {0}
  BY DEF SjFit, QueryFits, QueryAdmitted, SjNumbers
<1>2. m \in Universes /\ m \in Nat
  BY <1>1, Sj16Assumption
<1> HIDE DEF x, y
<1>3. SharedBelow(x, y, m) = shared
  BY <1>1 DEF SharedBelow
<1>4. Cardinality(shared) \in Nat /\ Cardinality(shared) <= m
  <2>1. IsFiniteSet(0 .. m - 1) /\ Cardinality(0 .. m - 1) = m
    BY <1>1, <1>2, FS_Interval
  <2>2. shared \in SUBSET (0 .. m - 1)
    BY <1>1
  <2>3. IsFiniteSet(shared) /\ Cardinality(shared) <= Cardinality(0 .. m - 1)
    <3> HIDE DEF shared
    <3> QED BY <2>1, <2>2, FS_Subset
  <2> QED BY <2>1, <2>3, FS_CardinalityType
<1>5. m < n /\ n \in Nat
  <2>1. PICK p \in Primes, q \in Primes : FullLength(p, q) /\ n = p * q
    BY <1>1, WholeKey
  <2> QED BY <1>1, <1>2, <2>1, UniverseAssumption, KeyedModulus
<1> QED BY <1>2, <1>3, <1>4, <1>5 DEF x, y

\* What a query that ends well has computed.
LEMMA FinishExact ==
    ASSUME SjFit, NEW c \in Callers, damaged = {},
           call[c].pc = "encrypt", call[c].left = {}, ~call[c].failed,
           NEW r \in MasksFor(c), NEW e \in EncMsg(r, call[c].base + m),
           NEW x1 \in Decrypt(AddCipher(ProductAt(call[c].z, call[c].pair[2]), e))
    PROVE  JaccardOf((x1 + ((n - r) % n)) % n, call[c].pair) = Exact(call[c].pair)
<1> DEFINE x == call[c].pair[1]
           y == call[c].pair[2]
           z == call[c].z
           shared == Members(x) \cap Members(y)
           count == Cardinality(shared)
           entry == call[c].base + m
<1>1. Asking(c) /\ QueryFits(c) /\ keyed
  BY DEF SjFit, Asking, QueryFits, QueryAdmitted
<1>2. PICK p \in Primes, q \in Primes :
          /\ KeyPrimes(p, q) /\ paillier = Key(p, q) /\ n = p * q
          /\ paillier.n = n /\ paillier.nsq = n * n /\ paillier.lambda = Lambda(p, q)
  BY <1>1, WholeKey
<1>3. n \in Nat \ {0} /\ n * n \in Nat \ {0}
  BY <1>1, KeyedModulus
<1>4. paillier.lambda \in Nat
  BY <1>2, LambdaIs DEF KeyPrimes, PrimeNumber
<1>5. SharedBelow(x, y, m) = shared /\ count \in 0 .. n - 1
  BY <1>1, SharedIsSmall
<1>6. m \in Nat /\ Len(rhoPool) \in Nat
  BY Sj16Assumption DEF SjFit, SjNumbers
<1>7. \A i \in 0 .. m - 1 : z[i] \in Int /\ Encrypts(z[i], Indicator(x)[i], n, paillier.lambda)
  BY <1>1 DEF QueryFits, VectorFits, Encrypted
<1>8. r \in 0 .. n - 1 /\ r \in Nat
  <2>1. call[c].mask = Fresh \/ call[c].mask \in 0 .. n - 1
    BY <1>1 DEF QueryFits, QueryAdmitted
  <2>2. r \in 0 .. n - 1
    <3>1. CASE call[c].mask = Fresh
      <4>1. r \in MaskDraws /\ r < n
        BY <3>1 DEF MasksFor
      <4>2. r \in Nat
        BY <4>1, Sj16Assumption
      <4> QED BY <1>3, <4>1, <4>2
    <3>2. CASE call[c].mask # Fresh
      BY <2>1, <3>2 DEF MasksFor
    <3> QED BY <3>1, <3>2
  <2> QED BY <2>2
<1>9. precompute => entry \in Nat /\ entry + 1 <= Len(rhoPool)
  <2>1. precompute => call[c].base \in Nat /\ call[c].base + m + 1 <= Len(rhoPool)
    BY <1>1 DEF QueryFits, BlockFits
  <2> QED BY <1>6, <2>1
<1>10. e \in Int /\ Encrypts(e, r, n, paillier.lambda)
  <2> HIDE DEF entry
  <2>1. e \in EncMsg(r, entry)
    BY DEF entry
  <2> QED BY <1>1, <1>8, <1>9, <2>1, EncMsgIs
<1> DEFINE P0 == ProductAt(z, y)
           c2 == AddCipher(P0, e)
<1>11. P0 \in Int /\ Encrypts(P0, count, n, paillier.lambda)
  <2> HIDE DEF z, x, y
  <2>1. /\ ProductAt(z, y) \in Int
        /\ Encrypts(ProductAt(z, y), Cardinality(SharedBelow(x, y, m)), n, paillier.lambda)
    BY <1>2, <1>3, <1>4, <1>6, <1>7, ProductAtIs
  <2> QED BY <1>5, <2>1
<1> HIDE DEF P0, count
<1>12. c2 \in Int /\ Encrypts(c2, count + r, n, paillier.lambda)
  <2> DEFINE ab == P0 * e
             kk == n * n
  <2>1. c2 = ab % kk
    BY <1>2 DEF AddCipher
  <2>2. ab \in Int /\ kk \in Nat /\ kk # 0
    BY <1>3, <1>10, <1>11
  <2>3. ab % kk \in Int
    <3> HIDE DEF ab, kk
    <3> QED BY <2>2
  <2>4. count \in Int /\ r \in Int
    BY <1>5, <1>8
  <2>5. Encrypts(ab % kk, count + r, n, paillier.lambda)
    BY <1>3, <1>4, <1>10, <1>11, <2>4, ProductEncrypts
  <2> QED BY <2>1, <2>3, <2>5
<1>13. Decrypt(c2) = {(count + r) % n}
  <2>1. PICK sum \in Nat : sum = count + r
    BY <1>5, <1>8
  <2> HIDE DEF c2
  <2>2. Encrypts(c2, sum, p * q, Lambda(p, q))
    BY <1>2, <1>12, <2>1
  <2>3. KeyPrimes(p, q) /\ paillier = Key(p, q) /\ c2 \in Int /\ sum \in Nat
    BY <1>2, <1>12, <2>1
  <2>4. Decrypt(c2) = {sum % (p * q)}
    BY ONLY <2>2, <2>3, DecryptIs, Zenon
  <2> QED BY <1>2, <2>1, <2>4
<1>14. x1 = (count + r) % n
  <2>1. x1 \in Decrypt(c2)
    BY DEF c2, P0
  <2> QED BY <1>13, <2>1
<1>15. (x1 + ((n - r) % n)) % n = count
  BY <1>3, <1>5, <1>8, <1>14, SharesAddUp
<1> QED BY <1>15 DEF Exact, count

\* A query ends with the answer or an exception.
LEMMA FinishIs ==
    ASSUME SjFit, NEW c \in Callers, Finish(c)
    PROVE  \E r : /\ call' = [call EXCEPT ![c] = r] /\ DOMAIN r = DOMAIN Blank
                  /\ r.pair = call[c].pair
                  /\ \/ r.pc = "refused"
                     \/ r.pc = "answered" /\ (damaged = {} => r.answer = Exact(call[c].pair))
<1>1. CASE Throw(c)
  <2>1. PICK r : /\ call' = [call EXCEPT ![c] = r] /\ DOMAIN r = DOMAIN Blank
                 /\ r.pc = "refused" /\ r.pair = call[c].pair
    BY <1>1, ThrowIs
  <2> QED BY <2>1
<1>2. CASE ~Throw(c)
  <2>0. call[c].pc = "encrypt" /\ call[c].left = {} /\ ~call[c].failed
    BY DEF Finish
  <2>1. PICK r \in MasksFor(c) : \E e \in EncMsg(r, call[c].base + m) :
            \E x1 \in Decrypt(AddCipher(ProductAt(call[c].z, call[c].pair[2]), e)) :
               call' = [call EXCEPT ![c] = [Blank EXCEPT !.pc = "answered", !.pair = call[c].pair,
                           !.answer = JaccardOf((x1 + ((n - r) % n)) % n, call[c].pair)]]
    BY <1>2 DEF Finish
  <2>2. PICK e \in EncMsg(r, call[c].base + m) :
            \E x1 \in Decrypt(AddCipher(ProductAt(call[c].z, call[c].pair[2]), e)) :
               call' = [call EXCEPT ![c] = [Blank EXCEPT !.pc = "answered", !.pair = call[c].pair,
                           !.answer = JaccardOf((x1 + ((n - r) % n)) % n, call[c].pair)]]
    BY <2>1
  <2>3. PICK x1 \in Decrypt(AddCipher(ProductAt(call[c].z, call[c].pair[2]), e)) :
            call' = [call EXCEPT ![c] = [Blank EXCEPT !.pc = "answered", !.pair = call[c].pair,
                        !.answer = JaccardOf((x1 + ((n - r) % n)) % n, call[c].pair)]]
    BY <2>2
  <2> DEFINE j == JaccardOf((x1 + ((n - r) % n)) % n, call[c].pair)
             s == [Blank EXCEPT !.pc = "answered", !.pair = call[c].pair, !.answer = j]
  <2>4. damaged = {} => j = Exact(call[c].pair)
    BY <2>0, FinishExact
  <2>5. call' = [call EXCEPT ![c] = s]
    BY <2>3
  <2> HIDE DEF j
  <2>6. DOMAIN s = DOMAIN Blank /\ s.pair = call[c].pair /\ s.pc = "answered" /\ s.answer = j
    BY DEF Blank
  <2> HIDE DEF s
  <2> QED BY <2>4, <2>5, <2>6
<1> QED BY <1>1, <1>2

LEMMA FinishFits ==
    ASSUME SjFit, NEW c \in Callers, Finish(c) \/ FinishThrows(c) \/ TakeResult(c)
    PROVE  SjFit'
<1>0. UNCHANGED <<setup, poolIndex>>
  BY DEF Finish, FinishThrows, TakeResult
<1>1. CASE Finish(c)
  <2>1. PICK r : call' = [call EXCEPT ![c] = r] /\ DOMAIN r = DOMAIN Blank /\ r.pc \in {"refused", "answered"}
    BY <1>1, FinishIs
  <2> QED BY <1>0, <2>1, ThrowFits
<1>2. CASE FinishThrows(c)
  <2>1. PICK r : call' = [call EXCEPT ![c] = r] /\ DOMAIN r = DOMAIN Blank /\ r.pc = "refused"
    BY <1>2, ThrowIs DEF FinishThrows
  <2> QED BY <1>0, <2>1, ThrowFits
<1>3. CASE TakeResult(c)
  <2>1. call' = [call EXCEPT ![c] = Blank] /\ Blank.pc = "idle"
    BY <1>3 DEF TakeResult, Blank
  <2> QED BY <1>0, <2>1, ThrowFits
<1> QED BY <1>1, <1>2, <1>3

LEMMA SjInitFits == SjInit => SjFit
<1> SUFFICES ASSUME SjInit PROVE SjFit
  OBVIOUS
<1>1. call = [c \in Callers |-> Blank] /\ Blank.pc = "idle" /\ rhoPool = <<>> /\ keyed = FALSE /\ m = 0 /\ poolIndex = 0
  BY DEF SjInit, Blank
<1>2. Len(<<>>) = 0 /\ <<>> \in Seq(Int)
  OBVIOUS
<1>3. SjRecords /\ SjNumbers /\ KeyFits /\ PoolFits
  BY <1>1, <1>2 DEF SjRecords, SjNumbers, KeyFits, PoolFits
<1>4. \A c \in Callers : ~Asking(c)
  BY <1>1 DEF Asking
<1> QED BY <1>3, <1>4 DEF SjFit

LEMMA SjNextFits == SjFit /\ [SjNext]_sjVars => SjFit'
<1> SUFFICES ASSUME SjFit, [SjNext]_sjVars PROVE SjFit'
  OBVIOUS
<1>1. CASE \/ SjSetup \/ SetupFails \/ \E u \in Universes : SetUniverse(u)
           \/ \E count \in PoolSizes : PrepareRandomizerPool(count) \/ PrepareThrows(count)
  BY <1>1, SetUpFits
<1>2. ASSUME NEW c \in Callers, NEW pair \in Inputs, NEW mask, RunProtocol(c, pair, mask) PROVE SjFit'
  BY <1>2, RunProtocolFits
<1>3. ASSUME NEW c \in Callers, Step(c) PROVE SjFit'
  BY <1>3, ReserveFits, IterateFits, FinishFits DEF Step
<1>4. ASSUME NEW c \in Callers, TakeResult(c) PROVE SjFit'
  BY <1>4, FinishFits
<1>5. CASE UNCHANGED sjVars
  <2>1. UNCHANGED <<precompute, keyed, paillier, n, m, rhoPool, damaged, call, poolIndex>>
    BY <1>5 DEF sjVars, setup
  <2>2. SjRecords' /\ SjNumbers' /\ KeyFits' /\ PoolFits'
    BY <2>1 DEF SjFit, SjRecords, SjNumbers, KeyFits, ModulusIs, PoolFits
  <2>3. \A c \in Callers : Asking(c)' => QueryFits(c)'
    BY <2>1 DEF SjFit, Asking, QueryFits, QueryAdmitted, BlockFits, VectorFits, Encrypted, Encrypts, Invisible, Indicator
  <2> QED BY <2>2, <2>3 DEF SjFit
<1> QED BY <1>1, <1>2, <1>3, <1>4, <1>5 DEF SjNext

------------------------------------------------------------------------------
(* The refinement *)

SjStanding(c) == [pair |-> call[c].pair, stands |-> Stands(c),
                  answer |-> IF call[c].pc = "answered" THEN call[c].answer ELSE <<>>]
SjQuery == [c \in Callers |-> SjStanding(c)]

LEMMA SjInitImplements == SjInit => SjPromise!Init
<1> SUFFICES ASSUME SjInit PROVE SjPromise!Init
  OBVIOUS
<1>1. \A c \in Callers : call[c] = Blank
  BY DEF SjInit
<1>2. SjQuery = [c \in Callers |-> SjPromise!Idle]
  BY <1>1 DEF SjQuery, SjStanding, Stands, Blank, SjPromise!Idle
<1>3. (damaged # {}) = FALSE
  BY DEF SjInit
<1> QED BY <1>2, <1>3 DEF SjQuery, SjStanding, SjPromise!Init

\* How a record of the model stands towards the promise.
StandsOf(r) == IF r.pc \in {"idle", "answered", "refused"} THEN r.pc ELSE "asked"
StandingOf(r) == [pair |-> r.pair, stands |-> StandsOf(r),
                  answer |-> IF r.pc = "answered" THEN r.answer ELSE <<>>]

\* A step that replaces one caller's record.
LEMMA SjMoves ==
    ASSUME SjFit, NEW c \in Callers, NEW r, call' = [call EXCEPT ![c] = r]
    PROVE  /\ SjQuery' = [SjQuery EXCEPT ![c] = StandingOf(r)]
           /\ SjQuery[c] = StandingOf(call[c])
<1>1. call'[c] = r /\ \A d \in Callers \ {c} : call'[d] = call[d]
  BY DEF SjFit, SjRecords
<1>2. SjStanding(c)' = StandingOf(r) /\ \A d \in Callers \ {c} : SjStanding(d)' = SjStanding(d)
  BY <1>1 DEF SjStanding, StandingOf, Stands, StandsOf
<1>3. SjQuery' = [d \in Callers |-> SjStanding(d)'] /\ SjQuery = [d \in Callers |-> SjStanding(d)]
  BY DEF SjQuery
<1>4. SjStanding(c) = StandingOf(call[c])
  BY DEF SjStanding, StandingOf, Stands, StandsOf
<1> QED BY <1>2, <1>3, <1>4

\* A step inside a query.
LEMMA SjStays ==
    ASSUME SjFit, NEW c \in Callers, NEW r, call' = [call EXCEPT ![c] = r], r.pair = call[c].pair,
           {call[c].pc, r.pc} \subseteq {"load", "reserve", "encrypt"}
    PROVE  SjQuery' = SjQuery
<1>1. SjQuery' = [SjQuery EXCEPT ![c] = StandingOf(r)] /\ SjQuery[c] = StandingOf(call[c])
  BY SjMoves
<1>2. StandingOf(r) = StandingOf(call[c])
  BY DEF StandingOf, StandsOf
<1>3. SjQuery = [SjQuery EXCEPT ![c] = SjQuery[c]]
  BY DEF SjQuery
<1> QED BY <1>1, <1>2, <1>3

LEMMA SjSetUpImplements ==
    ASSUME SjFit, \/ SjSetup \/ SetupFails \/ \E u \in Universes : SetUniverse(u)
                  \/ \E count \in PoolSizes : PrepareRandomizerPool(count) \/ PrepareThrows(count)
    PROVE  SjPromise!SetUp
<1>1. NoneOpen /\ UNCHANGED call
  BY DEF SjSetup, SetupFails, SetUniverse, PrepareRandomizerPool, PrepareThrows, SetUp
<1>2. \A c \in Callers : Stands(c) # "asked"
  BY <1>1 DEF NoneOpen, Stands
<1>3. UNCHANGED SjQuery
  BY <1>1 DEF SjQuery, SjStanding, Stands
<1>4. \A c \in Callers : SjQuery[c].stands # "asked"
  BY <1>2 DEF SjQuery, SjStanding
<1>5. (damaged # {})' \in BOOLEAN
  OBVIOUS
<1> QED BY <1>3, <1>4, <1>5 DEF SjQuery, SjStanding, SjPromise!SetUp

LEMMA SjAskImplements ==
    ASSUME SjFit, NEW c \in Callers, NEW pair \in Inputs, NEW mask, RunProtocol(c, pair, mask)
    PROVE  SjPromise!Ask(c)
<1> DEFINE asked == [Blank EXCEPT !.pair = pair, !.mask = mask, !.left = 0 .. m - 1,
                                  !.z = [i \in 0 .. m - 1 |-> 0],
                                  !.pc = IF precompute THEN "load" ELSE "encrypt"]
           refused == [Blank EXCEPT !.pair = pair, !.pc = "refused"]
           r == IF Admitted(pair, mask) THEN asked ELSE refused
           s == IF Admitted(pair, mask) THEN "asked" ELSE "refused"
<1>1. call' = [call EXCEPT ![c] = r] /\ UNCHANGED damaged /\ call[c].pc = "idle"
  BY DEF RunProtocol, setup
<1>2. SjQuery' = [SjQuery EXCEPT ![c] = StandingOf(r)] /\ SjQuery[c] = StandingOf(call[c])
  <2> HIDE DEF r
  <2> QED BY <1>1, SjMoves
<1>3. StandingOf(r) = [pair |-> pair, stands |-> s, answer |-> <<>>]
  BY DEF StandingOf, StandsOf, Blank
<1> HIDE DEF r
<1>4. SjQuery[c].stands = "idle" /\ SjQuery[c] = [pair |-> call[c].pair, stands |-> "idle", answer |-> <<>>]
  BY <1>1, <1>2 DEF StandingOf, StandsOf
<1>5. [SjQuery[c] EXCEPT !.pair = pair, !.stands = s] = [pair |-> pair, stands |-> s, answer |-> <<>>]
  <2> HIDE DEF s
  <2>1. [[pair |-> call[c].pair, stands |-> "idle", answer |-> <<>>] EXCEPT !.pair = pair, !.stands = s]
           = [pair |-> pair, stands |-> s, answer |-> <<>>]
    <3> DEFINE R == [pair |-> call[c].pair, stands |-> "idle", answer |-> <<>>]
    <3>1. [R EXCEPT !.pair = pair, !.stands = s] = [[R EXCEPT !.pair = pair] EXCEPT !.stands = s]
      OBVIOUS
    <3>2. [R EXCEPT !.pair = pair] = [pair |-> pair, stands |-> "idle", answer |-> <<>>]
      OBVIOUS
    <3>3. [[pair |-> pair, stands |-> "idle", answer |-> <<>>] EXCEPT !.stands = s]
             = [pair |-> pair, stands |-> s, answer |-> <<>>]
      OBVIOUS
    <3> QED BY <3>1, <3>2, <3>3, Zenon
  <2> QED BY <1>4, <2>1, Zenon
<1>6. SjQuery' = [SjQuery EXCEPT ![c] = [@ EXCEPT !.pair = pair, !.stands = s]]
  BY <1>2, <1>3, <1>5
<1>7. s \in {"asked", "refused"}
  OBVIOUS
<1> HIDE DEF s
<1>8. /\ SjQuery[c].stands = "idle"
      /\ \E p \in Inputs, t \in {"asked", "refused"} :
            SjQuery' = [SjQuery EXCEPT ![c] = [@ EXCEPT !.pair = p, !.stands = t]]
      /\ UNCHANGED (damaged # {})
  BY <1>1, <1>4, <1>6, <1>7
<1> QED BY <1>8 DEF SjQuery, SjStanding, SjPromise!Ask

\* A query in progress that throws.
LEMMA SjRefuseImplements ==
    ASSUME SjFit, NEW c \in Callers, Asking(c), UNCHANGED damaged, NEW r, call' = [call EXCEPT ![c] = r],
           r.pc = "refused", r.pair = call[c].pair
    PROVE  SjPromise!Refuse(c)
<1>1. SjQuery' = [SjQuery EXCEPT ![c] = StandingOf(r)] /\ SjQuery[c] = StandingOf(call[c])
  BY SjMoves
<1>2. SjQuery[c] = [pair |-> call[c].pair, stands |-> "asked", answer |-> <<>>]
  BY <1>1 DEF StandingOf, StandsOf, Asking
<1>3. StandingOf(r) = [pair |-> call[c].pair, stands |-> "refused", answer |-> <<>>]
  BY DEF StandingOf, StandsOf
<1>4. [SjQuery[c] EXCEPT !.stands = "refused"] = StandingOf(r)
  <2>1. [[pair |-> call[c].pair, stands |-> "asked", answer |-> <<>>] EXCEPT !.stands = "refused"]
           = [pair |-> call[c].pair, stands |-> "refused", answer |-> <<>>]
    OBVIOUS
  <2> QED BY <1>2, <1>3, <2>1, Zenon
<1>5. /\ SjQuery[c].stands = "asked"
      /\ SjQuery' = [SjQuery EXCEPT ![c].stands = "refused"]
      /\ UNCHANGED (damaged # {})
  <2>1. SjQuery[c].stands = "asked"
    BY <1>2
  <2>2. SjQuery' = [SjQuery EXCEPT ![c].stands = "refused"]
    BY <1>1, <1>4, Zenon
  <2> QED BY <2>1, <2>2
<1> QED BY <1>5 DEF SjQuery, SjStanding, SjPromise!Refuse

LEMMA SjFinishImplements ==
    ASSUME SjFit, NEW c \in Callers, Finish(c)
    PROVE  SjPromise!Refuse(c) \/ SjPromise!Answer(c)
<1>1. PICK r : /\ call' = [call EXCEPT ![c] = r] /\ DOMAIN r = DOMAIN Blank /\ r.pair = call[c].pair
               /\ \/ r.pc = "refused"
                  \/ r.pc = "answered" /\ (damaged = {} => r.answer = Exact(call[c].pair))
  BY FinishIs
<1>2. UNCHANGED damaged /\ Asking(c)
  BY DEF Finish, setup, Asking
<1>3. CASE r.pc = "refused"
  BY <1>1, <1>2, <1>3, SjRefuseImplements
<1>4. CASE r.pc = "answered"
  <2>1. SjQuery' = [SjQuery EXCEPT ![c] = StandingOf(r)] /\ SjQuery[c] = StandingOf(call[c])
    BY <1>1, SjMoves
  <2>2. SjQuery[c] = [pair |-> call[c].pair, stands |-> "asked", answer |-> <<>>]
    BY <1>2, <2>1 DEF StandingOf, StandsOf, Asking
  <2>3. StandingOf(r) = [pair |-> call[c].pair, stands |-> "answered", answer |-> r.answer]
    BY <1>1, <1>4 DEF StandingOf, StandsOf
  <2>4. SjQuery'[c] = StandingOf(r)
    BY <2>1 DEF SjQuery
  <2>5. [SjQuery[c] EXCEPT !.stands = "answered", !.answer = SjQuery'[c].answer] = StandingOf(r)
    <3>1. SjQuery'[c].answer = r.answer
      BY <2>3, <2>4
    <3>2. [[pair |-> call[c].pair, stands |-> "asked", answer |-> <<>>] EXCEPT !.stands = "answered", !.answer = r.answer]
             = [pair |-> call[c].pair, stands |-> "answered", answer |-> r.answer]
      <4> DEFINE R == [pair |-> call[c].pair, stands |-> "asked", answer |-> <<>>]
      <4>1. [R EXCEPT !.stands = "answered", !.answer = r.answer]
               = [[R EXCEPT !.stands = "answered"] EXCEPT !.answer = r.answer]
        OBVIOUS
      <4>2. [R EXCEPT !.stands = "answered"] = [pair |-> call[c].pair, stands |-> "answered", answer |-> <<>>]
        OBVIOUS
      <4>3. [[pair |-> call[c].pair, stands |-> "answered", answer |-> <<>>] EXCEPT !.answer = r.answer]
               = [pair |-> call[c].pair, stands |-> "answered", answer |-> r.answer]
        OBVIOUS
      <4> QED BY <4>1, <4>2, <4>3, Zenon
    <3> QED BY <2>2, <2>3, <3>1, <3>2, Zenon
  <2>6. damaged # {} \/ SjQuery'[c].answer = Exact(SjQuery[c].pair)
    BY <1>1, <1>4, <2>2, <2>3, <2>4
  <2>7. /\ SjQuery[c].stands = "asked"
        /\ SjQuery' = [SjQuery EXCEPT ![c] = [@ EXCEPT !.stands = "answered", !.answer = SjQuery'[c].answer]]
        /\ damaged # {} \/ SjQuery'[c].answer = Exact(SjQuery[c].pair)
        /\ UNCHANGED (damaged # {})
    <3>1. SjQuery[c].stands = "asked"
      BY <2>2
    <3>2. SjQuery' = [SjQuery EXCEPT ![c] = [@ EXCEPT !.stands = "answered", !.answer = SjQuery'[c].answer]]
      BY <2>1, <2>5, Zenon
    <3> QED BY <1>2, <2>6, <3>1, <3>2
  <2> QED BY <2>7 DEF SjQuery, SjStanding, SjPromise!Answer
<1> QED BY <1>1, <1>3, <1>4

LEMMA SjLeaveImplements ==
    ASSUME SjFit, NEW c \in Callers, TakeResult(c)
    PROVE  SjPromise!Leave(c)
<1>1. /\ call' = [call EXCEPT ![c] = Blank] /\ UNCHANGED damaged
      /\ call[c].pc \in {"answered", "refused"}
  BY DEF TakeResult, setup
<1>2. SjQuery' = [SjQuery EXCEPT ![c] = StandingOf(Blank)] /\ SjQuery[c] = StandingOf(call[c])
  BY <1>1, SjMoves
<1>3. StandingOf(Blank) = SjPromise!Idle
  BY DEF StandingOf, StandsOf, Blank, SjPromise!Idle
<1>4. SjQuery[c].stands \in {"answered", "refused"}
  BY <1>1, <1>2 DEF StandingOf, StandsOf
<1>5. /\ SjQuery[c].stands \in {"answered", "refused"}
      /\ SjQuery' = [SjQuery EXCEPT ![c] = SjPromise!Idle]
      /\ UNCHANGED (damaged # {})
  BY <1>1, <1>2, <1>3, <1>4
<1> QED BY <1>5 DEF SjQuery, SjStanding, SjPromise!Leave

\* The reservation and the loop are steps the promise does not see, or the exception.
LEMMA SjStepImplements ==
    ASSUME SjFit, NEW c \in Callers, Reserve(c) \/ Iterate(c) \/ FinishThrows(c)
    PROVE  SjPromise!Refuse(c) \/ (UNCHANGED SjQuery /\ UNCHANGED (damaged # {}))
<1>0. UNCHANGED damaged
  BY DEF Reserve, ReserveLoad, ReserveThrows, ReserveTakes, ReserveRetries, Iterate, EncryptAt, EncryptThrows,
         EncryptSkips, FinishThrows, setup
<1>1. CASE ReserveThrows(c) \/ FinishThrows(c)
  <2>1. Throw(c) /\ Asking(c)
    BY <1>1 DEF ReserveThrows, FinishThrows, Asking
  <2>2. PICK r : call' = [call EXCEPT ![c] = r] /\ r.pc = "refused" /\ r.pair = call[c].pair
    BY <2>1, ThrowIs
  <2> QED BY <1>0, <2>1, <2>2, SjRefuseImplements
<1>2. CASE ReserveLoad(c) \/ ReserveTakes(c) \/ ReserveRetries(c) \/ Iterate(c)
  <2>0. DOMAIN call = Callers /\ {"pc", "pair", "left", "failed", "z", "cur", "base"} \subseteq DOMAIN call[c]
    BY DEF SjFit, SjRecords, Blank
  <2>1. \E r : /\ call' = [call EXCEPT ![c] = r] /\ r.pair = call[c].pair
               /\ {call[c].pc, r.pc} \subseteq {"load", "reserve", "encrypt"}
    <3>1. CASE ReserveLoad(c)
      <4> DEFINE r == [call[c] EXCEPT !.pc = "reserve", !.cur = poolIndex]
      <4>1. call' = [call EXCEPT ![c] = r] /\ call[c].pc = "load"
        BY <3>1 DEF ReserveLoad
      <4>2. r.pair = call[c].pair /\ r.pc = "reserve"
        BY <2>0
      <4> QED BY <4>1, <4>2
    <3>2. CASE ReserveTakes(c)
      <4> DEFINE r == [call[c] EXCEPT !.pc = "encrypt", !.base = call[c].cur]
      <4>1. call' = [call EXCEPT ![c] = r] /\ call[c].pc = "reserve"
        BY <3>2 DEF ReserveTakes
      <4>2. r.pair = call[c].pair /\ r.pc = "encrypt"
        BY <2>0
      <4> QED BY <4>1, <4>2
    <3>3. CASE ReserveRetries(c)
      <4> DEFINE r == [call[c] EXCEPT !.cur = poolIndex]
      <4>1. call' = [call EXCEPT ![c] = r] /\ call[c].pc = "reserve"
        BY <3>3 DEF ReserveRetries
      <4>2. r.pair = call[c].pair /\ r.pc = call[c].pc
        BY <2>0
      <4> QED BY <4>1, <4>2
    <3>4. ASSUME NEW i, EncryptAt(c, i) PROVE \E r : /\ call' = [call EXCEPT ![c] = r] /\ r.pair = call[c].pair
               /\ {call[c].pc, r.pc} \subseteq {"load", "reserve", "encrypt"}
      <4>1. PICK ct : call' = [call EXCEPT ![c].z[i] = ct, ![c].left = @ \ {i}] /\ call[c].pc = "encrypt"
        BY <3>4 DEF EncryptAt
      <4> DEFINE r == [call[c] EXCEPT !.z[i] = ct, !.left = @ \ {i}]
      <4>2. call' = [call EXCEPT ![c] = r]
        BY <4>1
      <4>3. r.pair = call[c].pair /\ r.pc = call[c].pc
        BY <2>0
      <4> QED BY <4>1, <4>2, <4>3
    <3>5. ASSUME NEW i, EncryptThrows(c, i) PROVE \E r : /\ call' = [call EXCEPT ![c] = r] /\ r.pair = call[c].pair
               /\ {call[c].pc, r.pc} \subseteq {"load", "reserve", "encrypt"}
      <4> DEFINE r == [call[c] EXCEPT !.failed = TRUE, !.left = @ \ {i}]
      <4>1. call' = [call EXCEPT ![c] = r] /\ call[c].pc = "encrypt"
        BY <3>5 DEF EncryptThrows
      <4>2. r.pair = call[c].pair /\ r.pc = call[c].pc
        BY <2>0
      <4> QED BY <4>1, <4>2
    <3>6. ASSUME NEW i, EncryptSkips(c, i) PROVE \E r : /\ call' = [call EXCEPT ![c] = r] /\ r.pair = call[c].pair
               /\ {call[c].pc, r.pc} \subseteq {"load", "reserve", "encrypt"}
      <4> DEFINE r == [call[c] EXCEPT !.left = @ \ {i}]
      <4>1. call' = [call EXCEPT ![c] = r] /\ call[c].pc = "encrypt"
        BY <3>6 DEF EncryptSkips
      <4>2. r.pair = call[c].pair /\ r.pc = call[c].pc
        BY <2>0
      <4> QED BY <4>1, <4>2
    <3> QED BY <1>2, <3>1, <3>2, <3>3, <3>4, <3>5, <3>6 DEF Iterate
  <2> QED BY <1>0, <2>1, SjStays
<1> QED BY <1>1, <1>2 DEF Reserve

LEMMA SjNextImplements ==
    SjFit /\ [SjNext]_sjVars => SjPromise!Next \/ (UNCHANGED SjQuery /\ UNCHANGED (damaged # {}))
<1> SUFFICES ASSUME SjFit, [SjNext]_sjVars
             PROVE  SjPromise!Next \/ (UNCHANGED SjQuery /\ UNCHANGED (damaged # {}))
  OBVIOUS
<1>1. CASE \/ SjSetup \/ SetupFails \/ \E u \in Universes : SetUniverse(u)
           \/ \E count \in PoolSizes : PrepareRandomizerPool(count) \/ PrepareThrows(count)
  BY <1>1, SjSetUpImplements DEF SjPromise!Next
<1>2. ASSUME NEW c \in Callers, NEW pair \in Inputs, NEW mask, RunProtocol(c, pair, mask)
      PROVE  SjPromise!Next
  BY <1>2, SjAskImplements DEF SjPromise!Next
<1>3. ASSUME NEW c \in Callers, Step(c)
      PROVE  SjPromise!Next \/ (UNCHANGED SjQuery /\ UNCHANGED (damaged # {}))
  BY <1>3, SjStepImplements, SjFinishImplements DEF SjPromise!Next, Step
<1>4. ASSUME NEW c \in Callers, TakeResult(c) PROVE SjPromise!Next
  BY <1>4, SjLeaveImplements DEF SjPromise!Next
<1>5. CASE UNCHANGED sjVars
  BY <1>5 DEF sjVars, setup, SjQuery, SjStanding, Stands
<1> QED BY <1>1, <1>2, <1>3, <1>4, <1>5 DEF SjNext

\* Whatever runs beside it, whichever iterations throw and whatever is drawn, a query
\* of SJ16 returns the Jaccard similarity of its own two sets or throws: the model
\* implements the promise every comparator makes.
THEOREM SjImplements == SjSpec => SjAnswersExactly
<1>1. SjInit => SjFit /\ SjPromise!Init
  BY SjInitFits, SjInitImplements
<1>2. SjFit /\ [SjNext]_sjVars => SjFit'
  BY SjNextFits
<1>3. SjFit /\ [SjNext]_sjVars
         => [SjPromise!Next]_<<[c \in Callers |-> [pair |-> call[c].pair, stands |-> Stands(c),
                                answer |-> IF call[c].pc = "answered" THEN call[c].answer ELSE <<>>]],
                               damaged # {}>>
  BY SjNextImplements DEF SjQuery, SjStanding
<1> QED BY <1>1, <1>2, <1>3, PTL DEF SjSpec, SjAnswersExactly, SjPromise!Spec

------------------------------------------------------------------------------
(***************************************************************************)
(* For any sets, ranks, seeds, group, exponents, shuffles and team, every  *)
(* query of Bcg12 is answered with what is owed.                           *)
(*                                                                         *)
(* An element hashed into the group vanishes in the power Q, so raising to *)
(* R_a, then to R_b, then to 1 / R_a leaves its power R_b (Unblinded); Q   *)
(* is prime, so that power tells elements apart (BlindedApart). A tag thus *)
(* matches exactly when the item is common (TagsMatch), an ordering of the *)
(* items changes no number of matches (ReorderedCount), and the common     *)
(* items are the common elements, or the coordinates that agree            *)
(* (CommonIsOwed).                                                         *)
(*                                                                         *)
(* The loops: the parts of schedule(static) make up the loop (PartsCover), *)
(* so when every thread has finished, every slot holds what its iteration  *)
(* computes (Looped), and the vectors of the earlier phases hold what      *)
(* their names say (Kept).                                                 *)
(***************************************************************************)

\* P and Q are primes in the sense of the lemmas.
LEMMA GroupPrimes == PrimeNumber(P) /\ PrimeNumber(Q)
<1>1. /\ P \in Nat /\ P > 1 /\ Q \in Nat /\ Q > 1
      /\ \A d \in 2 .. P - 1 : P % d # 0
      /\ \A d \in 2 .. Q - 1 : Q % d # 0
  BY Bcg12Assumption, GroupAssumption
<1>2. ASSUME NEW d \in 2 .. P - 1 PROVE ~Same(P, 0, d)
  <2>1. P % d # 0
    BY <1>1, <1>2, Zenon
  <2>2. d \in Nat \ {0} /\ P \in Int
    BY <1>1, <1>2
  <2>3. ~Divides(d, P)
    BY <2>1 DEF Divides
  <2> QED BY <2>2, <2>3, DividesIs
<1>3. ASSUME NEW d \in 2 .. Q - 1 PROVE ~Same(Q, 0, d)
  <2>1. Q % d # 0
    BY <1>1, <1>3, Zenon
  <2>2. d \in Nat \ {0} /\ Q \in Int
    BY <1>1, <1>3
  <2>3. ~Divides(d, Q)
    BY <2>1 DEF Divides
  <2> QED BY <2>2, <2>3, DividesIs
<1> QED BY <1>1, <1>2, <1>3 DEF PrimeNumber

\* Whether two numbers are one modulo k can be asked of the remainder.
LEMMA RemainderOne ==
    ASSUME NEW k \in Nat, k > 1, NEW x \in Int
    PROVE  x % k = 1 <=> Same(x, 1, k)
<1>0. k # 0 /\ k \in Nat \ {0}
  OBVIOUS
<1> DEFINE r == x % k
<1>1. Same(r, x, k) /\ Same(x, r, k) /\ r \in 0 .. k - 1
  BY <1>0, SameRemainder
<1>2. r \in Int
  BY <1>0, <1>1
<1> HIDE DEF r
<1>3. r = 1 => Same(x, 1, k)
  BY <1>1
<1>4. ASSUME Same(x, 1, k) PROVE r = 1
  <2>1. Same(r, 1, k)
    BY <1>1, <1>2, <1>4, SameOrder
  <2>2. 1 \in 0 .. k - 1
    OBVIOUS
  <2> QED BY <1>1, <2>1, <2>2, SameEqual
<1> QED BY <1>3, <1>4 DEF r

\* An exponent below the order has an inverse.
LEMMA ExponentInvertible ==
    ASSUME NEW e \in 1 .. Q - 1
    PROVE  Invertible(e)
<1>1. PrimeNumber(Q) /\ Q \in Nat \ {0} /\ Q > 1 /\ e \in Nat
  BY GroupPrimes DEF PrimeNumber
<1>2. ~Same(e, 0, Q)
  <2>1. SUFFICES ASSUME Same(e, 0, Q) PROVE FALSE
    OBVIOUS
  <2>2. Q \in 1 .. e
    BY <1>1, <2>1, DivisorBounds
  <2> QED BY <1>1, <2>2
<1>3. PICK j \in Int : Same(e * j, 1, Q)
  <2>1. e \in Int /\ Coprime(e, Q)
    BY <1>1, <1>2, PrimeCoprime
  <2> QED BY <1>1, <2>1, InverseExists
<1> DEFINE i == j % Q
<1>4. i \in 0 .. Q - 1 /\ Same(i, j, Q)
  BY <1>1, SameRemainder
<1> HIDE DEF i
<1>5. i \in Int /\ i \in Nat /\ e * i \in Int /\ e * j \in Int
  BY <1>1, <1>4
<1>6. Same(e * i, e * j, Q)
  <2>1. Same(e, e, Q)
    BY <1>1, SameOrder
  <2> QED BY <1>1, <1>4, <1>5, <2>1, SameProduct
<1>7. Same(e * i, 1, Q)
  BY <1>1, <1>3, <1>5, <1>6, SameOrder
<1>8. (e * i) % Q = 1
  BY <1>1, <1>5, <1>7, RemainderOne
<1>9. i # 0
  <2>1. SUFFICES ASSUME i = 0 PROVE FALSE
    OBVIOUS
  <2>2. e * i = 0
    BY <1>1, <2>1
  <2>3. 0 % Q = 0
    BY <1>1
  <2> QED BY <1>8, <2>2, <2>3
<1>10. i \in 1 .. Q - 1
  BY <1>1, <1>4, <1>5, <1>9
<1> QED BY <1>8, <1>10 DEF Invertible

\* What is raised to an exponent and to its inverse is what it was.
LEMMA ExponentUndone ==
    ASSUME NEW h \in Int, Same(Power(h)[Q], 1, P), NEW e \in Nat, NEW i \in Nat, (e * i) % Q = 1
    PROVE  Same(Power(h)[e * i], h, P)
<1>1. P \in Nat /\ Q \in Nat /\ Q > 1
  BY Bcg12Assumption, GroupAssumption
<1> DEFINE ei == e * i
           H == Power(h)
<1>2. ei \in Nat /\ ei \in Int
  OBVIOUS
<1>3. Same(ei, 1, Q)
  BY <1>1, <1>2, RemainderOne
<1> HIDE DEF ei
<1>4. PICK c \in Int : ei = 1 + c * Q
  BY <1>3 DEF Same
<1>5. c \in Nat
  <2>1. SUFFICES ASSUME c < 0 PROVE FALSE
    OBVIOUS
  <2>2. c * Q <= (-1) * Q
    BY <1>1, <2>1
  <2>3. c * Q \in Int
    BY <1>1
  <2> QED BY <1>1, <1>2, <1>4, <2>2, <2>3
<1>6. PICK one \in Nat : one = 1
  OBVIOUS
<1>7. Q * c \in Nat /\ ei = one + Q * c
  BY <1>1, <1>4, <1>5, <1>6
<1>8. H \in [Nat -> Int]
  BY PowerUnfolds
<1>9. H[ei] = H[one] * H[Q * c]
  <2> DEFINE qc == Q * c
  <2> HIDE DEF qc, H
  <2>1. qc \in Nat /\ ei = one + qc
    BY <1>7 DEF qc
  <2>2. H[one + qc] = H[one] * H[qc]
    BY <2>1, PowerSum DEF H
  <2> QED BY <2>1, <2>2 DEF qc
<1>10. H[one] = h
  BY <1>6, PowerFirst
<1>11. Same(H[Q * c], 1, P)
  <2>1. H[Q * c] = Power(H[Q])[c]
    BY <1>1, <1>5, PowerOfPower
  <2>2. H[Q] \in Int
    BY <1>1, <1>8
  <2>3. Same(Power(H[Q])[c], 1, P)
    BY <1>1, <1>5, <2>2, SamePowerOfOne
  <2> QED BY <2>1, <2>3
<1>12. Same(h * H[Q * c], h * one, P)
  <2>1. H[Q * c] \in Int
    BY <1>7, <1>8
  <2>2. Same(h, h, P)
    BY <1>1, SameOrder
  <2>3. Same(H[Q * c], one, P)
    BY <1>6, <1>11
  <2> QED BY <1>1, <1>6, <2>1, <2>2, <2>3, SameProduct
<1>13. h * one = h
  BY <1>6
<1> QED BY <1>9, <1>10, <1>12, <1>13 DEF ei

\* A hashed item is an element of the group.
LEMMA HashedIs ==
    ASSUME NEW kind \in {RawItems, TaggedItems}, NEW u \in kind, NEW group \in {"FF", "EC"}
    PROVE  Hashed(group, u) \in 0 .. P - 1 /\ Same(Power(Hashed(group, u))[Q], 1, P)
<1>1. P \in Nat \ {0} /\ P > 1 /\ Q \in Nat /\ Q > 1 /\ Q # 0
  BY Bcg12Assumption, GroupAssumption
<1> DEFINE R == {r \in Retries : Accepts(group, u, r)}
           f == FirstAccepted(group, u)
           t == Digest(u, f)
<1>2. R # {} /\ R \subseteq Nat
  <2>1. \E r \in Retries : Accepts(group, u, r)
    BY HashAssumption, Zenon
  <2>2. Retries \subseteq Nat
    BY HashAssumption, Zenon
  <2> QED BY <2>1, <2>2
<1>3. \E r \in Retries : Accepts(group, u, r) /\ \A s \in Retries : s < r => ~Accepts(group, u, s)
  <2> HIDE DEF R
  <2>1. PICK r \in R : \A s \in R : r <= s
    BY <1>2, LeastNatural
  <2>2. r \in Nat /\ \A s \in R : s \in Nat /\ ~(s < r)
    BY <1>2, <2>1
  <2> QED BY <2>1, <2>2 DEF R
<1>4. f \in Retries /\ Accepts(group, u, f)
  BY <1>3 DEF FirstAccepted
<1>5. t \in 0 .. P - 1 /\ t \in Int /\ t \in Nat
  <2>1. Digest(u, f) \in 0 .. P - 1
    BY <1>4, HashAssumption, Zenon
  <2> QED BY <1>1, <2>1
<1> HIDE DEF f
<1>6. CASE group = "EC"
  <2>1. Hashed(group, u) = t /\ PowMod(t, Q, P) = 1
    BY <1>4, <1>6 DEF Hashed, Accepts, InSubgroup, f
  <2>2. Same(PowMod(t, Q, P), Power(t)[Q], P)
    BY <1>1, <1>5, PowModIs
  <2>3. Power(t)[Q] \in Int
    BY <1>1, <1>5, PowerUnfolds
  <2>4. PICK one \in Int : one = 1
    OBVIOUS
  <2>5. Same(one, Power(t)[Q], P)
    BY <2>1, <2>2, <2>4
  <2>6. Same(Power(t)[Q], one, P)
    BY <1>1, <2>3, <2>4, <2>5, SameOrder
  <2> QED BY <1>5, <2>1, <2>4, <2>6
<1>7. CASE group = "FF"
  <2> DEFINE g == PowMod(t, Cofactor, P)
             T == Power(t)
  <2>1. Hashed(group, u) = g /\ g # 0
    BY <1>4, <1>7 DEF Hashed, Accepts, f
  <2>2. Cofactor \in Nat /\ Cofactor * Q = P - 1
    <3>1. (P - 1) % Q = 0 /\ P - 1 \in Nat
      BY <1>1, GroupAssumption
    <3> DEFINE m1 == P - 1
    <3> HIDE DEF m1
    <3>2. m1 \in Nat /\ m1 % Q = 0
      BY <3>1 DEF m1
    <3>3. m1 \div Q \in Nat /\ m1 = Q * (m1 \div Q) + (m1 % Q)
      BY <1>1, <3>2
    <3>4. (m1 \div Q) * Q = m1
      BY <1>1, <3>2, <3>3
    <3> QED BY <3>3, <3>4 DEF m1, Cofactor
  <2>3. g \in 0 .. P - 1 /\ Same(g, T[Cofactor], P)
    BY <1>1, <1>5, <2>2, PowModIs
  <2>4. T \in [Nat -> Int] /\ T[0] = 1 /\ \A d \in Nat \ {0} : T[d] = t * T[d - 1]
    BY <1>5, PowerUnfolds
  <2> HIDE DEF g, T, t
  <2>5. g \in Int /\ T[Cofactor] \in Int
    BY <2>2, <2>3, <2>4
  <2>6. ~Same(t, 0, P)
    <3>1. SUFFICES ASSUME Same(t, 0, P) PROVE FALSE
      OBVIOUS
    <3>2. t = 0
      <4>1. PICK z \in Int : z = 0
        OBVIOUS
      <4>2. Same(t, z, P) /\ z \in 0 .. P - 1
        BY <1>1, <3>1, <4>1
      <4> QED BY <1>1, <1>5, <4>1, <4>2, SameEqual
    <3>3. Cofactor # 0
      BY <1>1, <2>2
    <3>4. T[Cofactor] = t * T[Cofactor - 1] /\ T[Cofactor - 1] \in Int
      BY <2>2, <2>4, <3>3
    <3>5. T[Cofactor] = 0
      BY <3>2, <3>4
    <3>6. PICK z \in Int : z = 0
      OBVIOUS
    <3>7. Same(g, z, P) /\ z \in 0 .. P - 1
      BY <1>1, <2>3, <3>5, <3>6
    <3>8. g = z
      BY <1>1, <2>3, <3>7, SameEqual
    <3> QED BY <2>1, <3>6, <3>8
  <2>7. Same(T[P - 1], 1, P)
    BY <1>5, <2>6, GroupPrimes, Fermat DEF T
  <2>8. Power(T[Cofactor])[Q] = T[P - 1]
    <3>1. Power(Power(t)[Cofactor])[Q] = Power(t)[Cofactor * Q]
      BY <1>1, <1>5, <2>2, PowerOfPower
    <3> QED BY <2>2, <3>1 DEF T
  <2>9. Same(Power(g)[Q], Power(T[Cofactor])[Q], P)
    BY <1>1, <2>3, <2>5, SamePower
  <2>10. Power(g)[Q] \in Int /\ T[P - 1] \in Int
    <3>1. P - 1 \in Nat
      BY <1>1
    <3>2. Power(g) \in [Nat -> Int]
      BY <2>5, PowerUnfolds
    <3> QED BY <1>1, <2>4, <3>1, <3>2
  <2>11. Same(Power(g)[Q], 1, P)
    BY <1>1, <2>7, <2>8, <2>9, <2>10, SameOrder
  <2> QED BY <2>1, <2>3, <2>11
<1> QED BY <1>6, <1>7

\* Exponentiation is the power modulo P.
LEMMA ExpIs ==
    ASSUME NEW g \in Int, NEW e \in Nat
    PROVE  /\ Exp(g, e) \in 0 .. P - 1 /\ Exp(g, e) \in Int
           /\ Power(g)[e] \in Int
           /\ Same(Exp(g, e), Power(g)[e], P)
<1>1. P \in Nat \ {0}
  BY Bcg12Assumption, GroupAssumption
<1>2. PowMod(g, e, P) \in 0 .. P - 1 /\ Same(PowMod(g, e, P), Power(g)[e], P)
  BY <1>1, PowModIs
<1>3. PowMod(g, e, P) \in Int
  BY <1>1, <1>2
<1>4. Power(g)[e] \in Int
  BY PowerUnfolds
<1> QED BY <1>2, <1>3, <1>4 DEF Exp

\* The two exponents in either order, and the first one taken off again.
LEMMA Unblinded ==
    ASSUME NEW h \in 0 .. P - 1, Same(Power(h)[Q], 1, P), NEW c \in 1 .. Q - 1, NEW d \in 1 .. Q - 1
    PROVE  ExpInverse(Exp(Exp(h, c), d), c) = Exp(h, d)
<1>1. P \in Nat /\ P # 0 /\ P \in Nat \ {0} /\ Q \in Nat /\ h \in Int /\ c \in Nat /\ d \in Nat
  BY Bcg12Assumption, GroupAssumption
<1> DEFINE i == CHOOSE j \in 1 .. Q - 1 : (c * j) % Q = 1
           x1 == Exp(h, c)
           x2 == Exp(x1, d)
           x3 == PowMod(x2, i, P)
           H == Power(h)
<1>2. i \in 1 .. Q - 1 /\ (c * i) % Q = 1
  <2>1. \E j \in 1 .. Q - 1 : (c * j) % Q = 1
    BY ExponentInvertible DEF Invertible
  <2> QED BY <2>1
<1>3. i \in Nat
  BY <1>1, <1>2
<1> HIDE DEF i
<1>4. x1 \in Int /\ H[c] \in Int /\ Same(x1, H[c], P)
  BY <1>1, ExpIs
<1>5. x2 \in Int /\ Power(x1)[d] \in Int /\ Same(x2, Power(x1)[d], P)
  <2> HIDE DEF x1
  <2> QED BY <1>1, <1>4, ExpIs
<1>6. x3 \in 0 .. P - 1 /\ Same(x3, Power(x2)[i], P)
  <2> HIDE DEF x2
  <2> QED BY <1>1, <1>3, <1>5, PowModIs
<1> DEFINE cd == c * d
           ci == c * i
<1>7. cd \in Nat /\ ci \in Nat /\ cd * i = ci * d
  BY <1>1, <1>3
<1> HIDE DEF x1, x2, x3, H
<1>8. H \in [Nat -> Int]
  BY <1>1, PowerUnfolds DEF H
<1>9. Same(x2, H[cd], P)
  <2>1. Same(Power(x1)[d], Power(H[c])[d], P)
    BY <1>1, <1>4, SamePower
  <2>2. Power(H[c])[d] = H[cd]
    BY <1>1, PowerOfPower DEF H
  <2>3. H[cd] \in Int
    BY <1>7, <1>8
  <2> QED BY <1>1, <1>5, <2>1, <2>2, <2>3, SameOrder
<1>10. Same(Power(x2)[i], Power(H[cd])[i], P)
  <2>1. H[cd] \in Int
    BY <1>7, <1>8
  <2> QED BY <1>1, <1>3, <1>5, <1>9, <2>1, SamePower
<1>11. Power(H[cd])[i] = H[cd * i]
  <2> HIDE DEF cd
  <2> QED BY <1>1, <1>3, <1>7, PowerOfPower DEF H
<1>12. H[ci * d] = Power(H[ci])[d]
  <2> HIDE DEF ci
  <2> QED BY <1>1, <1>3, <1>7, PowerOfPower DEF H
<1>13. Same(H[ci], h, P)
  BY <1>1, <1>2, <1>3, ExponentUndone DEF H
<1>14. Same(Power(H[ci])[d], H[d], P)
  <2>1. H[ci] \in Int
    BY <1>7, <1>8
  <2> QED BY <1>1, <1>13, <2>1, SamePower DEF H
<1> DEFINE y == Power(H[cd])[i]
           z == Exp(h, d)
<1>15. y \in Int /\ H[d] \in Int
  <2>1. cd * i \in Nat
    BY <1>3, <1>7
  <2> QED BY <1>1, <1>8, <1>11, <2>1
<1>16. Same(y, H[d], P)
  BY <1>7, <1>11, <1>12, <1>14
<1>17. z \in 0 .. P - 1 /\ z \in Int /\ Same(z, H[d], P)
  BY <1>1, ExpIs DEF H
<1>18. Power(x2)[i] \in Int /\ x3 \in Int
  BY <1>1, <1>3, <1>5, <1>6, PowerUnfolds
<1> HIDE DEF y, z
<1>19. Same(x3, y, P)
  BY <1>1, <1>6, <1>10, <1>15, <1>18, SameOrder DEF y
<1>20. Same(x3, H[d], P)
  BY <1>1, <1>15, <1>16, <1>18, <1>19, SameOrder
<1>21. Same(H[d], z, P)
  BY <1>1, <1>15, <1>17, SameOrder
<1>22. Same(x3, z, P)
  BY <1>1, <1>15, <1>17, <1>18, <1>20, <1>21, SameOrder
<1>23. x3 = z
  BY <1>1, <1>6, <1>17, <1>22, SameEqual
<1> QED BY <1>23 DEF x3, x2, x1, z, i, ExpInverse

\* Raising to an exponent keeps elements of the group apart.
LEMMA BlindedApart ==
    ASSUME NEW g \in 0 .. P - 1, Same(Power(g)[Q], 1, P), NEW h \in 0 .. P - 1, Same(Power(h)[Q], 1, P),
           NEW e \in 1 .. Q - 1, Exp(g, e) = Exp(h, e)
    PROVE  g = h
<1>1. P \in Nat /\ Q \in Nat /\ g \in Int /\ h \in Int /\ e \in Nat
  BY Bcg12Assumption
<1>2. PICK i \in 1 .. Q - 1 : (e * i) % Q = 1
  BY ExponentInvertible DEF Invertible
<1>3. i \in Nat /\ e * i \in Nat
  BY <1>1, <1>2
<1> DEFINE x == Exp(h, e)
           X == Power(x)[i]
<1>4. x \in Int /\ X \in Int
  <2>1. x \in Int
    BY <1>1, ExpIs
  <2> HIDE DEF x
  <2> QED BY <1>3, <2>1, PowerUnfolds
<1> HIDE DEF x
<1>5. ASSUME NEW f \in Int, Same(Power(f)[Q], 1, P), Exp(f, e) = x
      PROVE  Same(f, X, P)
  <2> DEFINE F == Power(f)
  <2>1. F \in [Nat -> Int]
    BY PowerUnfolds
  <2>2. F[e] \in Int /\ F[e * i] \in Int
    <3> DEFINE ei == e * i
    <3> HIDE DEF ei
    <3>1. ei \in Nat
      BY <1>3 DEF ei
    <3>2. F[ei] \in Int
      BY <2>1, <3>1
    <3> QED BY <1>1, <2>1, <3>2 DEF ei
  <2>3. Same(F[e * i], f, P)
    BY <1>1, <1>2, <1>3, <1>5, ExponentUndone
  <2>4. Power(F[e])[i] = F[e * i]
    BY <1>1, <1>3, PowerOfPower
  <2>5. Same(x, F[e], P)
    BY <1>1, <1>5, ExpIs
  <2> HIDE DEF F
  <2>6. Same(X, Power(F[e])[i], P)
    BY <1>1, <1>3, <1>4, <2>2, <2>5, SamePower
  <2>7. Same(f, F[e * i], P)
    BY <1>1, <2>2, <2>3, SameOrder
  <2>8. Same(F[e * i], X, P)
    BY <1>1, <1>4, <2>2, <2>4, <2>6, SameOrder
  <2> QED BY <1>1, <1>4, <2>2, <2>7, <2>8, SameOrder
<1>6. Same(g, X, P) /\ Same(h, X, P)
  BY <1>1, <1>5 DEF x
<1> HIDE DEF X
<1>7. Same(X, h, P)
  BY <1>1, <1>4, <1>6, SameOrder
<1>8. Same(g, h, P)
  BY <1>1, <1>4, <1>6, <1>7, SameOrder
<1> QED BY <1>1, <1>8, SameEqual

\* A tag of one side is a tag of the other exactly for the same item.
LEMMA TagsMatch ==
    ASSUME NEW kind \in {RawItems, TaggedItems}, NEW u \in kind, NEW v \in kind, backend \in {"FF", "EC"},
           NEW c \in 1 .. Q - 1, NEW d \in 1 .. Q - 1
    PROVE  ExpInverse(Exp(Exp(HashToGroup(u), c), d), c) = Exp(HashToGroup(v), d) <=> u = v
<1> DEFINE g == Hashed(backend, u)
           h == Hashed(backend, v)
<1>1. /\ g \in 0 .. P - 1 /\ Same(Power(g)[Q], 1, P)
      /\ h \in 0 .. P - 1 /\ Same(Power(h)[Q], 1, P)
  BY HashedIs
<1>2. g = h => u = v
  BY HashAssumption, Zenon
<1>3. HashToGroup(u) = g /\ HashToGroup(v) = h
  BY DEF HashToGroup
<1> HIDE DEF g, h
<1>4. ExpInverse(Exp(Exp(g, c), d), c) = Exp(g, d)
  BY <1>1, Unblinded
<1>5. Exp(g, d) = Exp(h, d) => g = h
  BY <1>1, BlindedApart
<1>6. u = v => g = h
  BY DEF g, h
<1> QED BY <1>2, <1>3, <1>4, <1>5, <1>6

\* Orderings of 1 .. size.
Orders(size) == Bijection(1 .. size, 1 .. size)

\* Exchanging two entries of an ordering gives an ordering.
LEMMA SwapOrders ==
    ASSUME NEW size \in Nat, NEW s \in Orders(size), NEW i \in 1 .. size, NEW j \in 1 .. size
    PROVE  Swap(s, i, j) \in Orders(size)
<1> DEFINE T == 1 .. size
           w == Swap(s, i, j)
<1>1. s \in [T -> T] /\ (\A a, b \in T : s[a] = s[b] => a = b) /\ (\A t \in T : \E a \in T : s[a] = t)
  BY DEF Orders, Bijection, Injection, Surjection, IsInjective
<1>2. i \in T /\ j \in T
  OBVIOUS
<1> HIDE DEF T
<1>3. w \in [T -> T] /\ \A a \in T : w[a] = IF a = j THEN s[i] ELSE IF a = i THEN s[j] ELSE s[a]
  BY <1>1, <1>2 DEF Swap
<1> HIDE DEF w
<1>4. \A a, b \in T : w[a] = w[b] => a = b
  BY <1>1, <1>2, <1>3
<1>5. \A t \in T : \E a \in T : w[a] = t
  <2>1. TAKE t \in T
  <2>2. PICK a \in T : s[a] = t
    BY <1>1
  <2>3. CASE a = i
    <3>1. w[j] = t
      BY <1>2, <1>3, <2>2, <2>3
    <3> QED BY <1>2, <3>1
  <2>4. CASE a = j /\ a # i
    <3>1. w[i] = t
      BY <1>2, <1>3, <2>2, <2>4
    <3> QED BY <1>2, <3>1
  <2>5. CASE a # i /\ a # j
    <3>1. w[a] = t
      BY <1>3, <2>2, <2>5
    <3> QED BY <3>1
  <2> QED BY <2>3, <2>4, <2>5
<1>6. w \in Bijection(T, T)
  BY <1>3, <1>4, <1>5 DEF Bijection, Injection, Surjection, IsInjective
<1> QED BY <1>6 DEF w, T, Orders

\* What FisherYatesCsprng leaves is an ordering.
LEMMA ShuffleOrders ==
    ASSUME NEW size \in Nat, NEW s \in Shuffles(size)
    PROVE  DOMAIN s = 1 .. size /\ \E p \in Orders(size) : \A i \in 1 .. size : s[i] = p[i]
<1>1. CASE size = 0
  <2>1. s = <<>> /\ DOMAIN <<>> = 1 .. 0
    BY <1>1 DEF Shuffles
  <2>2. 1 .. size = {}
    BY <1>1
  <2>3. [i \in 1 .. size |-> i] \in Orders(size)
    BY <2>2 DEF Orders, Bijection, Injection, Surjection, IsInjective
  <2> QED BY <1>1, <2>1, <2>2, <2>3
<1>2. CASE size # 0
  <2> DEFINE S == 1 .. size
             id == [l \in S |-> l]
             T == SUBSET Orders(size)
             mu == [i \in S |-> size - i]
             Swapped(old, i) == {Swap(q, i + 1, j + 1) : q \in old, j \in IndexDraws \cap 0 .. i}
             Value(f, i) == IF i = size THEN {id} ELSE Swapped(f[i + 1], i)
             H == [i \in S |-> [f \in [S -> T] |-> Value(f, i)]]
             Body(f) == [i \in S |-> Value(f, i)]
             from == CHOOSE f : f = Body(f)
  <2>1. id \in Orders(size)
    BY DEF Orders, Bijection, Injection, Surjection, IsInjective
  <2>2. ASSUME NEW i \in S, i # size, NEW old \in T PROVE Swapped(old, i) \in T
    <3>1. ASSUME NEW q \in old, NEW j \in IndexDraws \cap 0 .. i PROVE Swap(q, i + 1, j + 1) \in Orders(size)
      <4>1. q \in Orders(size) /\ i + 1 \in 1 .. size /\ j + 1 \in 1 .. size
        BY <2>2
      <4> QED BY <4>1, SwapOrders
    <3> QED BY <3>1
  <2> HIDE DEF Swapped, id, T
  <2>3. \A i \in S : i # size => i + 1 \in S /\ mu[i + 1] < mu[i]
    OBVIOUS
  <2>4. {id} \in T
    BY <2>1 DEF T
  <2>5. LooksBack(S, T, mu, H)
    <3>1. mu \in [S -> Nat]
      OBVIOUS
    <3>2. ASSUME NEW i \in S, NEW f \in [S -> T] PROVE H[i][f] \in T
      <4>1. H[i][f] = Value(f, i)
        OBVIOUS
      <4>2. CASE i = size
        BY <2>4, <4>1, <4>2
      <4>3. CASE i # size
        <5>1. f[i + 1] \in T
          BY <2>3, <4>3
        <5> QED BY <2>2, <4>1, <4>3, <5>1
      <4> QED BY <4>2, <4>3
    <3>3. ASSUME NEW i \in S, NEW f \in [S -> T], NEW g \in [S -> T], \A y \in S : mu[y] < mu[i] => f[y] = g[y]
          PROVE  H[i][f] = H[i][g]
      <4>1. H[i][f] = Value(f, i) /\ H[i][g] = Value(g, i)
        OBVIOUS
      <4>2. i # size => f[i + 1] = g[i + 1]
        BY <2>3, <3>3
      <4> QED BY <4>1, <4>2
    <3> HIDE DEF H, mu, S
    <3> QED BY <3>1, <3>2, <3>3 DEF LooksBack
  <2>6. PICK f \in [S -> T] : f = [x \in S |-> H[x][f]]
    <3> HIDE DEF H, mu, S
    <3> QED BY <2>4, <2>5, MeasuredFunctionExists
  <2>7. f = Body(f)
    <3>1. \A x \in S : H[x][f] = Value(f, x)
      OBVIOUS
    <3> HIDE DEF H, Value, S
    <3> QED BY <2>6, <3>1
  <2>8. from = Body(from)
    <3> HIDE DEF Body
    <3> QED BY <2>7
  <2>9. Shuffles(size) = from[1]
    BY <1>2 DEF Shuffles, id, Swapped
  <2> HIDE DEF from
  <2>10. \A i \in S : from[i] = Value(from, i)
    <3> HIDE DEF Value, S
    <3> QED BY <2>8
  <2> DEFINE B == {d \in Nat : d < size /\ from[size - d] \notin T}
  <2>11. B = {}
    <3>1. SUFFICES ASSUME B # {} PROVE FALSE
      OBVIOUS
    <3>2. B \subseteq Nat
      OBVIOUS
    <3> HIDE DEF B
    <3>3. PICK d \in B : \A e \in B : d <= e
      BY <3>1, <3>2, LeastNatural
    <3> USE DEF B
    <3>4. d \in Nat /\ d < size /\ size - d \in S /\ from[size - d] \notin T
      OBVIOUS
    <3>5. d # 0
      <4>1. SUFFICES ASSUME d = 0 PROVE FALSE
        OBVIOUS
      <4>2. size \in S /\ size - d = size
        BY <3>4, <4>1
      <4>3. from[size] = {id}
        BY <2>10, <4>2
      <4> QED BY <2>4, <3>4, <4>2, <4>3
    <3>6. d - 1 \in Nat /\ d - 1 < size /\ size - (d - 1) = (size - d) + 1 /\ ~(d <= d - 1) /\ size - d # size
      BY <3>4, <3>5
    <3>7. from[(size - d) + 1] \in T
      BY <3>3, <3>6
    <3>8. from[size - d] = Swapped(from[(size - d) + 1], size - d)
      BY <2>10, <3>4, <3>6
    <3> QED BY <2>2, <3>4, <3>6, <3>7, <3>8
  <2>12. from[1] \in T
    <3>1. size - 1 \in Nat /\ size - 1 < size /\ size - (size - 1) = 1
      BY <1>2
    <3> HIDE DEF T
    <3>2. size - 1 \notin B
      BY <2>11
    <3> QED BY <3>1, <3>2
  <2>13. s \in Orders(size)
    BY <2>9, <2>12 DEF T
  <2>14. DOMAIN s = 1 .. size
    BY <2>13 DEF Orders, Bijection, Injection
  <2> QED BY <2>13, <2>14
<1> QED BY <1>1, <1>2

\* std::set's order: a finite set of numbers can be enumerated increasingly.
LEMMA EnumerationExists ==
    ASSUME NEW S \in SUBSET Nat, IsFiniteSet(S)
    PROVE  \E s \in [1 .. Cardinality(S) -> S] : \A i, j \in DOMAIN s : i < j => s[i] < s[j]
<1> DEFINE Enumerated(T) == \E s \in [1 .. Cardinality(T) -> T] : \A i, j \in DOMAIN s : i < j => s[i] < s[j]
           Good == {c \in Nat : \A T \in SUBSET S : Cardinality(T) = c => Enumerated(T)}
<1>1. \A T \in SUBSET S : IsFiniteSet(T) /\ Cardinality(T) \in Nat
  BY FS_Subset, FS_CardinalityType
<1>2. 0 \in Good
  <2>1. ASSUME NEW T \in SUBSET S, Cardinality(T) = 0 PROVE Enumerated(T)
    <3> DEFINE none == [i \in 1 .. Cardinality(T) |-> 0]
    <3>1. 1 .. Cardinality(T) = {} /\ DOMAIN none = 1 .. Cardinality(T)
      BY <2>1
    <3>2. none \in [1 .. Cardinality(T) -> T]
      BY <3>1
    <3> HIDE DEF none
    <3> QED BY <3>1, <3>2
  <2> QED BY <2>1
<1>3. ASSUME NEW c \in Nat, c \in Good PROVE c + 1 \in Good
  <2>1. ASSUME NEW T \in SUBSET S, Cardinality(T) = c + 1 PROVE Enumerated(T)
    <3>1. T # {} /\ T \subseteq Nat
      BY <1>3, <2>1, FS_EmptySet
    <3>2. PICK least \in T : \A e \in T : least <= e
      BY <3>1, LeastNatural
    <3> DEFINE U == T \ {least}
    <3>3. U \in SUBSET S /\ Cardinality(U) = c
      <4>1. IsFiniteSet(T)
        BY <1>1
      <4>2. Cardinality(U) = Cardinality(T) - 1
        BY <3>2, <4>1, FS_RemoveElement
      <4> QED BY <1>3, <2>1, <4>2
    <3>4. PICK s \in [1 .. c -> U] : \A i, j \in DOMAIN s : i < j => s[i] < s[j]
      BY <1>3, <3>3
    <3> DEFINE w == [i \in 1 .. c + 1 |-> IF i = 1 THEN least ELSE s[i - 1]]
    <3>5. w \in [1 .. c + 1 -> T]
      BY <3>2, <3>4
    <3>6. ASSUME NEW i \in 1 .. c + 1, NEW j \in 1 .. c + 1, i < j PROVE w[i] < w[j]
      <4>1. j - 1 \in 1 .. c /\ w[j] = s[j - 1] /\ s[j - 1] \in U
        BY <3>4, <3>6
      <4>2. CASE i = 1
        <5>1. w[i] = least /\ least <= s[j - 1] /\ s[j - 1] # least /\ s[j - 1] \in Nat /\ least \in Nat
          BY <3>1, <3>2, <4>1, <4>2
        <5> QED BY <4>1, <5>1
      <4>3. CASE i # 1
        <5>1. i - 1 \in 1 .. c /\ w[i] = s[i - 1] /\ i - 1 < j - 1
          BY <3>6, <4>3
        <5> QED BY <3>4, <4>1, <5>1
      <4> QED BY <4>2, <4>3
    <3>7. DOMAIN w = 1 .. c + 1
      OBVIOUS
    <3> HIDE DEF w
    <3> QED BY <2>1, <3>5, <3>6, <3>7
  <2> QED BY <2>1
<1>4. Nat \subseteq Good
  <2> HIDE DEF Good
  <2> QED BY <1>2, <1>3, InductiveSet
<1>5. Cardinality(S) \in Good
  <2> HIDE DEF Good
  <2> QED BY <1>1, <1>4
<1> QED BY <1>5

\* The order lists every member once.
LEMMA SortedIs ==
    ASSUME NEW S \in SUBSET Nat, IsFiniteSet(S)
    PROVE  /\ Cardinality(S) \in Nat
           /\ Sorted(S) \in Bijection(1 .. Cardinality(S), S)
<1> DEFINE size == Cardinality(S)
           s == Sorted(S)
<1>1. size \in Nat
  BY FS_CardinalityType
<1>2. s \in [1 .. size -> S] /\ \A i, j \in DOMAIN s : i < j => s[i] < s[j]
  BY EnumerationExists DEF Sorted
<1> HIDE DEF s
<1>3. \A i, j \in 1 .. size : s[i] = s[j] => i = j
  <2>1. ASSUME NEW i \in 1 .. size, NEW j \in 1 .. size, s[i] = s[j], i # j PROVE FALSE
    <3>1. DOMAIN s = 1 .. size /\ s[i] \in Nat /\ s[j] \in Nat
      BY <1>2
    <3>2. i < j \/ j < i
      BY <1>1, <2>1
    <3> QED BY <1>2, <2>1, <3>1, <3>2
  <2> QED BY <2>1
<1>4. s \in Injection(1 .. size, S)
  BY <1>2, <1>3 DEF Injection, IsInjective
<1>5. Cardinality(1 .. size) = size
  BY <1>1, FS_Interval
<1>6. s \in Surjection(1 .. size, S)
  <2> HIDE DEF size
  <2>1. Cardinality(1 .. size) = Cardinality(S)
    BY <1>5 DEF size
  <2> QED BY <1>4, <2>1, FS_Injection
<1> QED BY <1>1, <1>4, <1>6 DEF Bijection, s

\* Members of a vector are unsigned and finitely many.
LEMMA MembersAre ==
    ASSUME NEW s \in Sets
    PROVE  /\ Members(s) \in SUBSET Nat /\ IsFiniteSet(Members(s)) /\ Members(s) \subseteq Elements
           /\ Cardinality(Members(s)) \in Nat
           /\ s # <<>> => Members(s) # {}
<1>1. s \in Seq(Nat) /\ Len(s) \in Nat /\ DOMAIN s = 1 .. Len(s)
  BY InputAssumption
<1>2. Members(s) \in SUBSET Nat
  BY <1>1 DEF Members
<1>3. IsFiniteSet(Members(s))
  <2>1. IsFiniteSet(1 .. Len(s))
    BY <1>1, FS_Interval
  <2>2. [i \in 1 .. Len(s) |-> s[i]] \in Surjection(1 .. Len(s), Members(s))
    BY <1>1 DEF Members, Surjection
  <2> QED BY <2>1, <2>2, FS_Surjection
<1>4. s # <<>> => Members(s) # {}
  BY <1>1 DEF Members
<1>5. Members(s) \subseteq Elements
  BY DEF Elements
<1> QED BY <1>2, <1>3, <1>4, <1>5, FS_CardinalityType

\* A coordinate of a signature is the rank of a member.
LEMMA SignatureIs ==
    ASSUME NEW h \in Seeds, NEW s \in Sets, s # <<>>, NEW i \in 0 .. K - 1
    PROVE  \E v \in Members(s) : Signature(h, s, i) = Rank(h, i, v)
<1> DEFINE ranks == {Rank(h, i, v) : v \in Members(s)}
<1>1. ranks # {} /\ ranks \subseteq Nat
  BY MembersAre, InputAssumption
<1> HIDE DEF ranks
<1>2. \E w \in ranks : \A x \in ranks : w <= x
  BY <1>1, LeastNatural
<1>3. Signature(h, s, i) \in ranks
  <2>1. Signature(h, s, i) = CHOOSE w \in ranks : \A x \in ranks : w <= x
    BY DEF Signature, ranks
  <2> QED BY <1>2, <2>1
<1> QED BY <1>3 DEF ranks

\* The kind of the items of a mode.
KindOf(md) == IF md = "exact" THEN RawItems ELSE TaggedItems

\* How many items there are.
Size(s) == IF mode = "exact" THEN Cardinality(Members(s)) ELSE K

\* Items are numbered without a gap and are all of the mode's kind.
LEMMA ItemsAre ==
    ASSUME NEW s \in Sets, mode \in {"exact", "minhash"}, mode = "minhash" => hasher \in Seeds /\ s # <<>>
    PROVE  /\ Size(s) \in Nat /\ Len(Items(s)) = Size(s) /\ DOMAIN Items(s) = 1 .. Size(s)
           /\ \A i \in 1 .. Size(s) : Items(s)[i] \in KindOf(mode)
<1>1. CASE mode = "exact"
  <2> DEFINE S == Members(s)
             size == Cardinality(S)
  <2>1. size \in Nat /\ Sorted(S) \in [1 .. size -> S]
    BY MembersAre, SortedIs DEF Bijection, Injection
  <2>2. Items(s) = [i \in 1 .. size |-> <<1, Sorted(S)[i]>>] /\ Size(s) = size /\ KindOf(mode) = RawItems
    BY <1>1 DEF Items, Size, KindOf
  <2>3. \A i \in 1 .. size : <<1, Sorted(S)[i]>> \in RawItems
    BY <2>1, MembersAre DEF RawItems
  <2> HIDE DEF size, S
  <2>4. Len([i \in 1 .. size |-> <<1, Sorted(S)[i]>>]) = size
    BY <2>1
  <2> QED BY <2>1, <2>2, <2>3, <2>4
<1>2. CASE mode = "minhash"
  <2>1. K \in Nat
    BY Bcg12Assumption
  <2> DEFINE Item(i) == <<2, Signature(hasher, s, i - 1), i - 1>>
  <2>2. Items(s) = [i \in 1 .. K |-> Item(i)] /\ Size(s) = K /\ KindOf(mode) = TaggedItems
    BY <1>2 DEF Items, Size, KindOf
  <2>3. ASSUME NEW i \in 1 .. K PROVE Item(i) \in TaggedItems
    <3>1. i - 1 \in 0 .. K - 1
      BY <2>1
    <3>2. PICK v \in Members(s) : Signature(hasher, s, i - 1) = Rank(hasher, i - 1, v)
      BY <1>2, <3>1, SignatureIs
    <3>3. v \in Elements
      BY MembersAre
    <3> QED BY <1>2, <3>1, <3>2, <3>3 DEF TaggedItems
  <2> HIDE DEF Item
  <2>4. Len([i \in 1 .. K |-> Item(i)]) = K
    BY <2>1
  <2> QED BY <2>1, <2>2, <2>3, <2>4
<1> QED BY <1>1, <1>2

\* The positions of one side's items that the other side has.
Common(a, b) == {i \in DOMAIN a : a[i] \in Members(b)}

\* An ordering of the positions does not change how many there are.
LEMMA ReorderedCount ==
    ASSUME NEW size \in Nat, NEW p \in Orders(size), NEW D \in SUBSET (1 .. size)
    PROVE  /\ Cardinality({i \in 1 .. size : p[i] \in D}) = Cardinality(D)
           /\ Cardinality(D) \in Nat
<1> DEFINE C == {i \in 1 .. size : p[i] \in D}
           f == [i \in C |-> p[i]]
<1>1. p \in [1 .. size -> 1 .. size] /\ (\A i, j \in 1 .. size : p[i] = p[j] => i = j)
      /\ (\A t \in 1 .. size : \E i \in 1 .. size : p[i] = t)
  BY DEF Orders, Bijection, Injection, Surjection, IsInjective
<1>2. f \in Bijection(C, D)
  BY <1>1 DEF Bijection, Injection, Surjection, IsInjective
<1>3. IsFiniteSet(C) /\ IsFiniteSet(D)
  <2>1. IsFiniteSet(1 .. size)
    BY FS_Interval
  <2> HIDE DEF C
  <2>2. C \in SUBSET (1 .. size)
    BY DEF C
  <2> QED BY <2>1, <2>2, FS_Subset
<1> HIDE DEF C, f
<1>4. Cardinality(D) = Cardinality(C)
  BY <1>2, <1>3, FS_Bijection DEF ExistsBijection
<1>5. Cardinality(D) \in Nat
  BY <1>3, FS_CardinalityType
<1> QED BY <1>4, <1>5 DEF C

\* Items in common are elements in common, or coordinates that agree, and the
\* estimate made of their number is what is owed.
LEMMA CommonIsOwed ==
    ASSUME NEW x \in Sets, NEW y \in Sets, mode \in {"exact", "minhash"},
           mode = "minhash" => hasher \in Seeds /\ x # <<>> /\ y # <<>>,
           NEW asked, mode = "minhash" => hasher = asked
    PROVE  Estimate(Cardinality(Common(Items(x), Items(y))), x, y) = Owed(<<x, y, mode, asked>>)
<1> DEFINE a == Items(x)
           b == Items(y)
           C == Common(a, b)
<1>1. CASE mode = "exact"
  <2> DEFINE X == Members(x)
             Y == Members(y)
             u == Sorted(X)
             v == Sorted(Y)
             cx == Cardinality(X)
             cy == Cardinality(Y)
  <2>1. /\ X \in SUBSET Nat /\ IsFiniteSet(X) /\ cx \in Nat
        /\ Y \in SUBSET Nat /\ IsFiniteSet(Y) /\ cy \in Nat
    BY MembersAre
  <2>2. u \in Bijection(1 .. cx, X) /\ v \in Bijection(1 .. cy, Y)
    <3> HIDE DEF X, Y
    <3> QED BY <2>1, SortedIs
  <2>3. a = [i \in 1 .. cx |-> <<1, u[i]>>] /\ b = [i \in 1 .. cy |-> <<1, v[i]>>]
    BY <1>1 DEF Items
  <2> HIDE DEF X, Y, u, v, cx, cy, a, b
  <2>4. C = {i \in 1 .. cx : u[i] \in Y}
    <3>1. \A i \in 1 .. cy : v[i] \in Y
      BY <2>2 DEF Bijection, Injection
    <3>2. \A e \in Y : \E i \in 1 .. cy : v[i] = e
      BY <2>2 DEF Bijection, Surjection
    <3>3. Members(b) = {<<1, e>> : e \in Y}
      BY <2>3, <3>1, <3>2 DEF Members
    <3>4. DOMAIN a = 1 .. cx /\ \A i \in 1 .. cx : a[i] = <<1, u[i]>>
      BY <2>3
    <3> QED BY <3>3, <3>4 DEF Common
  <2> HIDE DEF C
  <2>5. Cardinality(C) = Cardinality(X \cap Y)
    <3> DEFINE f == [i \in C |-> u[i]]
    <3>1. f \in Bijection(C, X \cap Y)
      BY <2>2, <2>4 DEF Bijection, Injection, Surjection, IsInjective
    <3>2. IsFiniteSet(C)
      <4>1. IsFiniteSet(1 .. cx) /\ C \in SUBSET (1 .. cx)
        BY <2>1, <2>4, FS_Interval
      <4> QED BY <4>1, FS_Subset
    <3> HIDE DEF f
    <3> QED BY <3>1, <3>2, FS_Bijection DEF ExistsBijection
  <2>6. Cardinality(X \cup Y) = cx + cy - Cardinality(X \cap Y) /\ IsFiniteSet(X \cup Y)
    BY <2>1, FS_Union DEF cx, cy
  <2>7. Cardinality(X \cup Y) = 0 <=> X \cup Y = {}
    BY <2>6, FS_EmptySet
  <2>8. Estimate(Cardinality(C), x, y) =
          IF Cardinality(X \cup Y) = 0 THEN <<1, 1>> ELSE <<Cardinality(C), Cardinality(X \cup Y)>>
    BY <1>1, <2>5, <2>6 DEF Estimate, X, Y, cx, cy
  <2>9. Owed(<<x, y, mode, asked>>) =
          IF X \cup Y = {} THEN <<1, 1>> ELSE <<Cardinality(X \cap Y), Cardinality(X \cup Y)>>
    BY <1>1 DEF Owed, X, Y
  <2> QED BY <2>5, <2>7, <2>8, <2>9 DEF C, a, b
<1>2. CASE mode = "minhash"
  <2> DEFINE u(i) == Signature(hasher, x, i)
             v(i) == Signature(hasher, y, i)
             D == {i \in 0 .. K - 1 : u(i) = v(i)}
  <2>1. K \in Nat
    BY Bcg12Assumption
  <2>2. a = [i \in 1 .. K |-> <<2, u(i - 1), i - 1>>] /\ b = [i \in 1 .. K |-> <<2, v(i - 1), i - 1>>]
    BY <1>2 DEF Items
  <2> HIDE DEF u, v, a, b
  <2>3. C = {i \in 1 .. K : u(i - 1) = v(i - 1)}
    <3>1. DOMAIN a = 1 .. K /\ \A i \in 1 .. K : a[i] = <<2, u(i - 1), i - 1>>
      BY <2>2
    <3>2. Members(b) = {<<2, v(j - 1), j - 1>> : j \in 1 .. K}
      BY <2>2 DEF Members
    <3>3. ASSUME NEW i \in 1 .. K PROVE <<2, u(i - 1), i - 1>> \in Members(b) <=> u(i - 1) = v(i - 1)
      <4>1. ASSUME NEW j \in 1 .. K, <<2, u(i - 1), i - 1>> = <<2, v(j - 1), j - 1>> PROVE u(i - 1) = v(i - 1)
        <5>1. i - 1 = j - 1 /\ u(i - 1) = v(j - 1)
          BY <4>1
        <5>2. i = j
          BY <2>1, <5>1
        <5> QED BY <5>1, <5>2
      <4> QED BY <3>2, <4>1
    <3> QED BY <3>1, <3>3 DEF Common
  <2> HIDE DEF C
  <2>4. Cardinality(C) = Cardinality(D)
    <3> DEFINE f == [i \in C |-> i - 1]
    <3>1. f \in [C -> D]
      BY <2>1, <2>3
    <3>2. \A i, j \in C : f[i] = f[j] => i = j
      BY <2>1, <2>3
    <3>3. ASSUME NEW t \in D PROVE \E i \in C : f[i] = t
      <4>1. t + 1 \in 1 .. K /\ (t + 1) - 1 = t
        BY <2>1
      <4>2. t + 1 \in C
        BY <2>3, <4>1
      <4> QED BY <4>1, <4>2
    <3> HIDE DEF f, D
    <3>4. f \in Bijection(C, D)
      BY <3>1, <3>2, <3>3 DEF Bijection, Injection, Surjection, IsInjective
    <3>5. IsFiniteSet(C)
      <4>1. IsFiniteSet(1 .. K) /\ C \in SUBSET (1 .. K)
        BY <2>1, <2>3, FS_Interval
      <4> QED BY <4>1, FS_Subset
    <3> QED BY <3>4, <3>5, FS_Bijection DEF ExistsBijection
  <2>5. Estimate(Cardinality(C), x, y) = <<Cardinality(C), K>>
    BY <1>2 DEF Estimate
  <2>6. Owed(<<x, y, mode, asked>>) = <<Cardinality(D), K>>
    BY <1>2 DEF Owed, u, v
  <2> QED BY <2>4, <2>5, <2>6 DEF C, a, b
<1> QED BY <1>1, <1>2

-------------------------------------------------------------------------------
(* A query in progress *)

Phases == EarlyPhases \cup LatePhases

\* The vectors that exist when a phase begins.
Names(ph) ==
    CASE ph = "hashA" -> {}
      [] ph = "hashB" -> {"hashA"}
      [] ph \in {"drawA", "round1"} -> {"hashA", "hashB"}
      [] ph \in {"drawB", "blindA"} -> {"hashA", "hashB", "round1"}
      [] ph = "shuffle" -> {"hashA", "hashB", "round1", "blindA"}
      [] ph = "blindB" -> {"hashA", "hashB", "round1", "blindA", "shuffled"}
      [] ph = "unblind" -> {"hashA", "hashB", "round1", "blindA", "shuffled", "blindB"}

\* What entry i of a vector is made of.
Value(group, q, name, i) ==
    CASE name = "hashA"  -> Hashed(group, q.a[i])
      [] name = "hashB"  -> Hashed(group, q.b[i])
      [] name = "round1" -> Exp(Hashed(group, q.a[i]), q.ra)
      [] name = "blindA" -> Exp(Exp(Hashed(group, q.a[i]), q.ra), q.rb)
      [] name = "blindB" -> Exp(Hashed(group, q.b[q.pi[i]]), q.rb)

SideOf(q, name) == IF name \in {"hashB", "blindB"} THEN q.b ELSE q.a

\* A vector holds what its name says; the shuffled one, the blinded items in some order.
Right(group, q, name, vec) ==
    /\ DOMAIN vec = DOMAIN SideOf(q, name)
    /\ IF name = "shuffled"
       THEN \E p \in Orders(Len(q.a)) : \A i \in DOMAIN vec : vec[i] = Value(group, q, "blindA", p[i])
       ELSE \A i \in DOMAIN vec : vec[i] = Value(group, q, name, i)

\* The items of a side, and the query they are of.
Listed(md, h, s) == IF md = "exact" THEN [i \in 1 .. Cardinality(Members(s)) |-> <<1, Sorted(Members(s))[i]>>]
                    ELSE [i \in 1 .. K |-> <<2, Signature(h, s, i - 1), i - 1>>]
Admissible(md, h, q) ==
    /\ q.x \in Sets /\ q.y \in Sets /\ q.asked \in Seeds /\ q.answer = <<>>
    /\ md = "minhash" => h = q.asked /\ q.x # <<>> /\ q.y # <<>>
    /\ q.a = Listed(md, h, q.x) /\ q.b = Listed(md, h, q.y)

Ordering(s, size) == \E p \in Orders(size) : \A i \in 1 .. size : s[i] = p[i]

\* What has been drawn, and what has been stored, when a phase begins.
Drawn(q, ph) ==
    /\ ph \notin {"hashA", "hashB", "drawA"} => q.ra \in 1 .. Q - 1
    /\ ph \in LatePhases => q.rb \in 1 .. Q - 1 /\ Ordering(q.pi, Len(q.b))

Kept(group, q, ph) == DOMAIN q.done = Names(ph) /\ \A name \in Names(ph) : Right(group, q, name, q.done[name])

\* An iteration of the loop has left its value or is still somebody's.
Looped == query.phase \in Regions =>
    /\ DOMAIN query.out = 1 .. Iterations(query, query.phase)
    /\ \A i \in 1 .. Iterations(query, query.phase) :
          \/ query.out[i] = Computed(query.phase, i)
          \/ \E t \in Tids : worker[t].next <= i /\ i <= worker[t].last

-------------------------------------------------------------------------------
\* The parts of the threads of a team make up the loop.
LEMMA PartsCover ==
    ASSUME threads \in Nat \ {0}, NEW size \in Nat, NEW i \in 1 .. size
    PROVE  \E t \in 0 .. threads - 1 : Start(size, t) + 1 <= i /\ i <= Start(size, t + 1)
<1> DEFINE d == size \div threads
           r == size % threads
           at(t) == t * d + Smaller(t, r)
<1>1. d \in Nat /\ r \in 0 .. threads - 1 /\ size = threads * d + r
  BY SMT
<1>2. \A t : Start(size, t) = at(t)
  BY DEF Start
<1> HIDE DEF d, r
<1>3. \A t \in Nat : at(t) \in Int
  BY <1>1 DEF Smaller
<1>4. at(0) = 0 /\ at(threads) = size
  BY <1>1 DEF Smaller
<1> HIDE DEF at
<1> DEFINE S == {t \in Nat : i <= at(t + 1)}
<1>5. threads - 1 \in S
  BY <1>4
<1>6. PICK t \in S : \A s \in S : t <= s
  <2>1. S \subseteq Nat /\ S # {}
    BY <1>5
  <2> HIDE DEF S
  <2> QED BY <2>1, LeastNatural
<1>7. t \in 0 .. threads - 1 /\ i <= at(t + 1)
  BY <1>5, <1>6
<1>8. at(t) < i
  <2>1. CASE t = 0
    BY <1>4, <2>1
  <2>2. CASE t # 0
    <3>1. t - 1 \in Nat /\ (t - 1) + 1 = t /\ t - 1 \notin S
      BY <1>6, <2>2
    <3> QED BY <1>3, <1>7, <3>1
  <2> QED BY <2>1, <2>2
<1>9. at(t) \in Int
  BY <1>3, <1>7
<1>10. at(t) + 1 <= i
  BY <1>8, <1>9
<1> QED BY <1>2, <1>7, <1>10

\* What a phase begins with.
LEMMA EnterIs ==
    ASSUME NEW q, DOMAIN q = DOMAIN Idle, NEW ph, Enter(q, ph), threads \in 1 .. MaxThreads,
           Len(q.a) \in Nat, Len(q.b) \in Nat
    PROVE  /\ DOMAIN query' = DOMAIN Idle /\ query'.phase = ph
           /\ \A f \in DOMAIN Idle \ {"phase", "out"} : query'[f] = q[f]
           /\ \A t \in Tids : worker'[t].next \in Int /\ worker'[t].last \in Int
           /\ ph \in Regions => DOMAIN query'.out = 1 .. Iterations(q, ph)
           /\ ph \in Regions => \A i \in 1 .. Iterations(q, ph) :
                                   \E t \in Tids : worker'[t].next <= i /\ i <= worker'[t].last
<1>1. query' = [q EXCEPT !.phase = ph,
                     !.out = IF ph \in Regions THEN [i \in 1 .. Iterations(q, ph) |-> 0] ELSE q.out]
  BY DEF Enter
<1>2. DOMAIN query' = DOMAIN Idle /\ query'.phase = ph /\ \A f \in DOMAIN Idle \ {"phase", "out"} : query'[f] = q[f]
  BY <1>1 DEF Idle
<1>3. ph \in Regions => DOMAIN query'.out = 1 .. Iterations(q, ph)
  BY <1>1 DEF Idle
<1> DEFINE size == Iterations(q, ph)
           Part(t) == IF ph \in Regions /\ t < threads
                      THEN [Resting EXCEPT !.next = Start(size, t) + 1, !.last = Start(size, t + 1)]
                      ELSE Resting
<1>4. worker' = [t \in Tids |-> Part(t)]
  BY DEF Enter, Fork
<1>5. size \in Nat
  BY DEF Iterations
<1> HIDE DEF size
<1>6. threads \in Nat \ {0}
  BY Bcg12Assumption
<1>7. ASSUME NEW t \in Tids
      PROVE  /\ Part(t).next \in Int /\ Part(t).last \in Int
             /\ ph \in Regions /\ t < threads => Part(t).next = Start(size, t) + 1 /\ Part(t).last = Start(size, t + 1)
  <2>1. t \in Nat /\ t + 1 \in Nat
    BY Bcg12Assumption DEF Tids
  <2>2. \A s \in Nat : Start(size, s) \in Int
    <3> DEFINE d == size \div threads
               r == size % threads
    <3>1. d \in Nat /\ r \in Nat
      BY <1>5, <1>6
    <3>2. \A s : Start(size, s) = s * d + Smaller(s, r)
      BY DEF Start
    <3> HIDE DEF d, r
    <3> QED BY <3>1, <3>2 DEF Smaller
  <2>3. Start(size, t) \in Int /\ Start(size, t + 1) \in Int
    BY <2>1, <2>2
  <2> QED BY <2>3 DEF Resting
<1> HIDE DEF Part
<1>8. ASSUME ph \in Regions, NEW i \in 1 .. size PROVE \E t \in Tids : worker'[t].next <= i /\ i <= worker'[t].last
  <2>1. PICK t \in 0 .. threads - 1 : Start(size, t) + 1 <= i /\ i <= Start(size, t + 1)
    BY <1>5, <1>6, PartsCover
  <2>2. t \in Tids /\ t < threads
    BY <1>6, Bcg12Assumption DEF Tids
  <2> QED BY <1>4, <1>7, <1>8, <2>1, <2>2
<1> QED BY <1>2, <1>3, <1>4, <1>7, <1>8 DEF size

\* A vector stays right while what it is made of stays.
LEMMA RightStays ==
    ASSUME NEW group, NEW q, NEW r, NEW name, NEW vec, Right(group, q, name, vec),
           q.a = r.a, q.b = r.b,
           name \in {"hashA", "hashB"} \/ (name = "round1" /\ q.ra = r.ra)
             \/ (name \in {"blindA", "shuffled", "blindB"} /\ q.ra = r.ra /\ q.rb = r.rb /\ q.pi = r.pi)
    PROVE  Right(group, r, name, vec)
<1>1. SideOf(r, name) = SideOf(q, name)
  BY DEF SideOf
<1>2. name # "shuffled" => \A i : Value(group, r, name, i) = Value(group, q, name, i)
  BY DEF Value
<1>3. name = "shuffled" => \A i : Value(group, r, "blindA", i) = Value(group, q, "blindA", i)
  BY DEF Value
<1> QED BY <1>1, <1>2, <1>3 DEF Right

\* A query in progress: its vectors, its exponents and its loop.
Running ==
    /\ query.phase \in Phases /\ Admissible(mode, hasher, query)
    /\ Drawn(query, query.phase) /\ Kept(backend, query, query.phase) /\ Looped

\* The comparator: an existing hasher has the seed in force.
Steady ==
    /\ mode \in {"exact", "minhash"} /\ backend \in {"FF", "EC"}
    /\ threads \in 1 .. MaxThreads /\ seed \in Seeds
    /\ mode = "minhash" => hasher \in {None, seed}

\* The inductive invariant.
Fit ==
    /\ IInv /\ Steady
    /\ DOMAIN query = DOMAIN Idle
    /\ \A t \in Tids : worker[t].next \in Int /\ worker[t].last \in Int
    /\ query.stands \in {"idle", "asked", "answered", "refused", "aborted"}
    /\ query.stands = "idle" => query = Idle
    /\ query.stands = "asked" => Running

-------------------------------------------------------------------------------
\* Items, with the comparator's settings spelt out.
LEMMA ListedIs == \A s : Items(s) = Listed(mode, hasher, s)
BY DEF Items, Listed

\* The items of the two sides.
LEMMA SidesAre ==
    ASSUME Steady, NEW q, Admissible(mode, hasher, q)
    PROVE  /\ Len(q.a) \in Nat /\ DOMAIN q.a = 1 .. Len(q.a)
           /\ Len(q.b) \in Nat /\ DOMAIN q.b = 1 .. Len(q.b)
           /\ \A i \in 1 .. Len(q.a) : q.a[i] \in KindOf(mode)
           /\ \A i \in 1 .. Len(q.b) : q.b[i] \in KindOf(mode)
<1>1. /\ q.x \in Sets /\ q.y \in Sets /\ mode \in {"exact", "minhash"}
      /\ mode = "minhash" => hasher \in Seeds /\ q.x # <<>> /\ q.y # <<>>
      /\ q.a = Items(q.x) /\ q.b = Items(q.y)
  BY ListedIs DEF Admissible, Steady
<1>2. /\ Size(q.x) \in Nat /\ Len(q.a) = Size(q.x) /\ DOMAIN q.a = 1 .. Size(q.x)
      /\ \A i \in 1 .. Size(q.x) : q.a[i] \in KindOf(mode)
  BY <1>1, ItemsAre
<1>3. /\ Size(q.y) \in Nat /\ Len(q.b) = Size(q.y) /\ DOMAIN q.b = 1 .. Size(q.y)
      /\ \A i \in 1 .. Size(q.y) : q.b[i] \in KindOf(mode)
  BY <1>1, ItemsAre
<1> QED BY <1>2, <1>3

\* A phase begins with everything that was drawn and stored before.
LEMMA EnterRuns ==
    ASSUME Steady, UNCHANGED <<mode, backend, hasher>>,
           NEW q, DOMAIN q = DOMAIN Idle, NEW ph \in Phases, Enter(q, ph),
           Admissible(mode, hasher, q), Drawn(q, ph), Kept(backend, q, ph)
    PROVE  /\ DOMAIN query' = DOMAIN Idle /\ query'.stands = q.stands
           /\ \A t \in Tids : worker'[t].next \in Int /\ worker'[t].last \in Int
           /\ query'.x = q.x /\ query'.y = q.y /\ query'.asked = q.asked /\ query'.answer = q.answer
           /\ Running'
<1>1. /\ DOMAIN query' = DOMAIN Idle /\ query'.phase = ph
      /\ \A f \in DOMAIN Idle \ {"phase", "out"} : query'[f] = q[f]
      /\ \A t \in Tids : worker'[t].next \in Int /\ worker'[t].last \in Int
      /\ ph \in Regions => DOMAIN query'.out = 1 .. Iterations(q, ph)
      /\ ph \in Regions => \A i \in 1 .. Iterations(q, ph) :
                              \E t \in Tids : worker'[t].next <= i /\ i <= worker'[t].last
  <2>1. threads \in 1 .. MaxThreads /\ Len(q.a) \in Nat /\ Len(q.b) \in Nat
    BY SidesAre DEF Steady
  <2> QED BY <2>1, EnterIs
<1>2. /\ query'.stands = q.stands /\ query'.x = q.x /\ query'.y = q.y /\ query'.asked = q.asked
      /\ query'.answer = q.answer /\ query'.a = q.a /\ query'.b = q.b /\ query'.done = q.done
      /\ query'.ra = q.ra /\ query'.rb = q.rb /\ query'.pi = q.pi
  BY <1>1 DEF Idle
<1>3. Admissible(mode, hasher, query)'
  BY <1>2 DEF Admissible
<1>4. Drawn(query, query.phase)'
  BY <1>1, <1>2 DEF Drawn
<1>5. Kept(backend, query, query.phase)'
  <2>1. ASSUME NEW name \in Names(ph) PROVE Right(backend, query', name, query'.done[name])
    <3>1. name \in {"hashA", "hashB", "round1", "blindA", "shuffled", "blindB"}
      BY DEF Names, Phases, EarlyPhases, LatePhases
    <3>2. Right(backend, q, name, q.done[name])
      BY DEF Kept
    <3> QED BY <1>2, <3>1, <3>2, RightStays
  <2> QED BY <1>1, <1>2, <2>1 DEF Kept
<1>6. Looped'
  <2>1. Iterations(query', ph) = Iterations(q, ph)
    BY <1>2 DEF Iterations
  <2> QED BY <1>1, <2>1 DEF Looped
<1> QED BY <1>1, <1>2, <1>3, <1>4, <1>5, <1>6 DEF Running

\* A loop that is over has stored what its phase says.
LEMMA LoopIsRight ==
    ASSUME Steady, Running, query.phase \in Regions \ {"unblind"}, \A t \in Tids : ~Busy(t),
           \A t \in Tids : worker[t].next \in Int /\ worker[t].last \in Int
    PROVE  Right(backend, query, query.phase, query.out)
<1> DEFINE size == Iterations(query, query.phase)
<1>1. /\ Len(query.a) \in Nat /\ DOMAIN query.a = 1 .. Len(query.a)
      /\ Len(query.b) \in Nat /\ DOMAIN query.b = 1 .. Len(query.b)
  BY SidesAre DEF Running
<1>2. size \in Nat /\ DOMAIN query.out = 1 .. size
  BY <1>1 DEF Iterations, Running, Looped
<1>3. \A i \in 1 .. size : query.out[i] = Computed(query.phase, i)
  <2>1. ASSUME NEW i \in 1 .. size, NEW t \in Tids, worker[t].next <= i, i <= worker[t].last PROVE FALSE
    BY <1>2, <2>1 DEF Busy
  <2> QED BY <1>2, <2>1 DEF Running, Looped
<1>4. DOMAIN query.out = DOMAIN SideOf(query, query.phase)
  BY <1>1, <1>2 DEF SideOf, Iterations, Regions
<1>5. \A name \in Names(query.phase) : Right(backend, query, name, query.done[name])
  BY DEF Running, Kept
<1>6. ASSUME NEW i \in 1 .. size PROVE Computed(query.phase, i) = Value(backend, query, query.phase, i)
  <2>1. CASE query.phase \in {"hashA", "hashB"}
    BY <2>1 DEF Computed, Value, HashToGroup
  <2>2. CASE query.phase = "round1"
    <3>1. Right(backend, query, "hashA", query.done.hashA)
      BY <1>5, <2>2 DEF Names
    <3>2. i \in DOMAIN query.done.hashA /\ query.done.hashA[i] = Value(backend, query, "hashA", i)
      BY <1>1, <2>2, <3>1 DEF Right, SideOf, Iterations
    <3> QED BY <2>2, <3>2 DEF Computed, Value
  <2>3. CASE query.phase = "blindA"
    <3>1. Right(backend, query, "round1", query.done.round1)
      BY <1>5, <2>3 DEF Names
    <3>2. i \in DOMAIN query.done.round1 /\ query.done.round1[i] = Value(backend, query, "round1", i)
      BY <1>1, <2>3, <3>1 DEF Right, SideOf, Iterations
    <3> QED BY <2>3, <3>2 DEF Computed, Value
  <2>4. CASE query.phase = "blindB"
    <3>1. Right(backend, query, "hashB", query.done.hashB)
      BY <1>5, <2>4 DEF Names
    <3>2. query.pi[i] \in 1 .. Len(query.b)
      <4>1. Ordering(query.pi, Len(query.b)) /\ i \in 1 .. Len(query.b)
        BY <2>4 DEF Running, Drawn, LatePhases, Iterations
      <4> QED BY <4>1 DEF Ordering, Orders, Bijection, Injection
    <3>3. query.done.hashB[query.pi[i]] = Value(backend, query, "hashB", query.pi[i])
      BY <1>1, <3>1, <3>2 DEF Right, SideOf
    <3> QED BY <2>4, <3>3 DEF Computed, Value
  <2> QED BY <2>1, <2>2, <2>3, <2>4 DEF Regions
<1>7. query.phase # "shuffled"
  BY DEF Regions
<1> QED BY <1>2, <1>3, <1>4, <1>6, <1>7 DEF Right

\* A step after which the query of q is still in progress.
Continues(q) ==
    /\ DOMAIN query' = DOMAIN Idle /\ query'.stands = "asked"
    /\ \A t \in Tids : worker'[t].next \in Int /\ worker'[t].last \in Int
    /\ query'.x = q.x /\ query'.y = q.y /\ query'.asked = q.asked /\ query'.answer = q.answer
    /\ Running'

\* Storing a vector keeps the others.
LEMMA StoreIs ==
    ASSUME DOMAIN query = DOMAIN Idle, NEW name, NEW vec
    PROVE  /\ DOMAIN Store(name, vec) = DOMAIN Idle
           /\ \A f \in DOMAIN Idle \ {"done"} : Store(name, vec)[f] = query[f]
           /\ DOMAIN Store(name, vec).done = DOMAIN query.done \cup {name}
           /\ Store(name, vec).done[name] = vec
           /\ \A k \in DOMAIN query.done \ {name} : Store(name, vec).done[k] = query.done[k]
<1> DEFINE stored == [k \in DOMAIN query.done \cup {name} |-> IF k = name THEN vec ELSE query.done[k]]
<1>1. Store(name, vec) = [query EXCEPT !.done = stored]
  BY DEF Store
<1>2. DOMAIN stored = DOMAIN query.done \cup {name} /\ stored[name] = vec
      /\ \A k \in DOMAIN query.done \ {name} : stored[k] = query.done[k]
  OBVIOUS
<1> HIDE DEF stored
<1>3. "done" \in DOMAIN query
  BY DEF Idle
<1>4. Store(name, vec).done = stored
  BY <1>1, <1>3
<1>5. DOMAIN Store(name, vec) = DOMAIN Idle /\ \A f \in DOMAIN Idle \ {"done"} : Store(name, vec)[f] = query[f]
  BY <1>1
<1> QED BY <1>2, <1>4, <1>5

\* The fields of a query that a store leaves alone.
LEMMA StoreKeeps ==
    ASSUME DOMAIN query = DOMAIN Idle, NEW name, NEW vec, NEW q, q = Store(name, vec)
    PROVE  /\ q.stands = query.stands /\ q.x = query.x /\ q.y = query.y /\ q.asked = query.asked
           /\ q.answer = query.answer /\ q.a = query.a /\ q.b = query.b
           /\ q.ra = query.ra /\ q.rb = query.rb /\ q.pi = query.pi
<1> DEFINE R == Store(name, vec)
<1>1. \A f \in DOMAIN Idle \ {"done"} : R[f] = query[f]
  BY StoreIs
<1> HIDE DEF R
<1> QED BY <1>1 DEF Idle, R

\* A phase that follows the storing of the vector it was about.
LEMMA StoreRuns ==
    ASSUME Steady, UNCHANGED <<mode, backend, hasher>>, DOMAIN query = DOMAIN Idle, query.stands = "asked", Running,
           NEW name, NEW vec, Right(backend, query, name, vec), NEW ph \in Phases,
           Names(ph) = Names(query.phase) \cup {name}, name \notin Names(query.phase), Drawn(query, ph),
           Enter(Store(name, vec), ph)
    PROVE  Continues(query)
<1> DEFINE q == Store(name, vec)
<1>1. /\ DOMAIN q = DOMAIN Idle
      /\ q.stands = query.stands /\ q.x = query.x /\ q.y = query.y /\ q.asked = query.asked
      /\ q.answer = query.answer /\ q.a = query.a /\ q.b = query.b
      /\ q.ra = query.ra /\ q.rb = query.rb /\ q.pi = query.pi
  <2> HIDE DEF q
  <2>1. q = Store(name, vec)
    BY DEF q
  <2>2. DOMAIN q = DOMAIN Idle
    BY <2>1, StoreIs
  <2> QED BY <2>1, <2>2, StoreKeeps
<1>2. DOMAIN q.done = Names(ph) /\ q.done[name] = vec
      /\ \A k \in Names(query.phase) : q.done[k] = query.done[k]
  <2>1. DOMAIN query.done = Names(query.phase)
    BY DEF Running, Kept
  <2> QED BY <2>1, StoreIs
<1> HIDE DEF q
<1>3. Admissible(mode, hasher, q)
  BY <1>1 DEF Running, Admissible
<1>4. Drawn(q, ph)
  BY <1>1 DEF Drawn
<1>5. Kept(backend, q, ph)
  <2>1. ASSUME NEW k \in Names(ph) PROVE Right(backend, q, k, q.done[k])
    <3>1. k \in {"hashA", "hashB", "round1", "blindA", "shuffled", "blindB"}
      BY DEF Names, Phases, EarlyPhases, LatePhases
    <3>2. Right(backend, query, k, q.done[k])
      BY <1>2 DEF Running, Kept
    <3> QED BY <1>1, <3>1, <3>2, RightStays
  <2> QED BY <1>2, <2>1 DEF Kept
<1>6. Enter(q, ph)
  BY DEF q
<1> QED BY <1>1, <1>3, <1>4, <1>5, <1>6, EnterRuns DEF Continues

\* The barrier at the end of a loop that another phase follows.
LEMMA JoinRuns ==
    ASSUME Fit, Join, query.phase # "unblind"
    PROVE  Continues(query)
<1>1. /\ UNCHANGED <<mode, backend, hasher>> /\ query.stands = "asked" /\ query.phase \in Regions \ {"unblind"}
      /\ \A t \in Tids : ~Busy(t)
      /\ Enter(Store(query.phase, query.out), After(query.phase))
  BY DEF Join, InRegion, object
<1>2. Steady /\ Running /\ DOMAIN query = DOMAIN Idle
  BY <1>1 DEF Fit
<1>3. Right(backend, query, query.phase, query.out)
  BY <1>1, <1>2, LoopIsRight DEF Fit
<1> DEFINE ph == After(query.phase)
<1>4. ph \in Phases /\ Names(ph) = Names(query.phase) \cup {query.phase} /\ query.phase \notin Names(query.phase)
      /\ Drawn(query, ph)
  <2>1. Drawn(query, query.phase)
    BY <1>2 DEF Running
  <2>2. CASE query.phase = "hashA"
    BY <2>2 DEF After, Phases, EarlyPhases, LatePhases, Names, Drawn
  <2>3. CASE query.phase = "hashB"
    BY <2>3 DEF After, Phases, EarlyPhases, LatePhases, Names, Drawn
  <2>4. CASE query.phase = "round1"
    BY <2>1, <2>4 DEF After, Phases, EarlyPhases, LatePhases, Names, Drawn
  <2>5. CASE query.phase = "blindA"
    BY <2>1, <2>5 DEF After, Phases, EarlyPhases, LatePhases, Names, Drawn
  <2>6. CASE query.phase = "blindB"
    BY <2>1, <2>6 DEF After, Phases, EarlyPhases, LatePhases, Names, Drawn
  <2> QED BY <1>1, <2>2, <2>3, <2>4, <2>5, <2>6 DEF Regions
<1> HIDE DEF ph
<1>5. Enter(Store(query.phase, query.out), ph)
  BY <1>1 DEF ph
<1> QED BY <1>1, <1>2, <1>3, <1>4, <1>5, StoreRuns

\* Exponents that can be drawn are units, and so are those a test fixes.
LEMMA DrawsAreUnits ==
    ASSUME NEW which \in {1, 2}, NEW fixed,
           NEW r \in IF fixed THEN {FixedExps[which]} ELSE RandomExponents
    PROVE  r \in 1 .. Q - 1
<1>1. Q \in Nat /\ ExpDraws \subseteq Nat /\ FixedExps[1] \in 1 .. Q - 1 /\ FixedExps[2] \in 1 .. Q - 1
  BY Bcg12Assumption, GroupAssumption
<1>2. CASE fixed
  BY <1>1, <1>2
<1>3. CASE ~fixed
  <2>1. r \in ExpDraws /\ r # 0 /\ r < Q
    BY <1>3 DEF RandomExponents
  <2> QED BY <1>1, <2>1
<1> QED BY <1>2, <1>3

\* The two draws.
LEMMA DrawRuns ==
    ASSUME Fit, UNCHANGED <<mode, backend, hasher>>, query.stands = "asked", NEW r \in 1 .. Q - 1,
           \/ DrawA(r)
           \/ \E pi \in Shuffles(Len(query.b)) : DrawB(r, pi)
    PROVE  Continues(query)
<1>1. Steady /\ Running /\ DOMAIN query = DOMAIN Idle
  BY DEF Fit
<1>2. CASE DrawA(r)
  <2> DEFINE q == [query EXCEPT !.ra = r]
  <2>1. query.phase = "drawA" /\ Enter(q, "round1")
    BY <1>2 DEF DrawA
  <2>2. DOMAIN q = DOMAIN Idle /\ q.ra = r /\ \A f \in DOMAIN Idle \ {"ra"} : q[f] = query[f]
    BY <1>1 DEF Idle
  <2> HIDE DEF q
  <2>3. /\ q.stands = "asked" /\ q.x = query.x /\ q.y = query.y /\ q.asked = query.asked
        /\ q.answer = query.answer /\ q.a = query.a /\ q.b = query.b /\ q.done = query.done
    BY <2>2 DEF Idle
  <2>4. Admissible(mode, hasher, q)
    BY <1>1, <2>3 DEF Running, Admissible
  <2>5. Drawn(q, "round1") /\ "round1" \in Phases
    BY <2>2 DEF Drawn, Phases, EarlyPhases, LatePhases
  <2>6. Kept(backend, q, "round1")
    <3>1. Names("round1") = {"hashA", "hashB"} /\ Names(query.phase) = {"hashA", "hashB"}
      BY <2>1 DEF Names
    <3> QED BY <1>1, <2>3, <3>1, RightStays DEF Running, Kept
  <2> QED BY <1>1, <2>1, <2>2, <2>3, <2>4, <2>5, <2>6, EnterRuns DEF Continues
<1>3. ASSUME NEW pi \in Shuffles(Len(query.b)), DrawB(r, pi) PROVE Continues(query)
  <2> DEFINE q == [query EXCEPT !.rb = r, !.pi = pi]
  <2>1. query.phase = "drawB" /\ Enter(q, "blindA")
    BY <1>3 DEF DrawB
  <2>2. DOMAIN q = DOMAIN Idle /\ q.rb = r /\ q.pi = pi /\ \A f \in DOMAIN Idle \ {"rb", "pi"} : q[f] = query[f]
    BY <1>1 DEF Idle
  <2> HIDE DEF q
  <2>3. /\ q.stands = "asked" /\ q.x = query.x /\ q.y = query.y /\ q.asked = query.asked /\ q.ra = query.ra
        /\ q.answer = query.answer /\ q.a = query.a /\ q.b = query.b /\ q.done = query.done
    BY <2>2 DEF Idle
  <2>4. Admissible(mode, hasher, q)
    BY <1>1, <2>3 DEF Running, Admissible
  <2>5. Drawn(q, "blindA") /\ "blindA" \in Phases
    <3>1. Len(query.b) \in Nat
      BY <1>1, SidesAre DEF Running
    <3>2. Ordering(pi, Len(query.b))
      BY <3>1, ShuffleOrders DEF Ordering
    <3>3. query.ra \in 1 .. Q - 1
      BY <1>1, <2>1 DEF Running, Drawn
    <3> QED BY <2>2, <2>3, <3>2, <3>3 DEF Drawn, Phases, EarlyPhases, LatePhases
  <2>6. Kept(backend, q, "blindA")
    <3>1. Names("blindA") = {"hashA", "hashB", "round1"} /\ Names(query.phase) = {"hashA", "hashB", "round1"}
      BY <2>1 DEF Names
    <3> QED BY <1>1, <2>3, <3>1, RightStays DEF Running, Kept
  <2> QED BY <1>1, <2>1, <2>2, <2>3, <2>4, <2>5, <2>6, EnterRuns DEF Continues
<1> QED BY <1>2, <1>3

\* The blinded items are shuffled.
LEMMA ShuffleRuns ==
    ASSUME Fit, UNCHANGED <<mode, backend, hasher>>, query.stands = "asked",
           NEW pi \in Shuffles(Len(query.a)), Shuffle(pi)
    PROVE  Continues(query)
<1> DEFINE vec == [i \in DOMAIN query.a |-> query.done.blindA[pi[i]]]
<1>1. Steady /\ Running /\ DOMAIN query = DOMAIN Idle
  BY DEF Fit
<1>2. query.phase = "shuffle" /\ Enter(Store("shuffled", vec), "blindB")
  BY DEF Shuffle
<1>3. Right(backend, query, "shuffled", vec)
  <2>1. Len(query.a) \in Nat /\ DOMAIN query.a = 1 .. Len(query.a)
    BY <1>1, SidesAre DEF Running
  <2>2. PICK p \in Orders(Len(query.a)) : \A i \in 1 .. Len(query.a) : pi[i] = p[i]
    BY <2>1, ShuffleOrders
  <2>3. \A i \in 1 .. Len(query.a) : p[i] \in 1 .. Len(query.a)
    BY <2>2 DEF Orders, Bijection, Injection
  <2>4. Right(backend, query, "blindA", query.done.blindA)
    BY <1>1, <1>2 DEF Running, Kept, Names
  <2>5. \A i \in 1 .. Len(query.a) : vec[i] = Value(backend, query, "blindA", p[i])
    BY <2>1, <2>2, <2>3, <2>4 DEF Right, SideOf
  <2> QED BY <2>1, <2>2, <2>5 DEF Right, SideOf
<1>4. "blindB" \in Phases /\ Names("blindB") = Names(query.phase) \cup {"shuffled"} /\ "shuffled" \notin Names(query.phase)
  BY <1>2 DEF Phases, LatePhases, Names
<1>5. Drawn(query, "blindB")
  BY <1>1, <1>2 DEF Running, Drawn, LatePhases
<1> HIDE DEF vec
<1> QED BY <1>1, <1>2, <1>3, <1>4, <1>5, StoreRuns

\* A query begins, or is refused at once.
LEMMA RunQueryRuns ==
    ASSUME Fit, NEW x \in Sets, NEW y \in Sets, NEW fixed \in BOOLEAN, RunQuery(x, y, fixed)
    PROVE  /\ DOMAIN query' = DOMAIN Idle /\ query'.x = x /\ query'.y = y /\ query'.asked = seed /\ query'.answer = <<>>
           /\ \A t \in Tids : worker'[t].next \in Int /\ worker'[t].last \in Int
           /\ query'.stands = "refused" \/ (query'.stands = "asked" /\ Running')
<1> DEFINE begun == [Idle EXCEPT !.x = x, !.y = y, !.asked = seed, !.fixed = fixed]
           none == [begun EXCEPT !.stands = "refused", !.fixed = FALSE]
           q == [begun EXCEPT !.stands = "asked", !.a = Items(x), !.b = Items(y)]
           refuses == pool = 0 \/ (mode = "minhash" /\ (hasher = None \/ x = <<>> \/ y = <<>>))
<1>1. IF refuses THEN query' = none /\ UNCHANGED worker ELSE Enter(q, "hashA")
  BY DEF RunQuery
<1>2. UNCHANGED <<mode, backend, hasher>>
  BY DEF RunQuery, object
<1>3. Steady /\ seed \in Seeds
  BY DEF Fit, Steady
<1>4. CASE refuses
  <2>1. query' = none /\ UNCHANGED worker
    BY <1>1, <1>4
  <2>2. /\ DOMAIN none = DOMAIN Idle /\ none.x = x /\ none.y = y /\ none.asked = seed /\ none.answer = <<>>
        /\ none.stands = "refused"
    BY DEF Idle
  <2> HIDE DEF none, refuses
  <2>3. \A t \in Tids : worker'[t].next \in Int /\ worker'[t].last \in Int
    BY <2>1 DEF Fit
  <2> QED BY <2>1, <2>2, <2>3
<1>5. CASE ~refuses
  <2>1. Enter(q, "hashA")
    BY <1>1, <1>5
  <2>2. /\ DOMAIN q = DOMAIN Idle /\ q.x = x /\ q.y = y /\ q.asked = seed /\ q.answer = <<>>
        /\ q.stands = "asked" /\ q.a = Items(x) /\ q.b = Items(y) /\ q.done = <<>>
    BY DEF Idle
  <2>3. mode = "minhash" => hasher # None /\ x # <<>> /\ y # <<>>
    BY <1>5
  <2> HIDE DEF q
  <2>4. Admissible(mode, hasher, q)
    <3>1. q.a = Listed(mode, hasher, x) /\ q.b = Listed(mode, hasher, y)
      BY <2>2, ListedIs
    <3>2. mode = "minhash" => hasher = q.asked
      BY <1>3, <2>2, <2>3 DEF Steady
    <3> QED BY <1>3, <2>2, <2>3, <3>1, <3>2 DEF Admissible
  <2>5. Drawn(q, "hashA") /\ "hashA" \in Phases
    BY DEF Drawn, Phases, EarlyPhases, LatePhases
  <2>6. Kept(backend, q, "hashA")
    <3>1. Names("hashA") = {} /\ DOMAIN <<>> = {}
      BY DEF Names
    <3> QED BY <2>2, <3>1 DEF Kept
  <2> QED BY <1>2, <1>3, <2>1, <2>2, <2>4, <2>5, <2>6, EnterRuns
<1> QED BY <1>4, <1>5

\* A step inside a loop: what it writes is what its iteration computes, and nobody
\* loses an iteration.
LEMMA LoopContinues ==
    ASSUME Fit, InRegion, UNCHANGED <<mode, backend, hasher>>,
           DOMAIN query' = DOMAIN Idle, \A f \in DOMAIN Idle \ {"out"} : query'[f] = query[f],
           DOMAIN query'.out = DOMAIN query.out,
           \A s \in Tids : worker'[s].next \in Int /\ worker'[s].last \in Int,
           \A i \in DOMAIN query.out : query'.out[i] = query.out[i] \/ query'.out[i] = Computed(query.phase, i),
           \A i \in DOMAIN query.out : \A s \in Tids :
              worker[s].next <= i /\ i <= worker[s].last
              => query'.out[i] = Computed(query.phase, i) \/ (worker'[s].next <= i /\ i <= worker'[s].last)
    PROVE  Continues(query)
<1>1. Running /\ query.phase \in Regions /\ query.stands = "asked"
  BY DEF Fit, InRegion
<1>2. /\ query'.stands = query.stands /\ query'.x = query.x /\ query'.y = query.y /\ query'.asked = query.asked
      /\ query'.answer = query.answer /\ query'.a = query.a /\ query'.b = query.b /\ query'.done = query.done
      /\ query'.ra = query.ra /\ query'.rb = query.rb /\ query'.pi = query.pi /\ query'.phase = query.phase
  BY DEF Idle
<1>3. Admissible(mode, hasher, query)'
  BY <1>1, <1>2 DEF Running, Admissible
<1>4. Drawn(query, query.phase)'
  BY <1>1, <1>2 DEF Running, Drawn
<1>5. Kept(backend, query, query.phase)'
  <2>1. ASSUME NEW name \in Names(query.phase) PROVE Right(backend, query', name, query'.done[name])
    <3>1. name \in {"hashA", "hashB", "round1", "blindA", "shuffled", "blindB"}
      BY <1>1 DEF Names, Running, Phases, EarlyPhases, LatePhases
    <3>2. Right(backend, query, name, query.done[name])
      BY <1>1 DEF Running, Kept
    <3> QED BY <1>2, <3>1, <3>2, RightStays
  <2> QED BY <1>1, <1>2, <2>1 DEF Running, Kept
<1>6. Looped'
  <2>1. Iterations(query', query'.phase) = Iterations(query, query.phase)
    BY <1>2 DEF Iterations
  <2>2. \A i : Computed(query.phase, i)' = Computed(query.phase, i)
    BY <1>2 DEF Computed, HashToGroup
  <2>3. DOMAIN query.out = 1 .. Iterations(query, query.phase)
    BY <1>1 DEF Running, Looped
  <2>4. ASSUME NEW i \in DOMAIN query.out
        PROVE  query'.out[i] = Computed(query.phase, i) \/ \E s \in Tids : worker'[s].next <= i /\ i <= worker'[s].last
    <3>1. query.out[i] = Computed(query.phase, i) \/ \E s \in Tids : worker[s].next <= i /\ i <= worker[s].last
      BY <1>1, <2>3 DEF Running, Looped
    <3> QED BY <3>1
  <2> QED BY <1>1, <1>2, <2>1, <2>2, <2>3, <2>4 DEF Looped
<1> QED BY <1>1, <1>2, <1>3, <1>4, <1>5, <1>6 DEF Continues, Running

\* A step of a thread: the query goes on, or the process ends.
LEMMA CallRuns ==
    ASSUME Fit, NEW t \in Tids, CallStep(t)
    PROVE  Terminate \/ Continues(query)
<1>0. /\ InRegion /\ UNCHANGED <<mode, backend, hasher>> /\ DOMAIN query = DOMAIN Idle
      /\ DOMAIN worker = Tids /\ \A s \in Tids : DOMAIN worker[s] = {"next", "last", "call", "at"}
      /\ \A s \in Tids : worker[s].next \in Int /\ worker[s].last \in Int
  BY DEF CallStep, BeginCall, LockFallback, EndCall, CallThrows, object, Fit, IInv, Shape
<1>1. ASSUME UNCHANGED query, NEW place, worker' = [worker EXCEPT ![t].at = place] PROVE Continues(query)
  <2>1. \A s \in Tids : worker'[s].next = worker[s].next /\ worker'[s].last = worker[s].last
    BY <1>0, <1>1
  <2> QED BY <1>0, <1>1, <2>1, LoopContinues
<1>2. CASE BeginCall(t)
  BY <1>1, <1>2 DEF BeginCall
<1>3. CASE LockFallback(t)
  BY <1>1, <1>3 DEF LockFallback
<1>4. CASE EndCall(t)
  <2>1. CASE worker[t].call < Calls(query.phase)
    <3>1. worker' = [worker EXCEPT ![t].call = @ + 1, ![t].at = "ready"] /\ UNCHANGED query
      BY <1>4, <2>1 DEF EndCall
    <3>2. \A s \in Tids : worker'[s].next = worker[s].next /\ worker'[s].last = worker[s].last
      BY <1>0, <3>1
    <3> QED BY <1>0, <3>1, <3>2, LoopContinues
  <2>2. CASE ~(worker[t].call < Calls(query.phase))
    <3> DEFINE i0 == worker[t].next
               c0 == Computed(query.phase, i0)
    <3>1. /\ query' = [query EXCEPT !.out[i0] = c0]
          /\ worker' = [worker EXCEPT ![t].call = 1, ![t].at = "ready", ![t].next = @ + 1]
      BY <1>4, <2>2, Zenon DEF EndCall
    <3>2. worker'[t].next = i0 + 1 /\ worker'[t].last = worker[t].last
      BY <1>0, <3>1
    <3>3. \A s \in Tids \ {t} : worker'[s] = worker[s]
      BY <1>0, <3>1
    <3>4. DOMAIN query' = DOMAIN Idle /\ \A f \in DOMAIN Idle \ {"out"} : query'[f] = query[f]
      BY <1>0, <3>1
    <3>5. query'.out = [query.out EXCEPT ![i0] = c0]
      BY <1>0, <3>1 DEF Idle
    <3>6. /\ DOMAIN query'.out = DOMAIN query.out
          /\ \A i \in DOMAIN query.out : query'.out[i] = IF i = i0 THEN c0 ELSE query.out[i]
      BY <3>5
    <3>7. \A s \in Tids : worker'[s].next \in Int /\ worker'[s].last \in Int
      BY <1>0, <3>2, <3>3
    <3>8. ASSUME NEW i \in DOMAIN query.out, NEW s \in Tids, worker[s].next <= i, i <= worker[s].last
          PROVE  query'.out[i] = Computed(query.phase, i) \/ (worker'[s].next <= i /\ i <= worker'[s].last)
      <4>1. CASE s # t
        BY <3>3, <3>8, <4>1
      <4>2. CASE i = i0
        BY <3>6, <4>2
      <4>3. CASE s = t /\ i # i0
        <5>1. i \in Int
          <6>1. DOMAIN query.out = 1 .. Iterations(query, query.phase)
            BY <1>0 DEF Fit, InRegion, Running, Looped
          <6> QED BY <6>1
        <5> QED BY <1>0, <3>2, <3>3, <3>8, <4>3, <5>1
      <4> QED BY <4>1, <4>2, <4>3
    <3>9. \A i \in DOMAIN query.out : query'.out[i] = query.out[i] \/ query'.out[i] = Computed(query.phase, i)
      BY <3>6
    <3> HIDE DEF i0, c0
    <3> QED BY <1>0, <3>4, <3>6, <3>7, <3>8, <3>9, LoopContinues
  <2> QED BY <2>1, <2>2
<1>5. CASE CallThrows(t)
  BY <1>5 DEF CallThrows
<1> QED BY <1>2, <1>3, <1>4, <1>5 DEF CallStep

\* The tags that match are the items in common.
LEMMA MatchesAre ==
    ASSUME Fit, InRegion, \A t \in Tids : ~Busy(t), query.phase = "unblind"
    PROVE  Matches = Cardinality(Common(query.a, query.b))
<1> DEFINE a == query.a
           b == query.b
           c == query.ra
           d == query.rb
           size == Len(a)
           H(u) == HashToGroup(u)
           tags == query.done.blindB
<1>1. Running /\ Steady /\ Admissible(mode, hasher, query)
  BY DEF Fit, InRegion, Running
<1>2. /\ size \in Nat /\ DOMAIN a = 1 .. size
      /\ Len(b) \in Nat /\ DOMAIN b = 1 .. Len(b)
      /\ \A i \in 1 .. size : a[i] \in KindOf(mode)
      /\ \A j \in 1 .. Len(b) : b[j] \in KindOf(mode)
  BY <1>1, SidesAre
<1>3. c \in 1 .. Q - 1 /\ d \in 1 .. Q - 1 /\ Ordering(query.pi, Len(b))
  BY <1>1 DEF Running, Drawn, LatePhases
<1>4. DOMAIN query.out = 1 .. size /\ \A i \in 1 .. size : query.out[i] = ExpInverse(query.done.shuffled[i], c)
  <2>1. /\ DOMAIN query.out = 1 .. Iterations(query, "unblind")
        /\ \A i \in 1 .. Iterations(query, "unblind") :
              query.out[i] = Computed("unblind", i) \/ \E t \in Tids : worker[t].next <= i /\ i <= worker[t].last
    BY <1>1 DEF Running, Looped, Regions
  <2>2. Iterations(query, "unblind") = size
    BY DEF Iterations
  <2>3. ASSUME NEW i \in 1 .. size, NEW t \in Tids, worker[t].next <= i, i <= worker[t].last PROVE FALSE
    BY <1>2, <2>3 DEF Busy, Fit
  <2>4. \A i : Computed("unblind", i) = ExpInverse(query.done.shuffled[i], c)
    BY DEF Computed
  <2> QED BY <2>1, <2>2, <2>3, <2>4
<1>5. Right(backend, query, "shuffled", query.done.shuffled) /\ Right(backend, query, "blindB", tags)
  BY <1>1 DEF Running, Kept, Names
<1>6. PICK p \in Orders(size) : \A i \in 1 .. size : query.done.shuffled[i] = Exp(Exp(H(a[p[i]]), c), d)
  BY <1>2, <1>5 DEF Right, SideOf, Value, HashToGroup
<1>7. PICK r \in Orders(Len(b)) : \A j \in 1 .. Len(b) : query.pi[j] = r[j]
  BY <1>3 DEF Ordering
<1>8. DOMAIN tags = 1 .. Len(b) /\ \A j \in 1 .. Len(b) : tags[j] = Exp(H(b[r[j]]), d)
  BY <1>2, <1>5, <1>7 DEF Right, SideOf, Value, HashToGroup
<1> HIDE DEF a, b, c, d, size, H, tags
<1>9. /\ \A i \in 1 .. size : p[i] \in 1 .. size
      /\ \A j \in 1 .. Len(b) : r[j] \in 1 .. Len(b)
      /\ \A k \in 1 .. Len(b) : \E j \in 1 .. Len(b) : r[j] = k
  BY <1>6, <1>7 DEF Orders, Bijection, Injection, Surjection
<1> DEFINE D == Common(a, b)
<1>10. ASSUME NEW i \in 1 .. size PROVE query.out[i] \in Members(tags) <=> p[i] \in D
  <2>1. query.out[i] = ExpInverse(Exp(Exp(H(a[p[i]]), c), d), c)
    BY <1>4, <1>6
  <2>2. \A k \in 1 .. Len(b) : query.out[i] = Exp(H(b[k]), d) <=> a[p[i]] = b[k]
    <3>1. ASSUME NEW k \in 1 .. Len(b) PROVE query.out[i] = Exp(H(b[k]), d) <=> a[p[i]] = b[k]
      <4>1. KindOf(mode) \in {RawItems, TaggedItems} /\ backend \in {"FF", "EC"}
        BY <1>1 DEF KindOf, Steady
      <4>2. a[p[i]] \in KindOf(mode) /\ b[k] \in KindOf(mode)
        BY <1>2, <1>9
      <4> QED BY <1>3, <2>1, <4>1, <4>2, TagsMatch DEF H
    <3> QED BY <3>1
  <2>3. query.out[i] \in Members(tags) <=> \E j \in 1 .. Len(b) : query.out[i] = Exp(H(b[r[j]]), d)
    BY <1>8 DEF Members
  <2>4. p[i] \in D <=> \E k \in 1 .. Len(b) : a[p[i]] = b[k]
    BY <1>2, <1>9 DEF Common, Members
  <2> QED BY <1>9, <2>2, <2>3, <2>4
<1>11. Matches = Cardinality({i \in 1 .. size : p[i] \in D})
  <2>1. Matches = Cardinality({i \in 1 .. size : query.out[i] \in Members(tags)})
    BY <1>4 DEF Matches, tags
  <2>2. {i \in 1 .. size : query.out[i] \in Members(tags)} = {i \in 1 .. size : p[i] \in D}
    BY <1>10
  <2> QED BY <2>1, <2>2
<1>12. D \in SUBSET (1 .. size)
  BY <1>2 DEF Common
<1> HIDE DEF D
<1>13. Matches = Cardinality(D)
  BY <1>2, <1>6, <1>11, <1>12, ReorderedCount
<1> QED BY <1>13 DEF D, a, b

\* What the last loop ends in is what is owed.
LEMMA AnswerIsOwed ==
    ASSUME Fit, InRegion, \A t \in Tids : ~Busy(t), query.phase = "unblind"
    PROVE  Estimate(Matches, query.x, query.y) = Owed(<<query.x, query.y, mode, query.asked>>)
<1>1. Running /\ Steady
  BY DEF Fit, InRegion
<1>2. /\ query.x \in Sets /\ query.y \in Sets /\ mode \in {"exact", "minhash"}
      /\ mode = "minhash" => hasher \in Seeds /\ query.x # <<>> /\ query.y # <<>> /\ hasher = query.asked
      /\ query.a = Items(query.x) /\ query.b = Items(query.y)
  BY <1>1, ListedIs DEF Running, Admissible, Steady
<1>3. Matches = Cardinality(Common(Items(query.x), Items(query.y)))
  BY <1>2, MatchesAre
<1> QED BY <1>2, <1>3, CommonIsOwed

\* The default seed is one of the seeds.
LEMMA DefaultIs == Default \in Seeds
<1>1. \E s \in Seeds : \A r \in Seeds : s <= r
  BY InputAssumption, LeastNatural
<1> QED BY <1>1 DEF Default

\* A comparator that has just been made.
LEMMA InitFit == Init => Fit
<1> SUFFICES ASSUME Init PROVE Fit
  OBVIOUS
<1>1. IInv
  BY InitIInv
<1>2. /\ mode \in {"exact", "minhash"} /\ backend \in {"FF", "EC"} /\ seed = Default /\ hasher = None
      /\ threads \in 1 .. MaxThreads /\ query = Idle /\ worker = [t \in Tids |-> Resting]
  BY DEF Init
<1>3. Steady
  BY <1>2, DefaultIs DEF Steady
<1>4. \A t \in Tids : worker[t].next \in Int /\ worker[t].last \in Int
  BY <1>2 DEF Resting
<1>5. query.stands = "idle" /\ DOMAIN query = DOMAIN Idle
  BY <1>2 DEF Idle
<1> QED BY <1>1, <1>2, <1>3, <1>4, <1>5 DEF Fit

\* What the process leaves when it ends in a loop, and what an exception leaves.
LEMMA EndIs ==
    ASSUME Fit, query.stands = "asked", NEW how \in {"aborted", "refused"},
           query' = [Idle EXCEPT !.stands = how, !.x = query.x, !.y = query.y, !.asked = query.asked]
    PROVE  /\ DOMAIN query' = DOMAIN Idle /\ query'.stands = how
           /\ query'.x = query.x /\ query'.y = query.y /\ query'.asked = query.asked /\ query'.answer = query.answer
<1>1. query.answer = <<>>
  BY DEF Fit, Running, Admissible
<1> QED BY <1>1 DEF Idle

\* The set-up calls, between queries.
LEMMA SetUpFit ==
    ASSUME Fit, Setup \/ (\E s \in Seeds : SetHashSeed(s)) \/ (\E count \in 1 .. MaxThreads : SetThreads(count)), IInv'
    PROVE  Fit' /\ UNCHANGED <<mode, query>>
<1>1. UNCHANGED <<mode, backend, query, worker>> /\ query.stands # "asked"
  BY DEF Setup, SetHashSeed, SetThreads, object, Quiet
<1>2. Steady'
  <2>1. CASE Setup
    BY <1>1, <2>1 DEF Setup, Rehash, Steady, Fit
  <2>2. ASSUME NEW s \in Seeds, SetHashSeed(s) PROVE Steady'
    BY <1>1, <2>2 DEF SetHashSeed, Rehash, Steady, Fit
  <2>3. ASSUME NEW count \in 1 .. MaxThreads, SetThreads(count) PROVE Steady'
    BY <1>1, <2>3 DEF SetThreads, object, Steady, Fit
  <2> QED BY <2>1, <2>2, <2>3
<1> QED BY <1>1, <1>2 DEF Fit

\* A query is in progress, or over, after each step.
LEMMA ContinuesFit ==
    ASSUME Fit, UNCHANGED <<mode, backend, hasher, seed, threads>>, IInv', Continues(query)
    PROVE  Fit'
BY DEF Fit, Steady, Continues

\* A step that ends the query.
LEMMA OverFit ==
    ASSUME Fit, UNCHANGED <<mode, backend, hasher, seed, threads>>, IInv',
           DOMAIN query' = DOMAIN Idle, query'.stands \in {"answered", "refused", "aborted"},
           \A t \in Tids : worker'[t].next \in Int /\ worker'[t].last \in Int
    PROVE  Fit'
BY DEF Fit, Steady

-------------------------------------------------------------------------------
\* What the promise sees of a query.
StandOf(md, q) == [pair |-> IF q.stands = "idle" THEN <<>> ELSE <<q.x, q.y, md, q.asked>>,
                   stands |-> IF q.stands = "aborted" THEN "asked" ELSE q.stands,
                   answer |-> q.answer]
BcgQuery == [c \in {1} |-> Standing]

\* The promise's view before and after a step.
LEMMA StandIs ==
    /\ BcgQuery[1] = StandOf(mode, query)
    /\ BcgQuery' = [BcgQuery EXCEPT ![1] = StandOf(mode', query')]
<1>1. Standing = StandOf(mode, query)
  BY DEF Standing, StandOf
<1>2. Standing' = StandOf(mode', query')
  BY DEF Standing, StandOf
<1>3. BcgQuery' = [c \in {1} |-> Standing']
  BY DEF BcgQuery
<1> QED BY <1>1, <1>2, <1>3 DEF BcgQuery

\* The promise does not see a step that changes nothing of what it is told.
LEMMA Stutters ==
    ASSUME StandOf(mode', query') = StandOf(mode, query)
    PROVE  UNCHANGED BcgQuery
<1>1. Standing = StandOf(mode, query)
  BY DEF Standing, StandOf
<1>2. Standing' = StandOf(mode', query')
  BY DEF Standing, StandOf
<1> QED BY <1>1, <1>2 DEF BcgQuery

\* A query that goes on, and one whose process has died, stay asked.
LEMMA ContinuesStands ==
    ASSUME Fit, query.stands = "asked", UNCHANGED mode, query'.stands \in {"asked", "aborted"},
           query'.x = query.x, query'.y = query.y, query'.asked = query.asked, query'.answer = query.answer
    PROVE  UNCHANGED BcgQuery
<1>1. StandOf(mode', query') = StandOf(mode, query)
  BY DEF StandOf
<1> QED BY <1>1, Stutters

\* RunQuery, whether it begins the query or throws at once.
LEMMA AskImplements ==
    ASSUME Fit, NEW x \in Sets, NEW y \in Sets, NEW fixed \in BOOLEAN, RunQuery(x, y, fixed)
    PROVE  Promise!Ask(1)
<1> DEFINE pair == <<x, y, mode, seed>>
           s == query'.stands
<1>1. /\ query'.x = x /\ query'.y = y /\ query'.asked = seed /\ query'.answer = <<>>
      /\ s \in {"asked", "refused"}
  BY RunQueryRuns
<1>2. UNCHANGED mode /\ query = Idle /\ query.stands = "idle"
  BY DEF RunQuery, object, Fit
<1>3. BcgQuery[1] = [pair |-> <<>>, stands |-> "idle", answer |-> <<>>]
  BY <1>2, StandIs DEF StandOf, Idle
<1>4. StandOf(mode', query') = [pair |-> pair, stands |-> s, answer |-> <<>>]
  BY <1>1, <1>2 DEF StandOf
<1>5. pair \in Sets \X Sets \X {"exact", "minhash"} \X Seeds
  BY DEF Fit, Steady
<1> HIDE DEF pair, s
<1>6. [[pair |-> <<>>, stands |-> "idle", answer |-> <<>>] EXCEPT !.pair = pair, !.stands = s]
         = [pair |-> pair, stands |-> s, answer |-> <<>>]
  <2> DEFINE R == [pair |-> <<>>, stands |-> "idle", answer |-> <<>>]
  <2>1. [R EXCEPT !.pair = pair, !.stands = s] = [[R EXCEPT !.pair = pair] EXCEPT !.stands = s]
    OBVIOUS
  <2>2. [R EXCEPT !.pair = pair] = [pair |-> pair, stands |-> "idle", answer |-> <<>>]
    OBVIOUS
  <2>3. [[pair |-> pair, stands |-> "idle", answer |-> <<>>] EXCEPT !.stands = s]
           = [pair |-> pair, stands |-> s, answer |-> <<>>]
    OBVIOUS
  <2> QED BY <2>1, <2>2, <2>3, Zenon
<1>7. BcgQuery' = [BcgQuery EXCEPT ![1] = [BcgQuery[1] EXCEPT !.pair = pair, !.stands = s]]
  <2>1. [BcgQuery[1] EXCEPT !.pair = pair, !.stands = s] = StandOf(mode', query')
    BY <1>3, <1>4, <1>6, Zenon
  <2> QED BY <2>1, StandIs, Zenon
<1>8. /\ BcgQuery[1].stands = "idle"
      /\ \E p \in Sets \X Sets \X {"exact", "minhash"} \X Seeds, t \in {"asked", "refused"} :
            BcgQuery' = [BcgQuery EXCEPT ![1] = [@ EXCEPT !.pair = p, !.stands = t]]
  <2>1. BcgQuery[1].stands = "idle"
    BY <1>3
  <2> QED BY <1>1, <1>5, <1>7, <2>1 DEF s
<1> QED BY <1>8 DEF BcgQuery, Promise!Ask

\* A query in progress that throws.
LEMMA RefuseImplements ==
    ASSUME Fit, query.stands = "asked", UNCHANGED mode, query'.stands = "refused",
           query'.x = query.x, query'.y = query.y, query'.asked = query.asked, query'.answer = query.answer
    PROVE  Promise!Refuse(1)
<1> DEFINE pair == <<query.x, query.y, mode, query.asked>>
<1>1. query.answer = <<>>
  BY DEF Fit, Running, Admissible
<1>2. BcgQuery[1] = [pair |-> pair, stands |-> "asked", answer |-> <<>>]
  BY <1>1, StandIs DEF StandOf
<1>3. StandOf(mode', query') = [pair |-> pair, stands |-> "refused", answer |-> <<>>]
  BY <1>1 DEF StandOf
<1> HIDE DEF pair
<1>4. [BcgQuery[1] EXCEPT !.stands = "refused"] = StandOf(mode', query')
  <2>1. [[pair |-> pair, stands |-> "asked", answer |-> <<>>] EXCEPT !.stands = "refused"]
           = [pair |-> pair, stands |-> "refused", answer |-> <<>>]
    OBVIOUS
  <2> QED BY <1>2, <1>3, <2>1, Zenon
<1>5. /\ BcgQuery[1].stands = "asked"
      /\ BcgQuery' = [BcgQuery EXCEPT ![1].stands = "refused"]
  <2>1. BcgQuery[1].stands = "asked"
    BY <1>2
  <2>2. BcgQuery' = [BcgQuery EXCEPT ![1].stands = "refused"]
    BY <1>4, StandIs, Zenon
  <2> QED BY <2>1, <2>2
<1> QED BY <1>5 DEF BcgQuery, Promise!Refuse

\* A query in progress that returns what is owed.
LEMMA AnswerImplements ==
    ASSUME Fit, query.stands = "asked", UNCHANGED mode, query'.stands = "answered",
           query'.x = query.x, query'.y = query.y, query'.asked = query.asked,
           query'.answer = Owed(<<query.x, query.y, mode, query.asked>>)
    PROVE  Promise!Answer(1)
<1> DEFINE pair == <<query.x, query.y, mode, query.asked>>
           answer == query'.answer
<1>1. query.answer = <<>>
  BY DEF Fit, Running, Admissible
<1>2. BcgQuery[1] = [pair |-> pair, stands |-> "asked", answer |-> <<>>]
  BY <1>1, StandIs DEF StandOf
<1>3. StandOf(mode', query') = [pair |-> pair, stands |-> "answered", answer |-> answer]
  BY DEF StandOf
<1>4. answer = Owed(pair)
  OBVIOUS
<1> HIDE DEF pair, answer
<1>5. BcgQuery'[1] = StandOf(mode', query')
  BY StandIs DEF BcgQuery
<1>6. BcgQuery'[1].answer = answer
  BY <1>3, <1>5
<1>7. [BcgQuery[1] EXCEPT !.stands = "answered", !.answer = BcgQuery'[1].answer] = StandOf(mode', query')
  <2>1. [[pair |-> pair, stands |-> "asked", answer |-> <<>>] EXCEPT !.stands = "answered", !.answer = answer]
           = [pair |-> pair, stands |-> "answered", answer |-> answer]
    <3> DEFINE R == [pair |-> pair, stands |-> "asked", answer |-> <<>>]
    <3>1. [R EXCEPT !.stands = "answered", !.answer = answer] = [[R EXCEPT !.stands = "answered"] EXCEPT !.answer = answer]
      OBVIOUS
    <3>2. [R EXCEPT !.stands = "answered"] = [pair |-> pair, stands |-> "answered", answer |-> <<>>]
      OBVIOUS
    <3>3. [[pair |-> pair, stands |-> "answered", answer |-> <<>>] EXCEPT !.answer = answer]
             = [pair |-> pair, stands |-> "answered", answer |-> answer]
      OBVIOUS
    <3> QED BY <3>1, <3>2, <3>3, Zenon
  <2> QED BY <1>2, <1>3, <1>6, <2>1, Zenon
<1>8. /\ BcgQuery[1].stands = "asked"
      /\ BcgQuery' = [BcgQuery EXCEPT ![1] = [@ EXCEPT !.stands = "answered", !.answer = BcgQuery'[1].answer]]
      /\ BcgQuery'[1].answer = Owed(BcgQuery[1].pair)
  <2>1. BcgQuery[1].stands = "asked" /\ BcgQuery[1].pair = pair
    BY <1>2
  <2>2. BcgQuery' = [BcgQuery EXCEPT ![1] = [@ EXCEPT !.stands = "answered", !.answer = BcgQuery'[1].answer]]
    BY <1>7, StandIs, Zenon
  <2> QED BY <1>4, <1>6, <2>1, <2>2
<1> QED BY <1>8 DEF BcgQuery, Promise!Answer

\* The caller has the result.
LEMMA LeaveImplements ==
    ASSUME Fit, Leave
    PROVE  Promise!Leave(1)
<1>1. query.stands \in {"answered", "refused"} /\ query' = Idle /\ UNCHANGED mode
  BY DEF Leave, object
<1>2. BcgQuery[1].stands \in {"answered", "refused"}
  BY <1>1, StandIs DEF StandOf
<1>3. StandOf(mode', query') = Promise!Idle
  BY <1>1 DEF StandOf, Idle, Promise!Idle
<1>4. BcgQuery' = [BcgQuery EXCEPT ![1] = Promise!Idle]
  BY <1>3, StandIs
<1> QED BY <1>2, <1>4 DEF BcgQuery, Promise!Leave

-------------------------------------------------------------------------------
\* Each step keeps the invariant and is a step of the promise or none of its concern.
Faithful == Fit' /\ (Promise!Next \/ UNCHANGED BcgQuery)

\* The steps of a thread: nothing the promise sees.
LEMMA CallFaithful ==
    ASSUME Fit, IInv', NEW t \in Tids, CallStep(t)
    PROVE  Faithful
<1>1. InRegion /\ query.stands = "asked" /\ UNCHANGED <<mode, backend, hasher, seed, threads>>
  BY DEF CallStep, BeginCall, LockFallback, EndCall, CallThrows, object, InRegion
<1>2. CASE Continues(query)
  <2>1. Fit'
    BY <1>1, <1>2, ContinuesFit
  <2>2. UNCHANGED BcgQuery
    BY <1>1, <1>2, ContinuesStands DEF Continues
  <2> QED BY <2>1, <2>2 DEF Faithful
<1>3. CASE Terminate
  <2>1. /\ DOMAIN query' = DOMAIN Idle /\ query'.stands = "aborted"
        /\ query'.x = query.x /\ query'.y = query.y /\ query'.asked = query.asked /\ query'.answer = query.answer
    BY <1>1, <1>3, EndIs DEF Terminate
  <2>2. \A s \in Tids : worker'[s].next \in Int /\ worker'[s].last \in Int
    BY <1>3 DEF Terminate, Resting
  <2>3. Fit'
    BY <1>1, <2>1, <2>2, OverFit
  <2>4. UNCHANGED BcgQuery
    BY <1>1, <2>1, ContinuesStands
  <2> QED BY <2>3, <2>4 DEF Faithful
<1> QED BY <1>2, <1>3, CallRuns

\* The barriers: the last one answers.
LEMMA JoinFaithful ==
    ASSUME Fit, IInv', Join
    PROVE  Faithful
<1>1. InRegion /\ query.stands = "asked" /\ UNCHANGED <<mode, backend, hasher, seed, threads>>
      /\ \A t \in Tids : ~Busy(t)
  BY DEF Join, object, InRegion
<1>2. CASE query.phase # "unblind"
  <2>1. Continues(query)
    BY <1>2, JoinRuns
  <2>2. Fit'
    BY <1>1, <2>1, ContinuesFit
  <2>3. UNCHANGED BcgQuery
    BY <1>1, <2>1, ContinuesStands DEF Continues
  <2> QED BY <2>2, <2>3 DEF Faithful
<1>3. CASE query.phase = "unblind"
  <2>1. /\ query' = [Idle EXCEPT !.stands = "answered", !.x = query.x, !.y = query.y, !.asked = query.asked,
                            !.fixed = query.fixed, !.answer = Estimate(Matches, query.x, query.y)]
        /\ UNCHANGED worker
    BY <1>3 DEF Join
  <2> DEFINE answer == Estimate(Matches, query.x, query.y)
  <2>2. answer = Owed(<<query.x, query.y, mode, query.asked>>)
    BY <1>1, <1>3, AnswerIsOwed
  <2> HIDE DEF answer
  <2>3. query' = [Idle EXCEPT !.stands = "answered", !.x = query.x, !.y = query.y, !.asked = query.asked,
                              !.fixed = query.fixed, !.answer = answer]
    BY <2>1 DEF answer
  <2>4. /\ DOMAIN query' = DOMAIN Idle /\ query'.stands = "answered" /\ query'.answer = answer
        /\ query'.x = query.x /\ query'.y = query.y /\ query'.asked = query.asked
    BY <2>3 DEF Idle
  <2>5. \A t \in Tids : worker'[t].next \in Int /\ worker'[t].last \in Int
    BY <2>1 DEF Fit
  <2>6. Fit'
    BY <1>1, <2>4, <2>5, OverFit
  <2>7. Promise!Answer(1)
    BY <1>1, <2>2, <2>4, AnswerImplements
  <2> QED BY <2>6, <2>7 DEF Faithful, Promise!Next
<1> QED BY <1>2, <1>3

\* The code between the loops: it goes on or throws.
LEMMA SequentialFaithful ==
    ASSUME Fit, IInv', Sequential \/ SequentialThrows
    PROVE  Faithful
<1>1. query.stands = "asked" /\ UNCHANGED <<mode, backend, hasher, seed, threads>>
  BY DEF Sequential, SequentialThrows, DrawA, DrawB, Shuffle, object
<1>2. CASE Sequential
  <2>1. ASSUME NEW r \in IF query.fixed THEN {FixedExps[1]} ELSE RandomExponents, DrawA(r) PROVE Continues(query)
    BY <1>1, <2>1, DrawsAreUnits, DrawRuns
  <2>2. ASSUME NEW r \in IF query.fixed THEN {FixedExps[2]} ELSE RandomExponents,
               NEW pi \in Shuffles(Len(query.b)), DrawB(r, pi)
        PROVE  Continues(query)
    BY <1>1, <2>2, DrawsAreUnits, DrawRuns
  <2>3. ASSUME NEW pi \in Shuffles(Len(query.a)), Shuffle(pi) PROVE Continues(query)
    BY <1>1, <2>3, ShuffleRuns
  <2>4. Continues(query)
    BY <1>2, <2>1, <2>2, <2>3 DEF Sequential
  <2>5. Fit'
    BY <1>1, <2>4, ContinuesFit
  <2>6. UNCHANGED BcgQuery
    BY <1>1, <2>4, ContinuesStands DEF Continues
  <2> QED BY <2>5, <2>6 DEF Faithful
<1>3. CASE SequentialThrows
  <2>1. /\ DOMAIN query' = DOMAIN Idle /\ query'.stands = "refused"
        /\ query'.x = query.x /\ query'.y = query.y /\ query'.asked = query.asked /\ query'.answer = query.answer
    BY <1>1, <1>3, EndIs DEF SequentialThrows, Refuse
  <2>2. \A s \in Tids : worker'[s].next \in Int /\ worker'[s].last \in Int
    BY <1>3 DEF SequentialThrows, Fit
  <2>3. Fit'
    BY <1>1, <2>1, <2>2, OverFit
  <2>4. Promise!Refuse(1)
    BY <1>1, <2>1, RefuseImplements
  <2> QED BY <2>3, <2>4 DEF Faithful, Promise!Next
<1> QED BY <1>2, <1>3

\* One lemma per group of actions.
LEMMA NextFaithful == Fit /\ [Next]_vars => Faithful
<1> SUFFICES ASSUME Fit, [Next]_vars PROVE Faithful
  OBVIOUS
<1>0. IInv'
  <2>1. TeamSized
    BY Bcg12Assumption DEF Fit, Steady, TeamSized
  <2> QED BY <2>1, NextIInv DEF Fit
<1>1. CASE Setup \/ (\E s \in Seeds : SetHashSeed(s)) \/ (\E count \in 1 .. MaxThreads : SetThreads(count))
  <2>1. Fit' /\ UNCHANGED <<mode, query>>
    BY <1>0, <1>1, SetUpFit
  <2>2. StandOf(mode', query') = StandOf(mode, query)
    BY <2>1
  <2> QED BY <2>1, <2>2, Stutters DEF Faithful
<1>2. ASSUME NEW x \in Sets, NEW y \in Sets, NEW fixed \in BOOLEAN, RunQuery(x, y, fixed) PROVE Faithful
  <2>1. UNCHANGED <<mode, backend, hasher, seed, threads>>
    BY <1>2 DEF RunQuery, object
  <2>2. Fit'
    <3>1. /\ DOMAIN query' = DOMAIN Idle
          /\ \A t \in Tids : worker'[t].next \in Int /\ worker'[t].last \in Int
          /\ query'.stands = "refused" \/ (query'.stands = "asked" /\ Running')
      BY <1>2, RunQueryRuns
    <3> QED BY <1>0, <2>1, <3>1 DEF Fit, Steady
  <2>3. Promise!Ask(1)
    BY <1>2, AskImplements
  <2> QED BY <2>2, <2>3 DEF Faithful, Promise!Next
<1>3. CASE \E t \in Tids : CallStep(t)
  BY <1>0, <1>3, CallFaithful
<1>4. CASE Join
  BY <1>0, <1>4, JoinFaithful
<1>5. CASE Sequential \/ SequentialThrows
  BY <1>0, <1>5, SequentialFaithful
<1>6. CASE Leave
  <2>1. query' = Idle /\ UNCHANGED <<mode, backend, hasher, seed, threads, worker>>
    BY <1>6 DEF Leave, object
  <2>2. Fit'
    <3>1. Idle.stands = "idle"
      BY DEF Idle
    <3> QED BY <1>0, <2>1, <3>1 DEF Fit, Steady
  <2>3. Promise!Leave(1)
    BY <1>6, LeaveImplements
  <2> QED BY <2>2, <2>3 DEF Faithful, Promise!Next
<1>7. CASE UNCHANGED vars
  <2>1. UNCHANGED <<mode, backend, hasher, seed, threads, query, worker>>
    BY <1>7 DEF vars, object
  <2>2. StandOf(mode', query') = StandOf(mode, query)
    BY <2>1
  <2>3. UNCHANGED BcgQuery
    BY <2>2, Stutters
  <2>4. CASE query.stands # "asked"
    BY <1>0, <2>1, <2>3, <2>4 DEF Fit, Steady, Faithful
  <2>5. CASE query.stands = "asked"
    <3>1. Running /\ Running'
      <4>1. Running
        BY <2>5 DEF Fit
      <4>2. \A i : Computed(query.phase, i)' = Computed(query.phase, i)
        BY <2>1 DEF Computed, HashToGroup
      <4>3. Looped'
        BY <2>1, <4>1, <4>2 DEF Running, Looped
      <4> QED BY <2>1, <4>1, <4>3 DEF Running
    <3> QED BY <1>0, <2>1, <2>3, <2>5, <3>1 DEF Fit, Steady, Faithful
  <2> QED BY <2>4, <2>5
<1> QED BY <1>1, <1>2, <1>3, <1>4, <1>5, <1>6, <1>7 DEF Next, Advance

\* Whatever the team, the group, the exponents, the shuffles and the interleaving of
\* the threads, a query of BCG12 and DGT12 returns the similarity of its two sets under
\* the seed in force when it began, or throws, or its process dies.
THEOREM BcgImplements == Spec => AnswersExactly
<1>1. Init => Fit /\ Promise!Init
  <2> SUFFICES ASSUME Init PROVE Promise!Init
    BY InitFit
  <2>1. query = Idle
    BY DEF Init
  <2>2. Standing = Promise!Idle
    BY <2>1 DEF Standing, Idle, Promise!Idle
  <2> QED BY <2>2 DEF Promise!Init
<1>2. Fit /\ [Next]_vars => Fit'
  BY NextFaithful DEF Faithful
<1>3. Fit /\ [Next]_vars => [Promise!Next]_<<[c \in {1} |-> Standing], FALSE>>
  <2>1. FALSE' = FALSE
    OBVIOUS
  <2> QED BY <2>1, NextFaithful DEF Faithful, BcgQuery
<1> QED BY <1>1, <1>2, <1>3, PTL DEF Spec, AnswersExactly, Promise!Spec

==============================================================================
