---------------------------- MODULE ProtocolProofs ----------------------------
(* The objects of src/protocol/: what is proved of PiccardLifecycle, and after *)
(* it of CiphertextStore. *)
EXTENDS PiccardLifecycle, CiphertextStore, TLAPS

(***************************************************************************)
(* What a protocol object guarantees through any sequence of construction  *)
(* calls, each returning or throwing anywhere: for all kinds of objects,   *)
(* all configurations, any seeds and any bound on key pairs.               *)
(*                                                                         *)
(* The encoder is the witness: outside the engine it is set in the last    *)
(* assignment of InitializeContextOnly, after every check, and nothing     *)
(* touches context or parameters afterwards (EncoderLast); the engine may  *)
(* make a new context under an old encoder, but asking OpenFHE again for   *)
(* what it realized realizes the same (RealizedAgain).                     *)
(***************************************************************************)

\* Outside the engine an object with an encoder has a verified context and has
\* adopted its ring dimension.
EncoderLast ==
    kind # "Engine" /\ encoder # 0 =>
        /\ bfv.made /\ Verified
        /\ params.ring = encoder /\ encoder = bfv.cc
        /\ config.sized /\ params.adopted

\* The engine writes the ring dimension with the encoder, and keys are made on a
\* verified context of what the parameters still realize.
EngineRealized ==
    kind = "Engine" =>
        /\ encoder # 0 => params.ring = encoder /\ Realized = encoder
        /\ bfv.key # 0 => Verified /\ bfv.cc = Realized

\* Rotation and multiplication keys come with a pair, in that order, and the
\* rotation plan is made for runtime_ring_dim_, which a context always has and
\* which is no smaller than the parameters' ring dimension.
KeysInOrder ==
    /\ bfv.made => bfv.runtime # 0 /\ params.ring <= bfv.runtime
    /\ bfv.rot # 0 => bfv.rot = bfv.runtime /\ bfv.mult /\ bfv.key # 0
    /\ bfv.mult => bfv.key # 0

IInv ==
    /\ TypeOK
    /\ EncoderLast
    /\ EngineRealized
    /\ KeysInOrder
    /\ HasherFollowsSeed
    /\ ThresholdAnswers

------------------------------------------------------------------------------
\* A realized ring dimension is a positive number, at least the one asked for.
LEMMA RealizedType ==
    ASSUME TypeOK
    PROVE  Realized \in Nat \ {0} /\ Needed \in Nat \ {0} /\ params.ring <= Realized
BY ConfigAssumption DEF TypeOK, Realized, Needed

\* Realizing the realized ring dimension changes nothing.
LEMMA RealizedAgain ==
    ASSUME TypeOK, params'.ring = Realized, config' = config
    PROVE  Realized' = Realized
BY ConfigAssumption DEF TypeOK, Realized, Needed

Contexts == [made : BOOLEAN, cc : Nat, runtime : Nat, adopted : BOOLEAN,
             key : Nat, mult : BOOLEAN, rot : Nat]

Keyless(r) == /\ r \in Contexts /\ r.made = TRUE
              /\ r.runtime # 0 /\ params.ring <= r.runtime
              /\ r.key = 0 /\ r.mult = FALSE /\ r.rot = 0

\* The context records, field by field.
LEMMA NewContextIs ==
    ASSUME TypeOK
    PROVE  Keyless(NewContext) /\ NewContext.cc = 0 /\ NewContext.runtime = params.ring
  <1>1. params.ring \in Nat \ {0} /\ params.ring <= params.ring
    BY DEF TypeOK
  <1>2. /\ NewContext \in Contexts /\ NewContext.made = TRUE /\ NewContext.cc = 0
        /\ NewContext.runtime = params.ring
        /\ NewContext.key = 0 /\ NewContext.mult = FALSE /\ NewContext.rot = 0
    BY <1>1 DEF NewContext, NoContext, Contexts
  <1> QED BY <1>1, <1>2 DEF Keyless

LEMMA WithCcIs ==
    ASSUME TypeOK, NEW n \in Nat \ {0}, params.ring <= n
    PROVE  Keyless(WithCc(n)) /\ WithCc(n).cc = n /\ WithCc(n).runtime = n
BY NewContextIs DEF WithCc, Contexts, Keyless

LEMMA AcceptedIs ==
    ASSUME TypeOK
    PROVE  /\ Keyless(Accepted)
           /\ Accepted.cc = Realized /\ Accepted.runtime = Realized
           /\ Accepted.adopted = config.sized
  <1>1. config.sized \in BOOLEAN /\ Realized \in Nat \ {0} /\ params.ring <= Realized
    BY ConfigAssumption, RealizedType DEF TypeOK
  <1> QED BY <1>1, WithCcIs DEF Accepted, Contexts, Keyless

\* A context that passed its checks is verified.
LEMMA AcceptedVerified ==
    ASSUME TypeOK, ContextPasses
    PROVE  /\ Packs(Realized)
           /\ config.contract \in {"absent", "good"}
           /\ config.sized => config.fits /\ Realized = config.calibrated
  <1>1. Packs(Realized) /\ RowAgrees(Realized) /\ Adoptable(Realized)
        /\ (config.sized => config.fits)
    BY DEF ContextPasses
  <1>2. config.contract \in {"absent", "good"}
    BY <1>1 DEF RowAgrees
  <1>3. config.sized => Realized = config.calibrated
    BY <1>1 DEF Adoptable
  <1> QED BY <1>1, <1>2, <1>3

\* What a throw leaves behind is a context without keys.
LEMMA RejectedKeyless ==
    ASSUME TypeOK, NEW r \in Rejected
    PROVE  Keyless(r)
  <1>1. config.auto \in Nat
    BY ConfigAssumption DEF TypeOK
  <1>2. \/ r = NewContext
        \/ r = [NewContext EXCEPT !.cc = config.auto]
        \/ r = WithCc(Realized)
        \/ r = Accepted
    BY DEF Rejected
  <1>3. CASE r = NewContext
    BY <1>3, NewContextIs
  <1>4. CASE r = [NewContext EXCEPT !.cc = config.auto]
    BY <1>1, <1>4, NewContextIs DEF Contexts, Keyless
  <1>5. CASE r = WithCc(Realized)
    BY <1>5, WithCcIs, RealizedType
  <1>6. CASE r = Accepted
    BY <1>6, AcceptedIs
  <1> QED BY <1>2, <1>3, <1>4, <1>5, <1>6

\* Key generation on c, to its end or not, adds keys only.
LEMMA KeysAdded ==
    ASSUME TypeOK, NEW r \in Contexts, GenerateKeys(r),
           r.key = 0 => r.mult = FALSE /\ r.rot = 0
    PROVE  /\ r.key = 0
           /\ bfv' \in Contexts
           /\ bfv'.made = r.made /\ bfv'.cc = r.cc /\ bfv'.runtime = r.runtime
           /\ bfv'.adopted = r.adopted
           /\ bfv'.rot # 0 => bfv'.rot = bfv'.runtime /\ bfv'.mult = TRUE /\ bfv'.key # 0
           /\ bfv'.mult = TRUE => bfv'.key # 0
           /\ keys' \in 0..MaxKeys /\ bfv'.key <= keys'
           /\ bfv' = WithAllKeys(r) => bfv'.mult = TRUE /\ bfv'.rot = r.runtime
  <1> DEFINE pair == [r EXCEPT !.key = keys + 1]
             mult == [pair EXCEPT !.mult = TRUE]
             all == [mult EXCEPT !.rot = r.runtime]
  <1>1. keys \in Nat /\ keys \in 0..MaxKeys
    BY KeyAssumption DEF TypeOK
  <1>2. r.key = 0 /\ r.cc # 0
    BY DEF GenerateKeys, KeysRefused
  <1>3. pair = WithPair(r) /\ mult = WithMult(r) /\ all = WithAllKeys(r)
    BY DEF WithPair, WithMult, WithAllKeys
  <1>4. pair \in Contexts /\ pair.made = r.made /\ pair.cc = r.cc
        /\ pair.runtime = r.runtime /\ pair.adopted = r.adopted /\ pair.key = keys + 1
        /\ pair.mult = FALSE /\ pair.rot = 0
    BY <1>1, <1>2 DEF Contexts
  <1> HIDE DEF pair
  <1>5. mult \in Contexts /\ mult.made = r.made /\ mult.cc = r.cc
        /\ mult.runtime = r.runtime /\ mult.adopted = r.adopted /\ mult.key = keys + 1
        /\ mult.mult = TRUE /\ mult.rot = 0
    BY <1>4 DEF Contexts
  <1> HIDE DEF mult
  <1>6. all \in Contexts /\ all.made = r.made /\ all.cc = r.cc
        /\ all.runtime = r.runtime /\ all.adopted = r.adopted /\ all.key = keys + 1
        /\ all.mult = TRUE /\ all.rot = r.runtime
    BY <1>5 DEF Contexts
  <1> HIDE DEF all
  <1>7. CASE bfv' = r /\ keys' = keys
    <2>1. r # all
      BY <1>1, <1>2, <1>6
    <2> QED BY <1>1, <1>2, <1>3, <1>7, <2>1
  <1>8. CASE keys < MaxKeys /\ keys' = keys + 1 /\ bfv' \in {pair, mult, all}
    <2>1. keys' \in 0..MaxKeys
      BY <1>1, <1>8, KeyAssumption
    <2>2. bfv'.key = keys' /\ bfv'.key # 0
      BY <1>1, <1>4, <1>5, <1>6, <1>8
    <2> QED BY <1>1, <1>2, <1>3, <1>4, <1>5, <1>6, <1>8, <2>1, <2>2
  <1> QED BY <1>3, <1>7, <1>8 DEF GenerateKeys

------------------------------------------------------------------------------
LEMMA InitIInv == Init => IInv
  <1> SUFFICES ASSUME Init PROVE IInv
    OBVIOUS
  <1>1. PICK s \in Seeds :
          params = [ring |-> config.ring, adopted |-> FALSE, dirty |-> FALSE, seed |-> s]
    BY DEF Init
  <1>2. config.ring \in Nat \ {0}
    BY ConfigAssumption DEF Init
  <1>3. NoContext \in Contexts /\ NoContext.key = 0 /\ NoContext.mult = FALSE
        /\ NoContext.rot = 0 /\ NoContext.made = FALSE
    BY DEF NoContext, Contexts
  <1>4. TypeOK
    <2>1. params \in [ring : Nat \ {0}, adopted : BOOLEAN, dirty : BOOLEAN, seed : Seeds]
      BY <1>1, <1>2
    <2>2. keys \in 0..MaxKeys /\ bfv.key <= keys /\ hasher \in Seeds \cup {NoSeed}
      BY <1>3, KeyAssumption DEF Init
    <2> QED BY <1>3, <2>1, <2>2 DEF Init, TypeOK, Contexts
  <1>5. bfv = NoContext /\ encoder = 0 /\ poly = FALSE /\ hasher = NoSeed
    BY DEF Init
  <1> QED
    BY <1>3, <1>4, <1>5
       DEF IInv, EncoderLast, EngineRealized, KeysInOrder, HasherFollowsSeed,
           ThresholdAnswers

------------------------------------------------------------------------------
(* Steps *)

\* Without a context there are no keys and no polynomial; outside the engine no
\* encoder either.
LEMMA NothingBeforeContext ==
    ASSUME IInv, ~bfv.made
    PROVE  bfv.key = 0 /\ poly = FALSE /\ (kind # "Engine" => encoder = 0)
  <1>1. bfv.key = 0 /\ bfv.mult = FALSE
    BY DEF IInv, TypeOK, NoContext
  <1> QED BY <1>1 DEF IInv, TypeOK, ThresholdAnswers, EncoderLast

\* A throw on the way to a context leaves one without keys, or none.
LEMMA ThrowKeeps ==
    ASSUME IInv, kind # "Engine", ~bfv.made, Keyless(bfv'), hasher' = params.seed,
           UNCHANGED <<kind, config, params, encoder, poly, keys>>
    PROVE  IInv'
  <1>1. poly = FALSE /\ encoder = 0
    BY NothingBeforeContext
  <1>2. params.seed \in Seeds /\ keys \in Nat /\ keys \in 0..MaxKeys
    BY KeyAssumption DEF IInv, TypeOK
  <1>3. TypeOK'
    BY <1>2 DEF IInv, TypeOK, Keyless, Contexts
  <1>4. KeysInOrder' /\ HasherFollowsSeed' /\ ThresholdAnswers'
    BY <1>1 DEF Keyless, KeysInOrder, HasherFollowsSeed, ThresholdAnswers
  <1>5. EncoderLast' /\ EngineRealized'
    BY <1>1 DEF EncoderLast, EngineRealized
  <1> QED BY <1>3, <1>4, <1>5 DEF IInv

\* An accepted context, with or without keys, is verified.
LEMMA AcceptedStays ==
    ASSUME TypeOK, ContextPasses, config' = config,
           bfv'.cc = Realized, bfv'.runtime = Realized, bfv'.adopted = config.sized
    PROVE  Verified'
BY AcceptedVerified, RealizedType DEF Verified, Packs

\* The last assignments of InitializeContextOnly.
LEMMA ReadyKeeps ==
    ASSUME IInv, kind # "Engine", ContextPasses, config.sized,
           params' = [params EXCEPT !.ring = Realized, !.adopted = TRUE],
           encoder' = Realized, hasher' = params.seed,
           bfv'.made = TRUE, bfv'.cc = Realized, bfv'.runtime = Realized,
           bfv'.adopted = config.sized,
           UNCHANGED <<kind, config>>
    PROVE  /\ EncoderLast' /\ EngineRealized' /\ HasherFollowsSeed'
           /\ params' \in [ring : Nat \ {0}, adopted : BOOLEAN, dirty : BOOLEAN, seed : Seeds]
           /\ hasher' \in Seeds /\ encoder' \in Nat
  <1>1. TypeOK /\ Realized \in Nat \ {0}
    BY RealizedType DEF IInv
  <1>2. /\ params'.ring = Realized /\ params'.adopted = TRUE /\ params'.seed = params.seed
        /\ params' \in [ring : Nat \ {0}, adopted : BOOLEAN, dirty : BOOLEAN, seed : Seeds]
    BY <1>1 DEF TypeOK
  <1>3. Verified'
    BY <1>1, AcceptedStays
  <1>4. params.seed \in Seeds
    BY <1>1 DEF TypeOK
  <1> QED BY <1>1, <1>2, <1>3, <1>4 DEF EncoderLast, EngineRealized, HasherFollowsSeed

LEMMA SetHashSeedKeeps == ASSUME IInv, SetHashSeed PROVE IInv'
  <1>1. PICK s \in Seeds :
            /\ params' = [params EXCEPT !.seed = s]
            /\ hasher' = IF hasher # NoSeed THEN s ELSE hasher
    BY DEF SetHashSeed
  <1>2. /\ params'.ring = params.ring /\ params'.adopted = params.adopted /\ params'.seed = s
        /\ params' \in [ring : Nat \ {0}, adopted : BOOLEAN, dirty : BOOLEAN, seed : Seeds]
    BY <1>1 DEF IInv, TypeOK
  <1>3. kind # "Engine" /\ UNCHANGED <<kind, config, bfv, encoder, poly, keys>>
    BY DEF SetHashSeed
  <1>4. TypeOK'
    BY <1>1, <1>2, <1>3 DEF IInv, TypeOK
  <1>5. EncoderLast' /\ EngineRealized'
    BY <1>2, <1>3 DEF IInv, EncoderLast, EngineRealized, Verified, Packs
  <1>6. KeysInOrder' /\ HasherFollowsSeed' /\ ThresholdAnswers'
    BY <1>1, <1>2, <1>3 DEF IInv, KeysInOrder, HasherFollowsSeed, ThresholdAnswers
  <1> QED BY <1>4, <1>5, <1>6 DEF IInv

LEMMA ThrowLeavesKeyless ==
    ASSUME TypeOK, ContextThrows \/ AdoptionThrows
    PROVE  /\ Keyless(bfv') /\ ~bfv.made /\ hasher' = params.seed
           /\ UNCHANGED <<params, encoder>>
BY RejectedKeyless, AcceptedIs DEF ContextThrows, AdoptionThrows

LEMMA InitializeContextOnlyKeeps == ASSUME IInv, InitializeContextOnly PROVE IInv'
  <1>1. kind # "Engine" /\ UNCHANGED <<kind, config, poly, keys>> /\ TypeOK
    BY DEF InitializeContextOnly, Fixed, IInv
  <1>2. CASE ContextThrows \/ AdoptionThrows
    BY <1>1, <1>2, ThrowLeavesKeyless, ThrowKeeps
  <1>3. CASE ContextReady
    <2>1. Keyless(bfv') /\ bfv'.cc = Realized /\ bfv'.runtime = Realized
          /\ bfv'.adopted = config.sized
      BY <1>1, <1>3, AcceptedIs DEF ContextReady
    <2>2. poly = FALSE
      BY <1>3, NothingBeforeContext DEF ContextReady
    <2>3. /\ EncoderLast' /\ EngineRealized' /\ HasherFollowsSeed'
          /\ params' \in [ring : Nat \ {0}, adopted : BOOLEAN, dirty : BOOLEAN, seed : Seeds]
          /\ hasher' \in Seeds /\ encoder' \in Nat
      BY <1>1, <1>3, <2>1, ReadyKeeps DEF ContextReady, Keyless
    <2>4. keys \in 0..MaxKeys /\ 0 <= keys
      BY <1>1, KeyAssumption DEF TypeOK
    <2>5. TypeOK'
      BY <1>1, <2>1, <2>3, <2>4 DEF TypeOK, Keyless, Contexts
    <2>6. KeysInOrder' /\ ThresholdAnswers'
      <3>1. params'.ring = Realized
        BY <1>1, <1>3 DEF ContextReady, TypeOK
      <3>2. params'.ring <= bfv'.runtime
        BY <1>1, <2>1, <3>1, RealizedType
      <3> QED BY <1>1, <2>1, <2>2, <3>2 DEF KeysInOrder, ThresholdAnswers, Keyless
    <2> QED BY <2>3, <2>5, <2>6 DEF IInv
  <1> QED BY <1>2, <1>3 DEF InitializeContextOnly

\* Key generation in a call: the keys, and with all of them the polynomial.
LEMMA KeysKept ==
    ASSUME IInv, NEW r \in Contexts, GenerateKeys(r), r.made = TRUE,
           r.runtime # 0, params'.ring <= r.runtime,
           r.key = 0 => r.mult = FALSE /\ r.rot = 0,
           BuildPoly(bfv' = WithAllKeys(r)), poly = FALSE, UNCHANGED <<kind, config>>
    PROVE  KeysInOrder' /\ ThresholdAnswers' /\ poly' \in BOOLEAN
  <1>1. TypeOK
    BY DEF IInv
  <1>2. /\ bfv' \in Contexts
        /\ bfv'.runtime = r.runtime
        /\ bfv'.rot # 0 => bfv'.rot = bfv'.runtime /\ bfv'.mult = TRUE /\ bfv'.key # 0
        /\ bfv'.mult = TRUE => bfv'.key # 0
        /\ bfv' = WithAllKeys(r) => bfv'.mult = TRUE /\ bfv'.rot = r.runtime
    BY <1>1, KeysAdded
  <1>3. KeysInOrder'
    BY <1>2 DEF KeysInOrder, Contexts
  <1>4. CASE poly' = FALSE
    BY <1>3, <1>4 DEF ThresholdAnswers
  <1>5. CASE poly' # FALSE
    <2>1. poly' = TRUE /\ kind = "Threshold" /\ config.tauOk /\ bfv' = WithAllKeys(r)
      BY <1>5 DEF BuildPoly
    <2> QED BY <1>2, <1>3, <2>1 DEF ThresholdAnswers
  <1> QED BY <1>4, <1>5

LEMMA KeyGenFromContextKeeps == ASSUME IInv, KeyGenFromContext PROVE IInv'
  <1>1. kind # "Engine" /\ ~bfv.made /\ UNCHANGED <<kind, config>> /\ TypeOK
    BY DEF KeyGenFromContext, Fixed, IInv
  <1>2. CASE (ContextThrows \/ AdoptionThrows) /\ UNCHANGED <<poly, keys>>
    BY <1>1, <1>2, ThrowLeavesKeyless, ThrowKeeps
  <1>3. CASE /\ ContextPasses /\ config.sized
             /\ hasher' = params.seed
             /\ params' = [params EXCEPT !.ring = Realized, !.adopted = TRUE]
             /\ encoder' = Realized
             /\ GenerateKeys(Accepted)
             /\ BuildPoly(bfv' = WithAllKeys(Accepted))
    <2>1. Keyless(Accepted) /\ Accepted.cc = Realized /\ Accepted.runtime = Realized
          /\ Accepted.adopted = config.sized
      BY <1>1, AcceptedIs
    <2>2. /\ bfv' \in Contexts /\ bfv'.made = TRUE /\ bfv'.cc = Realized
          /\ bfv'.runtime = Realized /\ bfv'.adopted = config.sized
          /\ keys' \in 0..MaxKeys /\ bfv'.key <= keys'
      BY <1>1, <1>3, <2>1, KeysAdded DEF Keyless
    <2>3. poly = FALSE
      BY <1>1, NothingBeforeContext
    <2>4. /\ EncoderLast' /\ EngineRealized' /\ HasherFollowsSeed'
          /\ params' \in [ring : Nat \ {0}, adopted : BOOLEAN, dirty : BOOLEAN, seed : Seeds]
          /\ hasher' \in Seeds /\ encoder' \in Nat
      BY <1>1, <1>3, <2>2, ReadyKeeps
    <2>5. KeysInOrder' /\ ThresholdAnswers' /\ poly' \in BOOLEAN
      <3>1. params'.ring = Realized
        BY <1>1, <1>3 DEF TypeOK
      <3>2. params'.ring <= Accepted.runtime
        BY <1>1, <2>1, <3>1, RealizedType
      <3> QED BY <1>1, <1>3, <2>1, <2>3, <3>2, KeysKept DEF Keyless
    <2>6. TypeOK'
      BY <1>1, <2>2, <2>4, <2>5 DEF TypeOK, Contexts
    <2> QED BY <2>4, <2>5, <2>6 DEF IInv
  <1> QED BY <1>2, <1>3 DEF KeyGenFromContext

LEMMA KeyGenOnlyKeeps == ASSUME IInv, KeyGenOnly PROVE IInv'
  <1>1. /\ kind # "Engine" /\ bfv.made /\ TypeOK /\ KeysInOrder
        /\ GenerateKeys(bfv) /\ BuildPoly(bfv' = WithAllKeys(bfv))
        /\ UNCHANGED <<kind, config, params, hasher, encoder>>
    BY DEF KeyGenOnly, Fixed, IInv
  <1>2. /\ bfv \in Contexts /\ bfv.made = TRUE
        /\ bfv.runtime # 0 /\ params'.ring <= bfv.runtime
        /\ bfv.key = 0 => bfv.mult = FALSE /\ bfv.rot = 0
    BY <1>1 DEF TypeOK, Contexts, KeysInOrder
  <1>3. /\ bfv' \in Contexts /\ bfv'.made = TRUE /\ bfv'.cc = bfv.cc /\ bfv.key = 0
        /\ bfv'.runtime = bfv.runtime /\ bfv'.adopted = bfv.adopted
        /\ keys' \in 0..MaxKeys /\ bfv'.key <= keys'
    BY <1>1, <1>2, KeysAdded
  <1>4. poly = FALSE
    BY <1>2, <1>3 DEF IInv, TypeOK, ThresholdAnswers
  <1>5. KeysInOrder' /\ ThresholdAnswers' /\ poly' \in BOOLEAN
    BY <1>1, <1>2, <1>4, KeysKept
  <1>6. EncoderLast' /\ EngineRealized' /\ HasherFollowsSeed'
    BY <1>1, <1>3
       DEF IInv, EncoderLast, EngineRealized, HasherFollowsSeed, Verified, Packs
  <1>7. TypeOK'
    BY <1>1, <1>3, <1>5 DEF TypeOK, Contexts
  <1> QED BY <1>5, <1>6, <1>7 DEF IInv

LEMMA EngineInitializeKeeps == ASSUME IInv, EngineInitialize PROVE IInv'
  <1>1. /\ kind = "Engine" /\ hasher' = params.seed /\ TypeOK
        /\ UNCHANGED <<kind, config, poly>>
    BY DEF EngineInitialize, Fixed, IInv
  <1>2. poly = FALSE /\ params.seed \in Seeds /\ keys \in Nat /\ keys \in 0..MaxKeys
    BY <1>1, KeyAssumption DEF IInv, TypeOK, ThresholdAnswers
  <1>3. CASE bfv' \in Rejected /\ UNCHANGED <<params, encoder, keys>>
    <2>1. Keyless(bfv')
      BY <1>1, <1>3, RejectedKeyless
    <2>2. TypeOK'
      BY <1>1, <1>2, <1>3, <2>1 DEF TypeOK, Keyless, Contexts
    <2>3. KeysInOrder' /\ ThresholdAnswers' /\ HasherFollowsSeed' /\ EncoderLast'
      BY <1>1, <1>2, <1>3, <2>1
         DEF Keyless, KeysInOrder, ThresholdAnswers, HasherFollowsSeed, EncoderLast
    <2>4. EngineRealized'
      BY <1>1, <1>3, <2>1 DEF IInv, EngineRealized, Realized, Needed, Keyless
    <2> QED BY <2>2, <2>3, <2>4 DEF IInv
  <1>4. CASE /\ ContextPasses /\ GenerateKeys(Accepted)
             /\ IF bfv' = WithAllKeys(Accepted)
                THEN /\ params' = [params EXCEPT !.ring = Realized,
                                                 !.dirty = @ \/ Realized # params.ring]
                     /\ encoder' = Realized
                ELSE UNCHANGED <<params, encoder>>
    <2>1. Keyless(Accepted) /\ Accepted.cc = Realized /\ Accepted.runtime = Realized
          /\ Accepted.adopted = config.sized /\ Realized \in Nat \ {0}
      BY <1>1, AcceptedIs, RealizedType
    <2>2. /\ bfv' \in Contexts /\ bfv'.made = TRUE /\ bfv'.cc = Realized
          /\ bfv'.runtime = Realized /\ bfv'.adopted = config.sized
          /\ keys' \in 0..MaxKeys /\ bfv'.key <= keys'
          /\ bfv'.rot # 0 => bfv'.rot = bfv'.runtime /\ bfv'.mult = TRUE /\ bfv'.key # 0
          /\ bfv'.mult = TRUE => bfv'.key # 0
      BY <1>1, <1>4, <2>1, KeysAdded DEF Keyless
    <2>3. Verified'
      BY <1>1, <1>4, <2>2, AcceptedStays
    <2>4. /\ params' \in [ring : Nat \ {0}, adopted : BOOLEAN, dirty : BOOLEAN, seed : Seeds]
          /\ params'.seed = params.seed /\ encoder' \in Nat
          /\ \/ params'.ring = Realized /\ encoder' = Realized
             \/ params' = params /\ encoder' = encoder
      BY <1>1, <1>4, <2>1 DEF TypeOK
    <2>5. Realized' = Realized
      <3>1. CASE params'.ring = Realized
        BY <1>1, <3>1, RealizedAgain
      <3>2. CASE params' = params
        BY <1>1, <3>2 DEF Realized, Needed
      <3> QED BY <2>4, <3>1, <3>2
    <2>6. TypeOK'
      BY <1>1, <1>2, <2>2, <2>4 DEF TypeOK, Contexts
    <2>7. EngineRealized'
      BY <1>1, <2>2, <2>3, <2>4, <2>5 DEF IInv, EngineRealized
    <2>8. KeysInOrder' /\ ThresholdAnswers' /\ HasherFollowsSeed' /\ EncoderLast'
      <3>1. params'.ring <= bfv'.runtime
        BY <1>1, <2>1, <2>2, <2>4, RealizedType
      <3> QED BY <1>1, <1>2, <2>1, <2>2, <2>4, <3>1
         DEF KeysInOrder, ThresholdAnswers, HasherFollowsSeed, EncoderLast, Contexts
    <2> QED BY <2>6, <2>7, <2>8 DEF IInv
  <1> QED BY <1>3, <1>4 DEF EngineInitialize

LEMMA NextIInv == IInv /\ [Next]_vars => IInv'
  <1> SUFFICES ASSUME IInv, [Next]_vars PROVE IInv'
    OBVIOUS
  <1>1. CASE UNCHANGED vars
    BY <1>1
       DEF vars, IInv, TypeOK, EncoderLast, EngineRealized, KeysInOrder, HasherFollowsSeed,
           ThresholdAnswers, Verified, Packs, Realized, Needed
  <1> QED
    BY <1>1, SetHashSeedKeeps, InitializeContextOnlyKeeps, KeyGenFromContextKeeps,
       KeyGenOnlyKeeps, EngineInitializeKeeps
       DEF Next

\* The inductive invariant holds.
THEOREM SpecIInv == Spec => []IInv
BY InitIInv, NextIInv, PTL DEF Spec

------------------------------------------------------------------------------
(* What it implies *)

\* Fields keep their types, and a context that was never made is empty.
THEOREM TypeCorrect == Spec => []TypeOK
  <1>1. IInv => TypeOK
    BY DEF IInv
  <1> QED BY <1>1, SpecIInv, PTL

\* An object that can encrypt has passed every check of InitializeContextOnly and
\* has one ring dimension, whatever calls failed or were repeated before.
THEOREM UsableAlwaysVerified == Spec => []UsableVerified
  <1>1. IInv => UsableVerified
    <2> SUFFICES ASSUME IInv, CanEncrypt PROVE /\ Verified
                                               /\ params.ring = encoder /\ encoder = bfv.cc
                                               /\ kind # "Engine" => config.sized /\ params.adopted
      BY DEF UsableVerified
    <2> QED BY DEF CanEncrypt, IInv, EncoderLast, EngineRealized
  <1> QED BY <1>1, SpecIInv, PTL

\* Every rotation an evaluation asks for is in the plan the keys were made for.
THEOREM RotationsAlwaysCover == Spec => []RotationsCover
  <1>1. IInv => RotationsCover
    <2> SUFFICES ASSUME IInv, bfv.rot # 0
                 PROVE  /\ bfv.key # 0 /\ bfv.mult /\ params.ring <= bfv.rot
                        /\ CanEncrypt => bfv.rot = bfv.cc
      BY DEF RotationsCover
    <2>1. bfv.rot = bfv.runtime /\ bfv.mult /\ bfv.key # 0 /\ params.ring <= bfv.rot
      <3>1. bfv.made
        BY DEF IInv, TypeOK, NoContext
      <3> QED BY <3>1 DEF IInv, KeysInOrder
    <2>2. CanEncrypt => bfv.cc = bfv.runtime
      BY DEF CanEncrypt, IInv, EncoderLast, EngineRealized, Verified
    <2> QED BY <2>1, <2>2
  <1> QED BY <1>1, SpecIInv, PTL

\* The hasher uses the seed the parameters name.
THEOREM HasherAlwaysFollows == Spec => []HasherFollowsSeed
  <1>1. IInv => HasherFollowsSeed
    BY DEF IInv
  <1> QED BY <1>1, SpecIInv, PTL

\* A polynomial is there only with all keys and a tau in range.
THEOREM ThresholdAnswersOnly == Spec => []ThresholdAnswers
  <1>1. IInv => ThresholdAnswers
    BY DEF IInv
  <1> QED BY <1>1, SpecIInv, PTL

\* Outside the engine a key pair and its context are never replaced.
THEOREM KeysAlwaysStay == Spec => KeysStay
  <1>1. IInv /\ [Next]_vars =>
        [kind # "Engine" /\ bfv.key # 0 => bfv'.key = bfv.key /\ bfv'.cc = bfv.cc]_vars
    <2> SUFFICES ASSUME IInv, Next, kind # "Engine", bfv.key # 0
                 PROVE  bfv'.key = bfv.key /\ bfv'.cc = bfv.cc
      OBVIOUS
    <2>1. bfv.made
      BY NothingBeforeContext
    <2>2. ~GenerateKeys(bfv)
      BY DEF GenerateKeys, KeysRefused
    <2>3. SetHashSeed
      BY <2>1, <2>2
         DEF Next, InitializeContextOnly, ContextThrows, AdoptionThrows, ContextReady,
             KeyGenFromContext, KeyGenOnly, EngineInitialize
    <2> QED BY <2>3 DEF SetHashSeed
  <1> QED BY <1>1, SpecIInv, PTL DEF Spec, KeysStay

------------------------------------------------------------------------------
(***************************************************************************)
(* Proofs about CiphertextStore for every set of callers, names, parameter *)
(* and payload values and every largest epoch.                             *)
(*                                                                         *)
(* What a caller decided under the mutex stays true until it assigns,      *)
(* because nobody else can be between its own lock and unlock: that is     *)
(* DecisionStands, and every other property follows from it.               *)
(***************************************************************************)

\* The holder of the mutex is the one caller inside the critical section.
MutexInv == \A t \in Callers : pc[t] \in Locked <=> mutex = t

\* The arguments of a call past the first checks satisfy them, and a caller
\* about to assign still sees the slot it compared with.
DecisionStands ==
    \A t \in Callers :
        /\ pc[t] \in {"replace", "replaceLocked", "assign"} => Admissible(call[t])
        /\ pc[t] = "assign" =>
              Known(call[t]) /\ slot[call[t].owner].epoch = call[t].expected

StoreIInv ==
    /\ StoreTypeOK
    /\ MutexInv
    /\ DecisionStands
    /\ EpochCountsApplied
    /\ PairEvaluable
    /\ NoTornRead
    /\ RejectionTruthful

LEMMA StoreInitIInv == StoreInit => StoreIInv
  <1> SUFFICES ASSUME StoreInit PROVE StoreIInv
    OBVIOUS
  <1>1. StoreTypeOK
    <2>1. mutex \in Callers \cup {NoCaller} /\ outcome \in [Callers -> Outcomes]
      BY DEF StoreInit, Outcomes
    <2>2. pc \in [Callers -> {"idle", "replace", "read"} \cup Locked]
      BY DEF StoreInit
    <2>3. /\ call \in [Callers -> Calls \cup Envelopes \cup {NoCall}]
          /\ \A t \in Callers : call[t] \in LocalType(pc[t])
      BY DEF StoreInit, LocalType
    <2>4. applied \in [Owners -> Nat]
      BY DEF StoreInit
    <2>5. slot \in [Owners -> Envelopes] /\ \A o \in Owners : slot[o].owner = o
      BY DEF StoreInit
    <2>6. QED
      BY <2>1, <2>2, <2>3, <2>4, <2>5 DEF StoreTypeOK
  <1>2. MutexInv
    BY DomainAssumption DEF StoreInit, MutexInv, Locked
  <1>3. DecisionStands /\ NoTornRead
    BY DEF StoreInit, DecisionStands, NoTornRead
  <1>4. EpochCountsApplied /\ PairEvaluable
    BY DEF StoreInit, EpochCountsApplied, PairEvaluable
  <1>5. RejectionTruthful
    BY DEF StoreInit, RejectionTruthful, NoOutcome
  <1>6. QED
    BY <1>1, <1>2, <1>3, <1>4, <1>5 DEF StoreIInv

\* Assign is the only step that writes a slot: it writes the caller's own
\* admissible replacement, one epoch on, with the binding the slot had.
LEMMA AssignWrites ==
    ASSUME StoreIInv, NEW t \in Callers, Assign(t)
    PROVE  LET o == call[t].owner
               r == call[t].replacement
           IN  /\ call[t] \in Calls /\ o \in Owners /\ r \in Envelopes /\ r.owner = o
               /\ slot' = [slot EXCEPT ![o] = r]
               /\ r.epoch = slot[o].epoch + 1
               /\ ValidatePayload(r) /\ Binding(r) = Binding(slot[o])
               /\ call[t].expected = slot[o].epoch
               /\ slot[o].epoch < MaxEpoch
  <1>1. call[t] \in Calls
    BY DEF Assign, StoreIInv, StoreTypeOK, LocalType
  <1>2. Admissible(call[t]) /\ Known(call[t])
        /\ slot[call[t].owner].epoch = call[t].expected
    BY DEF Assign, StoreIInv, DecisionStands
  <1>3. call[t].expected \in 0..MaxEpoch /\ call[t].expected # MaxEpoch
    BY <1>1, <1>2 DEF Calls, Epochs, Admissible
  <1>4. call[t].replacement \in Envelopes /\ call[t].replacement.owner = call[t].owner
    BY <1>1, <1>2 DEF Calls, Admissible
  <1>5. QED
    BY <1>1, <1>2, <1>3, <1>4, DomainAssumption
       DEF Admissible, Known, SameImmutableBinding, SameSharedBinding, Assign

Points == {"idle", "replace", "read"} \cup Locked

\* A step that moves one caller and gives it locals of its new point.
LEMMA MoveTyped ==
    ASSUME StoreTypeOK, NEW t \in Callers, NEW at \in Points, NEW local \in LocalType(at),
           pc' = [pc EXCEPT ![t] = at],
           call' = [call EXCEPT ![t] = local] \/ (call' = call /\ local = call[t])
    PROVE  /\ pc' \in [Callers -> Points]
           /\ call' \in [Callers -> Calls \cup Envelopes \cup {NoCall}]
           /\ \A u \in Callers : call'[u] \in LocalType(pc'[u])
  <1>1. pc' \in [Callers -> Points]
    BY DEF StoreTypeOK, Points
  <1>2. local \in Calls \cup Envelopes \cup {NoCall}
    BY DEF LocalType
  <1>3. call' \in [Callers -> Calls \cup Envelopes \cup {NoCall}]
    BY <1>2 DEF StoreTypeOK
  <1>4. ASSUME NEW u \in Callers PROVE call'[u] \in LocalType(pc'[u])
    <2>1. CASE u = t
      <3>1. pc'[u] = at /\ call'[u] = local
        BY <2>1 DEF StoreTypeOK
      <3>2. QED
        BY <3>1
    <2>2. CASE u # t
      <3>1. pc'[u] = pc[u] /\ call'[u] = call[u]
        BY <2>2 DEF StoreTypeOK
      <3>2. QED
        BY <3>1 DEF StoreTypeOK
    <2>3. QED
      BY <2>1, <2>2
  <1>5. QED
    BY <1>1, <1>3, <1>4

LEMMA StoreNextTypeOK == StoreIInv /\ [StoreNext]_storeVars => StoreTypeOK'
  <1> SUFFICES ASSUME StoreIInv, [StoreNext]_storeVars PROVE StoreTypeOK'
    OBVIOUS
  <1> DEFINE Moved ==
        /\ pc' \in [Callers -> Points]
        /\ call' \in [Callers -> Calls \cup Envelopes \cup {NoCall}]
        /\ \A u \in Callers : call'[u] \in LocalType(pc'[u])
  <1>a. /\ StoreTypeOK
        /\ slot \in [Owners -> Envelopes] /\ \A o \in Owners : slot[o].owner = o
        /\ mutex \in Callers \cup {NoCaller}
        /\ outcome \in [Callers -> Outcomes] /\ applied \in [Owners -> Nat]
        /\ NoOutcome \in Outcomes
    BY DEF StoreIInv, StoreTypeOK, Outcomes
  <1>b. ASSUME NEW t \in Callers
        PROVE call[t] \in LocalType(pc[t])
    BY DEF StoreIInv, StoreTypeOK
  <1>c. /\ {"idle", "replace", "read", "replaceLocked", "assign", "readLocked", "readSecond"}
              \subseteq Points
        /\ LocalType("idle") = {NoCall} /\ LocalType("read") = {NoCall}
        /\ LocalType("readLocked") = {NoCall} /\ LocalType("readSecond") = Envelopes
        /\ LocalType("replace") = Calls /\ LocalType("replaceLocked") = Calls
        /\ LocalType("assign") = Calls
    BY DEF Points, Locked, LocalType
  <1>d. Moved /\ slot' \in [Owners -> Envelopes] /\ (\A o \in Owners : slot'[o].owner = o)
        /\ mutex' \in Callers \cup {NoCaller}
        /\ outcome' \in [Callers -> Outcomes] /\ applied' \in [Owners -> Nat]
        => StoreTypeOK'
    BY DEF StoreTypeOK, Points
  <1>1. ASSUME NEW t \in Callers, NEW c \in Calls, TryReplace(t, c) PROVE StoreTypeOK'
    <2>1. CASE Admissible(c)
      <3>1. Moved
        BY <1>1, <1>a, <1>c, <2>1, MoveTyped DEF TryReplace
      <3>2. QED
        BY <1>1, <1>a, <1>d, <3>1 DEF TryReplace
    <2>2. CASE ~Admissible(c)
      <3>1. pc' = pc /\ call' = call
        BY <1>1, <2>2 DEF TryReplace
      <3>2. Moved
        BY <3>1, <1>a DEF StoreTypeOK, Points
      <3>3. QED
        BY <1>1, <1>a, <1>d, <3>2 DEF TryReplace
    <2>3. QED
      BY <2>1, <2>2
  <1>2. ASSUME NEW t \in Callers, Lock(t, "replace", "replaceLocked") PROVE StoreTypeOK'
    <2>1. Moved
      BY <1>2, <1>a, <1>b, <1>c, MoveTyped, ZenonT(40) DEF Lock
    <2>2. QED
      BY <1>2, <1>a, <1>d, <2>1 DEF Lock
  <1>3. ASSUME NEW t \in Callers, Refuse(t) PROVE StoreTypeOK'
    <2>1. Moved
      BY <1>3, <1>a, <1>c, MoveTyped DEF Refuse, Return
    <2>2. QED
      BY <1>3, <1>a, <1>d, <2>1 DEF Refuse, Return
  <1>4. ASSUME NEW t \in Callers, RejectEpoch(t) PROVE StoreTypeOK'
    <2>1. call[t] \in Calls /\ call[t].owner \in Owners
      BY <1>b, <1>c, <1>4 DEF RejectEpoch, Matches, Known
    <2>2. slot[call[t].owner].epoch \in Epochs /\ call[t].expected \in Epochs
      BY <1>a, <2>1 DEF Envelopes, Calls
    <2>3. outcome' \in [Callers -> Outcomes]
      BY <1>a, <1>4, <2>1, <2>2 DEF RejectEpoch, Outcomes, Result
    <2>4. Moved
      BY <1>4, <1>a, <1>c, MoveTyped DEF RejectEpoch, Return
    <2>5. QED
      BY <1>4, <1>a, <1>d, <2>3, <2>4 DEF RejectEpoch, Return
  <1>5. ASSUME NEW t \in Callers, Accept(t) PROVE StoreTypeOK'
    <2>1. call[t] \in LocalType("assign") /\ "assign" \in Points
      BY <1>5, <1>b, <1>c DEF Accept, Matches
    <2>2. Moved
      BY <1>5, <1>a, <2>1, MoveTyped DEF Accept
    <2>3. QED
      BY <1>5, <1>a, <1>d, <2>2 DEF Accept
  <1>6. ASSUME NEW t \in Callers, Assign(t) PROVE StoreTypeOK'
    <2>1. /\ call[t] \in Calls /\ call[t].owner \in Owners
          /\ call[t].replacement \in Envelopes
          /\ call[t].replacement.owner = call[t].owner
          /\ slot' = [slot EXCEPT ![call[t].owner] = call[t].replacement]
      BY <1>6, AssignWrites
    <2>2. slot' \in [Owners -> Envelopes] /\ \A o \in Owners : slot'[o].owner = o
      BY <1>a, <2>1
    <2>3. outcome' \in [Callers -> Outcomes]
      <3>1. call[t].expected \in Epochs /\ call[t].replacement.epoch \in Epochs
        BY <2>1 DEF Calls, Envelopes
      <3>2. QED
        BY <1>a, <1>6, <2>1, <3>1 DEF Assign, Outcomes, Result
    <2>4. applied' \in [Owners -> Nat]
      BY <1>a, <1>6, <2>1 DEF Assign
    <2>5. Moved
      BY <1>6, <1>a, <1>c, MoveTyped DEF Assign, Return
    <2>6. QED
      BY <1>6, <1>d, <2>2, <2>3, <2>4, <2>5 DEF Assign, Return
  <1>7. ASSUME NEW t \in Callers, ReadPair(t) PROVE StoreTypeOK'
    <2>1. Moved
      BY <1>7, <1>a, <1>b, <1>c, MoveTyped DEF ReadPair
    <2>2. QED
      BY <1>7, <1>a, <1>d, <2>1 DEF ReadPair
  <1>8. ASSUME NEW t \in Callers, Lock(t, "read", "readLocked") PROVE StoreTypeOK'
    <2>1. Moved
      BY <1>8, <1>a, <1>b, <1>c, MoveTyped DEF Lock
    <2>2. QED
      BY <1>8, <1>a, <1>d, <2>1 DEF Lock
  <1>9. ASSUME NEW t \in Callers, CopyFirst(t) PROVE StoreTypeOK'
    <2>1. Moved
      BY <1>9, <1>a, <1>c, MoveTyped, OwnersAssumption DEF CopyFirst
    <2>2. QED
      BY <1>9, <1>a, <1>d, <2>1 DEF CopyFirst
  <1>10. ASSUME NEW t \in Callers, CopySecond(t) PROVE StoreTypeOK'
    <2>1. Moved
      BY <1>10, <1>a, <1>c, MoveTyped DEF CopySecond, Return
    <2>2. QED
      BY <1>10, <1>a, <1>d, <2>1 DEF CopySecond, Return
  <1>11. CASE UNCHANGED storeVars
    BY <1>a, <1>11 DEF storeVars, StoreTypeOK
  <1>12. QED
    BY <1>1, <1>2, <1>3, <1>4, <1>5, <1>6, <1>7, <1>8, <1>9, <1>10, <1>11 DEF StoreNext

\* Lock admits a caller only when nobody holds the mutex, and only the holder
\* releases it.
LEMMA NextMutexInv == StoreIInv /\ [StoreNext]_storeVars => MutexInv'
  <1> SUFFICES ASSUME StoreIInv, [StoreNext]_storeVars PROVE MutexInv'
    OBVIOUS
  <1>a. /\ pc \in [Callers -> {"idle", "replace", "read"} \cup Locked]
        /\ \A u \in Callers : pc[u] \in Locked <=> mutex = u
        /\ NoCaller \notin Callers
    BY DomainAssumption DEF StoreIInv, StoreTypeOK, MutexInv
  <1> USE <1>a DEF MutexInv, Locked
  <1>1. ASSUME NEW t \in Callers, NEW c \in Calls, TryReplace(t, c) PROVE MutexInv'
    BY <1>1 DEF TryReplace
  <1>2. ASSUME NEW t \in Callers, Lock(t, "replace", "replaceLocked") PROVE MutexInv'
    BY <1>2 DEF Lock
  <1>3. ASSUME NEW t \in Callers, Refuse(t) PROVE MutexInv'
    BY <1>3 DEF Refuse, Return
  <1>4. ASSUME NEW t \in Callers, RejectEpoch(t) PROVE MutexInv'
    BY <1>4 DEF RejectEpoch, Matches, Return
  <1>5. ASSUME NEW t \in Callers, Accept(t) PROVE MutexInv'
    BY <1>5 DEF Accept, Matches
  <1>6. ASSUME NEW t \in Callers, Assign(t) PROVE MutexInv'
    BY <1>6 DEF Assign, Return
  <1>7. ASSUME NEW t \in Callers, ReadPair(t) PROVE MutexInv'
    BY <1>7 DEF ReadPair
  <1>8. ASSUME NEW t \in Callers, Lock(t, "read", "readLocked") PROVE MutexInv'
    BY <1>8 DEF Lock
  <1>9. ASSUME NEW t \in Callers, CopyFirst(t) PROVE MutexInv'
    BY <1>9 DEF CopyFirst
  <1>10. ASSUME NEW t \in Callers, CopySecond(t) PROVE MutexInv'
    BY <1>10 DEF CopySecond, Return
  <1>11. CASE UNCHANGED storeVars
    BY <1>11 DEF storeVars
  <1>12. QED
    BY <1>1, <1>2, <1>3, <1>4, <1>5, <1>6, <1>7, <1>8, <1>9, <1>10, <1>11 DEF StoreNext

\* A caller at "assign" or "readSecond" holds the mutex, so the step that
\* writes a slot is its own.
LEMMA OnlyHolderInside ==
    ASSUME StoreIInv, NEW t \in Callers, NEW u \in Callers, pc[t] \in Locked, pc[u] \in Locked
    PROVE  t = u
  BY DEF StoreIInv, MutexInv

\* Steps other than Assign write no slot and no applied count.
LEMMA SlotsKept ==
    ASSUME [StoreNext]_storeVars
    PROVE  UNCHANGED <<slot, applied>> \/ \E t \in Callers : Assign(t)
  BY DEF StoreNext, storeVars, TryReplace, Lock, Refuse, RejectEpoch, Accept, ReadPair, CopyFirst,
         CopySecond

LEMMA NextDecisionStands == StoreIInv /\ [StoreNext]_storeVars => DecisionStands'
  <1> SUFFICES ASSUME StoreIInv, [StoreNext]_storeVars, NEW u \in Callers
               PROVE  /\ pc'[u] \in {"replace", "replaceLocked", "assign"} => Admissible(call'[u])
                      /\ pc'[u] = "assign" =>
                            /\ Known(call[u])'
                            /\ slot'[call'[u].owner].epoch = call'[u].expected
    BY DEF DecisionStands, Admissible, ValidatePayload
  <1>a. /\ pc \in [Callers -> {"idle", "replace", "read"} \cup Locked]
        /\ call \in [Callers -> Calls \cup Envelopes \cup {NoCall}]
    BY DEF StoreIInv, StoreTypeOK
  <1>b. /\ pc[u] \in {"replace", "replaceLocked", "assign"} => Admissible(call[u])
        /\ pc[u] = "assign" =>
              Known(call[u]) /\ slot[call[u].owner].epoch = call[u].expected
    BY DEF StoreIInv, DecisionStands
  <1> USE DEF Known, Return
  <1>1. ASSUME NEW t \in Callers, NEW c \in Calls, TryReplace(t, c)
        PROVE  /\ pc'[u] \in {"replace", "replaceLocked", "assign"} => Admissible(call'[u])
               /\ pc'[u] = "assign" =>
                     Known(call[u])' /\ slot'[call'[u].owner].epoch = call'[u].expected
    <2>1. CASE u = t /\ Admissible(c)
      BY <1>1, <1>a, <2>1 DEF TryReplace
    <2>2. CASE ~(u = t /\ Admissible(c))
      <3>1. pc'[u] = pc[u] /\ call'[u] = call[u] /\ slot' = slot
        BY <1>1, <1>a, <2>2 DEF TryReplace
      <3>2. QED
        BY <3>1, <1>b
    <2>3. QED
      BY <2>1, <2>2
  <1>2. ASSUME NEW t \in Callers, Assign(t)
        PROVE  /\ pc'[u] \in {"replace", "replaceLocked", "assign"} => Admissible(call'[u])
               /\ pc'[u] = "assign" =>
                     Known(call[u])' /\ slot'[call'[u].owner].epoch = call'[u].expected
    <2>1. CASE u = t
      BY <1>2, <1>a, <2>1 DEF Assign
    <2>2. CASE u # t
      <3>1. pc'[u] = pc[u] /\ call'[u] = call[u]
        BY <1>2, <1>a, <2>2 DEF Assign
      <3>2. pc[u] # "assign"
        BY <1>2, <2>2, OnlyHolderInside DEF Assign, Locked
      <3>3. QED
        BY <3>1, <3>2, <1>b
    <2>3. QED
      BY <2>1, <2>2
  <1>3. ASSUME NEW t \in Callers, Accept(t)
        PROVE  /\ pc'[u] \in {"replace", "replaceLocked", "assign"} => Admissible(call'[u])
               /\ pc'[u] = "assign" =>
                     Known(call[u])' /\ slot'[call'[u].owner].epoch = call'[u].expected
    <2>1. CASE u = t
      BY <1>3, <1>a, <1>b, <2>1 DEF Accept, Matches
    <2>2. CASE u # t
      BY <1>3, <1>a, <1>b, <2>2 DEF Accept
    <2>3. QED
      BY <2>1, <2>2
  <1>4. ASSUME NEW t \in Callers,
               \/ Lock(t, "replace", "replaceLocked") \/ Lock(t, "read", "readLocked")
               \/ Refuse(t) \/ RejectEpoch(t) \/ ReadPair(t) \/ CopyFirst(t) \/ CopySecond(t)
        PROVE  /\ pc'[u] \in {"replace", "replaceLocked", "assign"} => Admissible(call'[u])
               /\ pc'[u] = "assign" =>
                     Known(call[u])' /\ slot'[call'[u].owner].epoch = call'[u].expected
    <2>1. slot' = slot
      BY <1>4 DEF Lock, Refuse, RejectEpoch, ReadPair, CopyFirst, CopySecond
    <2>2. CASE u = t
      <3>1. pc'[u] # "assign"
        BY <1>4, <1>a, <2>2 DEF Lock, Refuse, RejectEpoch, ReadPair, CopyFirst, CopySecond
      <3>2. pc'[u] \in {"replace", "replaceLocked"} =>
                pc[u] = "replace" /\ call'[u] = call[u]
        BY <1>4, <1>a, <2>2 DEF Lock, Refuse, RejectEpoch, ReadPair, CopyFirst, CopySecond
      <3>3. QED
        BY <3>1, <3>2, <1>b
    <2>3. CASE u # t
      <3>1. pc'[u] = pc[u] /\ call'[u] = call[u]
        BY <1>4, <1>a, <2>3 DEF Lock, Refuse, RejectEpoch, ReadPair, CopyFirst, CopySecond
      <3>2. QED
        BY <3>1, <2>1, <1>b
    <2>4. QED
      BY <2>2, <2>3
  <1>5. CASE UNCHANGED storeVars
    BY <1>5, <1>b DEF storeVars
  <1>6. QED
    BY <1>1, <1>2, <1>3, <1>4, <1>5 DEF StoreNext

\* The epoch and the count of one owner move together, or not at all.
LEMMA NextEpochCounts == StoreIInv /\ [StoreNext]_storeVars => EpochCountsApplied'
  <1> SUFFICES ASSUME StoreIInv, [StoreNext]_storeVars, NEW o \in Owners PROVE slot'[o].epoch = applied'[o]
    BY DEF EpochCountsApplied
  <1>a. /\ slot[o].epoch = applied[o]
        /\ slot \in [Owners -> Envelopes] /\ applied \in [Owners -> Nat]
    BY DEF StoreIInv, StoreTypeOK, EpochCountsApplied
  <1>1. ASSUME NEW t \in Callers, Assign(t) PROVE slot'[o].epoch = applied'[o]
    <2>1. /\ call[t].owner \in Owners
          /\ slot' = [slot EXCEPT ![call[t].owner] = call[t].replacement]
          /\ call[t].replacement.epoch = slot[call[t].owner].epoch + 1
      BY <1>1, AssignWrites
    <2>2. applied' = [applied EXCEPT ![call[t].owner] = @ + 1]
      BY <1>1 DEF Assign
    <2>3. CASE o = call[t].owner
      BY <1>a, <2>1, <2>2, <2>3
    <2>4. CASE o # call[t].owner
      BY <1>a, <2>1, <2>2, <2>4
    <2>5. QED
      BY <2>3, <2>4
  <1>2. QED
    BY <1>a, <1>1, SlotsKept

\* Assign keeps the binding of the slot it writes, so the two slots stay
\* bound to each other.
LEMMA NextPairEvaluable == StoreIInv /\ [StoreNext]_storeVars => PairEvaluable'
  <1> SUFFICES ASSUME StoreIInv, [StoreNext]_storeVars PROVE PairEvaluable'
    OBVIOUS
  <1>a. /\ \A o, p \in Owners : Binding(slot[o]) = Binding(slot[p])
        /\ \A o \in Owners : ValidatePayload(slot[o])
        /\ slot \in [Owners -> Envelopes]
    BY DEF StoreIInv, StoreTypeOK, PairEvaluable, SameSharedBinding
  <1>1. ASSUME NEW t \in Callers, Assign(t) PROVE PairEvaluable'
    <2> DEFINE w == call[t].owner
               r == call[t].replacement
    <2>1. /\ w \in Owners /\ slot' = [slot EXCEPT ![w] = r]
          /\ ValidatePayload(r) /\ Binding(r) = Binding(slot[w])
      BY <1>1, AssignWrites
    <2> HIDE DEF w, r
    <2>2. ASSUME NEW o \in Owners
          PROVE  Binding(slot'[o]) = Binding(slot[o]) /\ ValidatePayload(slot'[o])
      <3>1. CASE o = w
        <4>1. slot'[o] = r
          BY <2>1, <3>1, <1>a
        <4>2. QED
          BY <4>1, <2>1, <3>1
      <3>2. CASE o # w
        <4>1. slot'[o] = slot[o]
          BY <2>1, <3>2, <1>a
        <4>2. QED
          BY <4>1, <1>a
      <3>3. QED
        BY <3>1, <3>2
    <2>3. ASSUME NEW o \in Owners, NEW p \in Owners
          PROVE  Binding(slot'[o]) = Binding(slot'[p])
      BY <2>2, <1>a
    <2>4. QED
      BY <2>2, <2>3 DEF PairEvaluable, SameSharedBinding, Binding, ValidatePayload
  <1>2. CASE slot' = slot
    BY <1>a, <1>2 DEF PairEvaluable, SameSharedBinding, Binding, ValidatePayload
  <1>3. QED
    BY <1>1, <1>2, SlotsKept

\* Between the two copies the reader holds the mutex, so nobody assigns.
LEMMA NextNoTornRead == StoreIInv /\ [StoreNext]_storeVars => NoTornRead'
  <1> SUFFICES ASSUME StoreIInv, [StoreNext]_storeVars, NEW u \in Callers, pc'[u] = "readSecond"
               PROVE  call'[u] = slot'[First]
    BY DEF NoTornRead
  <1>a. /\ pc \in [Callers -> {"idle", "replace", "read"} \cup Locked]
        /\ call \in [Callers -> Calls \cup Envelopes \cup {NoCall}]
        /\ pc[u] = "readSecond" => call[u] = slot[First]
    BY DEF StoreIInv, StoreTypeOK, NoTornRead
  <1>1. ASSUME NEW t \in Callers, NEW c \in Calls, TryReplace(t, c)
        PROVE call'[u] = slot'[First]
    <2>1. pc[u] = "readSecond" /\ u # t
      BY <1>1, <1>a DEF TryReplace
    <2>2. QED
      BY <2>1, <1>1, <1>a DEF TryReplace
  <1>2. ASSUME NEW t \in Callers, Assign(t) PROVE call'[u] = slot'[First]
    <2>1. pc[u] = "readSecond" /\ u # t
      BY <1>2, <1>a DEF Assign, Return
    <2>2. pc[t] = "assign"
      BY <1>2 DEF Assign
    <2>3. QED
      BY <2>1, <2>2, OnlyHolderInside DEF Locked
  <1>3. ASSUME NEW t \in Callers, CopyFirst(t) PROVE call'[u] = slot'[First]
    <2>1. CASE u = t
      BY <1>3, <1>a, <2>1 DEF CopyFirst
    <2>2. CASE u # t
      BY <1>3, <1>a, <2>2 DEF CopyFirst
    <2>3. QED
      BY <2>1, <2>2
  <1>4. ASSUME NEW t \in Callers,
               \/ Lock(t, "replace", "replaceLocked") \/ Lock(t, "read", "readLocked")
               \/ Refuse(t) \/ RejectEpoch(t) \/ Accept(t) \/ ReadPair(t) \/ CopySecond(t)
        PROVE call'[u] = slot'[First]
    <2>1. pc[u] = "readSecond" /\ slot' = slot
      BY <1>4, <1>a DEF Lock, Refuse, RejectEpoch, Accept, ReadPair, CopySecond, Return
    <2>2. u # t
      BY <1>4, <1>a DEF Lock, Refuse, RejectEpoch, Accept, ReadPair, CopySecond, Return
    <2>3. call'[u] = call[u]
      BY <1>4, <1>a, <2>2 DEF Lock, Refuse, RejectEpoch, Accept, ReadPair, CopySecond, Return
    <2>4. QED
      BY <2>1, <2>3, <1>a
  <1>5. CASE UNCHANGED storeVars
    BY <1>5, <1>a DEF storeVars
  <1>6. QED
    BY <1>1, <1>2, <1>3, <1>4, <1>5 DEF StoreNext

\* No step takes an owner's epoch back.
LEMMA EpochsGrow ==
    ASSUME StoreIInv, [StoreNext]_storeVars, NEW o \in Owners
    PROVE  slot[o].epoch \in Nat /\ slot'[o].epoch \in Nat /\ slot[o].epoch <= slot'[o].epoch
  <1>1. slot \in [Owners -> Envelopes] /\ slot[o].epoch \in Nat
    BY DEF StoreIInv, StoreTypeOK, Envelopes, Epochs
  <1>2. ASSUME NEW t \in Callers, Assign(t)
        PROVE slot'[o].epoch \in Nat /\ slot[o].epoch <= slot'[o].epoch
    <2>1. /\ call[t].owner \in Owners
          /\ slot' = [slot EXCEPT ![call[t].owner] = call[t].replacement]
          /\ call[t].replacement.epoch = slot[call[t].owner].epoch + 1
      BY <1>2, AssignWrites
    <2>2. CASE o = call[t].owner
      BY <1>1, <2>1, <2>2
    <2>3. CASE o # call[t].owner
      BY <1>1, <2>1, <2>3
    <2>4. QED
      BY <2>2, <2>3
  <1>3. QED
    BY <1>1, <1>2, SlotsKept

\* What RejectionTruthful says of one outcome r, given the slots s.
Truthful(r, s) ==
    /\ r.status = "StaleEpoch" => r.expected < r.observed /\ r.observed <= s[r.owner].epoch
    /\ r.status = "FutureEpoch" => r.observed < r.expected /\ r.observed <= s[r.owner].epoch

LEMMA NextRejectionTruthful == StoreIInv /\ [StoreNext]_storeVars => RejectionTruthful'
  <1> SUFFICES ASSUME StoreIInv, [StoreNext]_storeVars, NEW u \in Callers PROVE Truthful(outcome'[u], slot')
    BY DEF RejectionTruthful, Truthful
  <1>a. /\ outcome \in [Callers -> Outcomes] /\ Truthful(outcome[u], slot)
        /\ slot \in [Owners -> Envelopes]
    BY DEF StoreIInv, StoreTypeOK, RejectionTruthful, Truthful
  <1>b. NoOutcome.status = "none"
    BY DEF NoOutcome
  <1>1. CASE outcome'[u] = outcome[u]
    <2>1. CASE outcome[u].status \in {"StaleEpoch", "FutureEpoch"}
      <3>1. outcome[u].owner \in Owners /\ outcome[u].observed \in Nat
        BY <1>a, <1>b, <2>1 DEF Outcomes, Epochs
      <3>2. /\ slot[outcome[u].owner].epoch \in Nat
            /\ slot'[outcome[u].owner].epoch \in Nat
            /\ slot[outcome[u].owner].epoch <= slot'[outcome[u].owner].epoch
        BY <3>1, EpochsGrow
      <3>3. QED
        BY <1>1, <1>a, <3>1, <3>2 DEF Truthful
    <2>2. CASE outcome[u].status \notin {"StaleEpoch", "FutureEpoch"}
      BY <1>1, <2>2 DEF Truthful
    <2>3. QED
      BY <2>1, <2>2
  <1>2. CASE outcome'[u] = NoOutcome
    BY <1>2, <1>b DEF Truthful
  <1>3. ASSUME NEW t \in Callers, RejectEpoch(t), u = t PROVE Truthful(outcome'[u], slot')
    <2>1. call[t] \in Calls /\ call[t].owner \in Owners
      BY <1>3 DEF RejectEpoch, Matches, Known, StoreIInv, StoreTypeOK, LocalType
    <2>2. slot[call[t].owner].epoch \in Nat /\ call[t].expected \in Nat
      BY <1>a, <2>1 DEF Envelopes, Calls, Epochs
    <2>3. /\ outcome'[u].owner = call[t].owner
          /\ outcome'[u].expected = call[t].expected
          /\ outcome'[u].observed = slot[call[t].owner].epoch
          /\ outcome'[u].status =
                IF call[t].expected < slot[call[t].owner].epoch
                THEN "StaleEpoch" ELSE "FutureEpoch"
          /\ slot[call[t].owner].epoch # call[t].expected
          /\ slot' = slot
      BY <1>3, <1>a DEF RejectEpoch, Result
    <2>4. QED
      BY <2>2, <2>3 DEF Truthful
  <1>4. ASSUME NEW t \in Callers, Assign(t), u = t PROVE Truthful(outcome'[u], slot')
    <2>1. outcome'[u].status = "Applied"
      BY <1>4, <1>a DEF Assign, Result
    <2>2. QED
      BY <2>1 DEF Truthful
  <1>5. \/ outcome'[u] = outcome[u] \/ outcome'[u] = NoOutcome
        \/ \E t \in Callers : u = t /\ (RejectEpoch(t) \/ Assign(t))
    BY <1>a DEF StoreNext, storeVars, TryReplace, Lock, Refuse, RejectEpoch, Accept, Assign, ReadPair,
                CopyFirst, CopySecond
  <1>6. QED
    BY <1>1, <1>2, <1>3, <1>4, <1>5

LEMMA StoreNextIInv == StoreIInv /\ [StoreNext]_storeVars => StoreIInv'
  BY StoreNextTypeOK, NextMutexInv, NextDecisionStands, NextEpochCounts, NextPairEvaluable,
     NextNoTornRead, NextRejectionTruthful DEF StoreIInv

\* The inductive invariant holds in every reachable state of the store
\* (TryReplace and ReadPair under their mutex).
THEOREM StoreSpecIInv == StoreSpec => []StoreIInv
  BY StoreInitIInv, StoreNextIInv, PTL DEF StoreSpec

\* The store's slots, mutex and locals keep their types, and a stored
\* envelope names the owner of its slot.
THEOREM StoreTypeCorrect == StoreSpec => []StoreTypeOK
  BY StoreSpecIInv, PTL DEF StoreIInv

\* For any number of racing callers, an owner's epoch counts the uploads that
\* TryReplace answered with Applied.
THEOREM EveryWinCounted == StoreSpec => []EpochCountsApplied
  BY StoreSpecIInv, PTL DEF StoreIInv

\* The two stored ciphertexts always share seed, parameters, context and key.
THEOREM AlwaysEvaluable == StoreSpec => []PairEvaluable
  BY StoreSpecIInv, PTL DEF StoreIInv

\* ReadPair returns the content of both slots at one instant.
THEOREM ReadsAtomic == StoreSpec => []NoTornRead
  BY StoreSpecIInv, PTL DEF StoreIInv

\* StaleEpoch and FutureEpoch name an epoch the slot really reached.
THEOREM RejectionsTrue == StoreSpec => []RejectionTruthful
  BY StoreSpecIInv, PTL DEF StoreIInv

LEMMA InitRegisters == StoreInit => Registers!Init
  <1> SUFFICES ASSUME StoreInit PROVE Registers!Init
    OBVIOUS
  <1>1. ASSUME NEW o \in Owners PROVE slot[o].epoch = 0 /\ slot[o].bytes \in Payloads
    <2>1. slot[o] \in Envelopes /\ slot[o].epoch = 0 /\ slot[o].bytes # Corrupt
      BY DEF StoreInit, ValidatePayload
    <2>2. QED
      BY <2>1 DEF Envelopes
  <1>2. [o \in Owners |-> slot[o].epoch] = [o \in Owners |-> 0]
    BY <1>1
  <1>3. [o \in Owners |-> slot[o].bytes] \in [Owners -> Payloads]
    BY <1>1
  <1>4. QED
    BY <1>2, <1>3 DEF Registers!Init

LEMMA NextRegisters ==
    StoreIInv /\ [StoreNext]_storeVars =>
        [Registers!Next]_<<[o \in Owners |-> slot[o].epoch], [o \in Owners |-> slot[o].bytes]>>
  <1> DEFINE epochs == [o \in Owners |-> slot[o].epoch]
             payloads == [o \in Owners |-> slot[o].bytes]
  <1> SUFFICES ASSUME StoreIInv, [StoreNext]_storeVars PROVE [Registers!Next]_<<epochs, payloads>>
    OBVIOUS
  <1>1. ASSUME NEW t \in Callers, Assign(t) PROVE Registers!Next
    <2> DEFINE w == call[t].owner
               r == call[t].replacement
    <2>1. /\ w \in Owners /\ r \in Envelopes
          /\ slot' = [slot EXCEPT ![w] = r]
          /\ r.epoch = slot[w].epoch + 1 /\ slot[w].epoch < MaxEpoch
          /\ ValidatePayload(r)
      BY <1>1, AssignWrites
    <2>2. slot \in [Owners -> Envelopes]
      BY DEF StoreIInv, StoreTypeOK
    <2>3. r.bytes \in Payloads
      BY <2>1 DEF Envelopes, ValidatePayload
    <2> HIDE DEF w, r
    <2>4. epochs' = [epochs EXCEPT ![w] = @ + 1]
      BY <2>1, <2>2
    <2>5. payloads' = [payloads EXCEPT ![w] = r.bytes]
      BY <2>1, <2>2
    <2>6. epochs[w] < MaxEpoch
      BY <2>1
    <2> HIDE DEF epochs, payloads
    <2>7. \E o \in Owners, p \in Payloads :
             /\ epochs[o] < MaxEpoch
             /\ epochs' = [epochs EXCEPT ![o] = @ + 1]
             /\ payloads' = [payloads EXCEPT ![o] = p]
      BY <2>1, <2>3, <2>4, <2>5, <2>6
    <2>8. QED
      BY <2>7 DEF Registers!Next, Registers!Install, epochs, payloads
  <1>2. CASE slot' = slot
    BY <1>2
  <1>3. QED
    BY <1>1, <1>2, SlotsKept

\* The store with its mutex, its checks before the lock and its copies one
\* slot at a time implements one versioned register per owner: every Assign
\* installs the next version of one owner, every other step is invisible.
THEOREM StoreImplementsRegisters == StoreSpec => ImplementsRegisters
  BY InitRegisters, NextRegisters, StoreSpecIInv, PTL DEF StoreSpec, ImplementsRegisters, Registers!Spec
==============================================================================
