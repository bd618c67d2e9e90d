-------------------------- MODULE PiccardLifecycle --------------------------
(***************************************************************************)
(* One protocol object from construction to keys: Piccard (SqrtPiccard and *)
(* DynamicPiccard run the same code), ThresholdPiccard, which owns a       *)
(* Piccard, or PiccardEngine; and the BFVContext inside it.  A call is one *)
(* step; where it can throw it may leave the object between two of its     *)
(* assignments, and the caller may go on calling.                          *)
(*                                                                         *)
(* What OpenFHE and the calibration contribute is drawn once, as config:   *)
(* the ring dimension OpenFHE picks, the largest one the plaintext modulus *)
(* packs, how the selected contract compares with the linked version and   *)
(* the live context, and whether the flooding budget fits.  A ring         *)
(* dimension 0, a key 0 or a rotation plan 0 is an absent one.             *)
(***************************************************************************)
EXTENDS Naturals

CONSTANTS
    Kinds,    \* subset of {"Piccard", "Threshold", "Engine"}
    Configs,  \* [ring, sized, calibrated, toy, auto, packs, contract, fits, tauOk]
    Seeds,    \* hash seeds a caller uses
    NoSeed,   \* hasher_ is null
    MaxKeys   \* bound on key pairs generated, an engine may be initialized again

ASSUME ConfigAssumption == \A c \in Configs :
    /\ c.ring \in Nat \ {0} /\ c.calibrated \in Nat \ {0} /\ c.auto \in Nat \ {0}
    /\ c.packs \in Nat
    /\ {c.sized, c.toy, c.fits, c.tauOk} \subseteq BOOLEAN
    /\ c.contract \in {"absent", "good", "otherVersion", "otherRow"}
    /\ c.contract # "absent" => c.sized
ASSUME SeedAssumption == NoSeed \notin Seeds
ASSUME KeyAssumption == MaxKeys \in Nat

VARIABLES
    kind,
    config,
    params,   \* params_: ring_dim, whether adopted, whether written since selection, hash_seed
    hasher,   \* seed of hasher_
    bfv,      \* bfv_: made, cc_'s ring, runtime_ring_dim_, its params' adoption, keys
    encoder,  \* ring dimension of encoder_
    poly,     \* threshold_poly_ is not empty
    keys      \* key pairs generated so far

vars == <<kind, config, params, hasher, bfv, encoder, poly, keys>>

------------------------------------------------------------------------------
(* BFVContext *)

NoContext == [made |-> FALSE, cc |-> 0, runtime |-> 0, adopted |-> FALSE,
              key |-> 0, mult |-> FALSE, rot |-> 0]

\* BFVContext::BFVContext; it copies params_.
NewContext == [NoContext EXCEPT !.made = TRUE, !.runtime = params.ring]

Needed ==
    IF config.sized /\ config.calibrated > params.ring THEN config.calibrated
    ELSE params.ring

\* ValidatePackedPlaintextParameters
Packs(n) == n <= config.packs

\* The contract is read through VerifyValidationSnapshot.
ContractReadable ==
    config.contract # "absent" => ~params.dirty /\ config.contract # "otherVersion"

Realized == IF config.toy \/ config.auto < Needed THEN Needed ELSE config.auto

RowAgrees(n) == config.contract = "absent" \/ (config.contract = "good" /\ n = config.calibrated)
\* Mutant: any realized ring dimension is adopted.
AdoptableAny(n) == config.sized => ~params.dirty /\ ~params.adopted
Adoptable(n) == config.sized => ~params.dirty /\ ~params.adopted /\ n = config.calibrated

WithCc(n) == [NewContext EXCEPT !.cc = n, !.runtime = n]

\* Every check of InitializeContextOnly passes: the context it ends with.
Accepted == [WithCc(Realized) EXCEPT !.adopted = config.sized]

ContextPasses ==
    /\ Packs(Needed) /\ ContractReadable /\ Packs(Realized)
    /\ RowAgrees(Realized) /\ Adoptable(Realized)
    /\ config.sized => config.fits

\* The contexts an exception inside InitializeContextOnly may leave behind.
Rejected ==
    \* a check before GenCryptoContext fails, or GenCryptoContext throws
    {NewContext}
    \cup \* the first context is too small and the second GenCryptoContext throws
    {[NewContext EXCEPT !.cc = n] : n \in
        {n \in {config.auto} : Packs(Needed) /\ ContractReadable
                               /\ ~config.toy /\ n < Needed}}
    \cup \* the realized context fails its modulus, row or adoption check
    {WithCc(n) : n \in
        {n \in {Realized} : /\ Packs(Needed) /\ ContractReadable
                            /\ ~(Packs(n) /\ RowAgrees(n) /\ Adoptable(n))}}
    \cup \* the flooding budget does not fit the adopted context
    {c \in {Accepted} : /\ Packs(Needed) /\ ContractReadable /\ Packs(Realized)
                        /\ RowAgrees(Realized) /\ Adoptable(Realized)
                        /\ config.sized /\ ~config.fits}

\* What InitializeKeys may have done when it returns or throws; the call is
\* refused on a context without cc_ or with keys.
\* Mutant: a second key generation is let through.
KeysRefusedWithoutContext(c) == c.cc = 0
KeysRefused(c) == c.cc = 0 \/ c.key # 0
WithPair(c) == [c EXCEPT !.key = keys + 1]
WithMult(c) == [WithPair(c) EXCEPT !.mult = TRUE]
\* Mutant: the plan is made for the requested ring dimension.
WithRequestedPlan(c) == [WithMult(c) EXCEPT !.rot = params.ring]
WithAllKeys(c) == [WithMult(c) EXCEPT !.rot = c.runtime]

------------------------------------------------------------------------------
(* Actions *)

Init ==
    /\ kind \in Kinds
    /\ config \in Configs
    /\ \E s \in Seeds :
         params = [ring |-> config.ring, adopted |-> FALSE, dirty |-> FALSE, seed |-> s]
    /\ hasher = NoSeed
    /\ bfv = NoContext
    /\ encoder = 0
    /\ poly = FALSE
    /\ keys = 0

Fixed == UNCHANGED <<kind, config>>

\* Piccard::SetHashSeed; PiccardEngine has no such call.
SetHashSeed == \E s \in Seeds :
    /\ kind # "Engine"
    /\ params' = [params EXCEPT !.seed = s]
    /\ hasher' = IF hasher # NoSeed THEN s ELSE hasher
    /\ UNCHANGED <<kind, config, bfv, encoder, poly, keys>>

\* Piccard::InitializeContextOnly up to a throw inside the context ...
ContextThrows ==
    /\ ~bfv.made
    /\ hasher' = params.seed
    /\ bfv' \in Rejected
    /\ UNCHANGED <<params, encoder>>

\* ... or in params_.AdoptVerifiedRuntimeRingDim, which needs sized parameters ...
AdoptionThrows ==
    /\ ~bfv.made
    /\ ContextPasses /\ ~config.sized
    /\ hasher' = params.seed
    /\ bfv' = Accepted
    /\ UNCHANGED <<params, encoder>>

\* ... or to its end.
ContextReady ==
    /\ ~bfv.made
    /\ ContextPasses /\ config.sized
    /\ hasher' = params.seed
    /\ bfv' = Accepted
    /\ params' = [params EXCEPT !.ring = Realized, !.adopted = TRUE]
    /\ encoder' = Realized

InitializeContextOnly ==
    /\ kind = "Piccard"
    /\ ContextThrows \/ AdoptionThrows \/ ContextReady
    /\ UNCHANGED <<poly, keys>> /\ Fixed

\* BFVContext::InitializeKeys on the context c, to its end or to a throw, which
\* may come before the pair, after it or after the multiplication key.
GenerateKeys(c) ==
    /\ ~KeysRefused(c)
    /\ \/ bfv' = c /\ keys' = keys
       \/ /\ keys < MaxKeys
          /\ keys' = keys + 1
          /\ bfv' \in {WithPair(c), WithMult(c), WithAllKeys(c)}

\* ThresholdPiccard::KeyGen goes on when piccard_.KeyGen returned.
BuildPoly(done) == poly' = IF kind = "Threshold" /\ done /\ config.tauOk THEN TRUE ELSE poly

\* KeyGen of an object whose context is missing: a throw on the way to it, or
\* the context and then the keys.
KeyGenFromContext ==
    /\ kind # "Engine"
    /\ ~bfv.made
    /\ \/ /\ ContextThrows \/ AdoptionThrows
          /\ UNCHANGED <<poly, keys>>
       \/ /\ ContextPasses /\ config.sized
          /\ hasher' = params.seed
          /\ params' = [params EXCEPT !.ring = Realized, !.adopted = TRUE]
          /\ encoder' = Realized
          /\ GenerateKeys(Accepted)
          /\ BuildPoly(bfv' = WithAllKeys(Accepted))
    /\ Fixed

\* KeyGen of an object that has one, whether or not it passed its checks.
KeyGenOnly ==
    /\ kind # "Engine"
    /\ bfv.made
    /\ GenerateKeys(bfv)
    /\ BuildPoly(bfv' = WithAllKeys(bfv))
    /\ UNCHANGED <<params, hasher, encoder>> /\ Fixed

\* PiccardEngine::Initialize replaces hasher and context whatever they were, and
\* writes ring_dim after selection instead of adopting it.
EngineInitialize ==
    /\ kind = "Engine"
    /\ hasher' = params.seed
    /\ \/ /\ bfv' \in Rejected
          /\ UNCHANGED <<params, encoder, keys>>
       \/ /\ ContextPasses
          /\ GenerateKeys(Accepted)
          /\ IF bfv' = WithAllKeys(Accepted)
             THEN /\ params' = [params EXCEPT !.ring = Realized,
                                              !.dirty = @ \/ Realized # params.ring]
                  /\ encoder' = Realized
             ELSE UNCHANGED <<params, encoder>>
    /\ UNCHANGED poly /\ Fixed

Next ==
    \/ SetHashSeed
    \/ InitializeContextOnly
    \/ KeyGenFromContext
    \/ KeyGenOnly
    \/ EngineInitialize

Spec == Init /\ [][Next]_vars

------------------------------------------------------------------------------
(* Properties *)

\* Fields have their types, and a context that was never made is empty.
TypeOK ==
    /\ kind \in Kinds /\ config \in Configs
    /\ params \in [ring : Nat \ {0}, adopted : BOOLEAN, dirty : BOOLEAN, seed : Seeds]
    /\ hasher \in Seeds \cup {NoSeed}
    /\ bfv \in [made : BOOLEAN, cc : Nat, runtime : Nat, adopted : BOOLEAN,
                key : Nat, mult : BOOLEAN, rot : Nat]
    /\ ~bfv.made => bfv = NoContext
    /\ encoder \in Nat /\ poly \in BOOLEAN
    /\ keys \in 0..MaxKeys /\ bfv.key <= keys

\* Encrypt needs the hasher, the encoder and the public key.
CanEncrypt == hasher # NoSeed /\ encoder # 0 /\ bfv.key # 0

\* cc_ passed every check of InitializeContextOnly.
Verified ==
    /\ bfv.cc # 0 /\ bfv.cc = bfv.runtime
    /\ Packs(bfv.cc)
    /\ config.contract \in {"absent", "good"}
    /\ config.sized => bfv.adopted /\ bfv.cc = config.calibrated /\ config.fits

\* An object that can encrypt has a verified context, and its parameters, its
\* encoder and its context have one ring dimension, after every sequence of
\* failed and repeated InitializeContextOnly, KeyGen and Initialize calls.
UsableVerified ==
    CanEncrypt =>
        /\ Verified
        /\ params.ring = encoder /\ encoder = bfv.cc
        /\ kind # "Engine" => config.sized /\ params.adopted

\* The rotations EvaluateRaw asks for, powers of two below params_.ring_dim, are
\* all in the plan the keys were made for, also on an object that can only call
\* EncryptFeature, with keys on a context that failed its checks or came before a
\* failed second one; and the plan is that of the context where Encrypt works.
RotationsCover ==
    bfv.rot # 0 => /\ bfv.key # 0 /\ bfv.mult /\ params.ring <= bfv.rot
                   /\ CanEncrypt => bfv.rot = bfv.cc

\* The hasher of an object always uses the seed its parameters name.
HasherFollowsSeed == hasher # NoSeed => hasher = params.seed

\* Outside the engine a generated key pair is never replaced, nor is the context
\* it belongs to; SetHashSeed and failing calls included.
KeysStay == [][kind # "Engine" /\ bfv.key # 0 =>
               bfv'.key = bfv.key /\ bfv'.cc = bfv.cc]_vars

\* A threshold polynomial is only there when tau is in range and all three kinds
\* of keys exist: a KeyGen that throws halfway never yields a decision later.
ThresholdAnswers ==
    poly => kind = "Threshold" /\ config.tauOk /\ bfv.mult /\ bfv.rot # 0

==============================================================================
