--------------------------- MODULE CiphertextStore ---------------------------
(***************************************************************************)
(* The cloud's store of the two owners' current ciphertexts (class         *)
(* piccard::DynamicCiphertextStore) and the threads that call it.          *)
(*                                                                         *)
(* TryReplace validates its arguments before it takes the mutex; under the *)
(* mutex it looks up the slot, compares bindings and epochs, and assigns.  *)
(* ReadPair copies the two slots one after the other under the same mutex. *)
(* Lock, decision, assignment and the two copies are separate steps, so    *)
(* that what the mutex excludes is visible.                                *)
(*                                                                         *)
(* An envelope keeps the fields the checks tell apart: owner_set_id,       *)
(* epoch, "params" for hash_seed, k, m and hash_range, "crypto" for the    *)
(* two model strings, both fingerprints and the key tag, and the           *)
(* serialized ciphertext, which is Corrupt when the codec's Deserialize    *)
(* throws on it.  An empty or unknown owner_set_id is a name in            *)
(* Names \ Owners.                                                         *)
(***************************************************************************)
EXTENDS Naturals, FiniteSets

CONSTANTS
    Callers,     \* threads of the cloud that serve uploads and reads
    Owners,      \* the owner_set_ids of first_ and second_
    First,       \* the owner of first_; the other one is second_
    Names,       \* owner_set_ids a caller may pass
    Params,      \* values of (hash_seed, k, m, hash_range)
    Cryptos,     \* values of (models, fingerprints, key tag)
    CodecCrypto, \* the one ValidatePayload accepts
    Payloads,    \* well-formed canonical ciphertexts
    Corrupt,     \* bytes that Deserialize rejects
    NoCaller,    \* the mutex is free
    MaxEpoch     \* largest epoch: UINT64_MAX in the code

ASSUME OwnersAssumption ==
    /\ First \in Owners /\ Owners \subseteq Names
    /\ \E o \in Owners : Owners = {First, o} /\ o # First
ASSUME DomainAssumption ==
    /\ CodecCrypto \in Cryptos
    /\ Corrupt \notin Payloads
    /\ NoCaller \notin Callers
    /\ MaxEpoch \in Nat \ {0}

Epochs == 0..MaxEpoch
Envelopes == [owner : Names, epoch : Epochs, params : Params, crypto : Cryptos,
              bytes : Payloads \cup {Corrupt}]
Calls == [owner : Names, expected : Epochs, replacement : Envelopes]

VARIABLES
    slot,      \* first_ and second_, by owner
    mutex,     \* holder of mutex_
    pc,        \* where each caller is
    call,      \* arguments of the TryReplace, or first copy of the ReadPair, in progress
    outcome,   \* what each caller's last call returned, until its next call
    applied    \* history: Applied outcomes returned, by owner

storeVars == <<slot, mutex, pc, call, outcome, applied>>

------------------------------------------------------------------------------
(* Checks *)

ValidatePayload(e) == e.crypto = CodecCrypto /\ e.bytes # Corrupt

\* What SameImmutableBinding and SameSharedBinding compare, owner apart.
Binding(e) == <<e.params, e.crypto>>

SameSharedBinding(e, f) == Binding(e) = Binding(f)

SameBindingDroppingParams(e, f) == e.owner = f.owner /\ e.crypto = f.crypto

SameImmutableBinding(e, f) == e.owner = f.owner /\ SameSharedBinding(e, f)

\* The argument checks without the codec.
AdmissibleNoCodec(c) ==
    /\ c.expected # MaxEpoch
    /\ c.replacement.epoch = c.expected + 1
    /\ c.replacement.owner = c.owner

\* TryReplace's checks before the lock.  expected # MaxEpoch is what keeps
\* the addition from wrapping.
Admissible(c) ==
    /\ c.expected # MaxEpoch
    /\ c.replacement.epoch = c.expected + 1
    /\ c.replacement.owner = c.owner
    /\ ValidatePayload(c.replacement)

\* The lookup of the slot and the comparison with what it holds.
Known(c) ==
    c.owner \in Owners /\ SameImmutableBinding(slot[c.owner], c.replacement)

------------------------------------------------------------------------------
(* The two operations *)

NoCall == [owner |-> "none"]
NoOutcome == [status |-> "none"]
Result(status, c, observed) ==
    [status |-> status, owner |-> c.owner, expected |-> c.expected, observed |-> observed]

\* The constructor: epochs zero, payloads valid, bindings shared.
StoreInit ==
    /\ slot \in [Owners -> Envelopes]
    /\ \A o \in Owners :
          slot[o].owner = o /\ slot[o].epoch = 0 /\ ValidatePayload(slot[o])
    /\ \A o, p \in Owners : SameSharedBinding(slot[o], slot[p])
    /\ mutex = NoCaller
    /\ pc = [t \in Callers |-> "idle"]
    /\ call = [t \in Callers |-> NoCall]
    /\ outcome = [t \in Callers |-> NoOutcome]
    /\ applied = [o \in Owners |-> 0]

\* TryReplace up to the lock: an inadmissible call throws.
TryReplace(t, c) ==
    /\ pc[t] = "idle"
    /\ outcome' = [outcome EXCEPT ![t] = NoOutcome]
    /\ IF Admissible(c)
       THEN /\ pc' = [pc EXCEPT ![t] = "replace"]
            /\ call' = [call EXCEPT ![t] = c]
       ELSE UNCHANGED <<pc, call>>
    /\ UNCHANGED <<slot, mutex, applied>>

LockAnyway(t, from, to) ==
    /\ pc[t] = from
    /\ mutex' = t
    /\ pc' = [pc EXCEPT ![t] = to]
    /\ UNCHANGED <<slot, call, outcome, applied>>

\* std::lock_guard's constructor.
Lock(t, from, to) ==
    /\ pc[t] = from
    /\ mutex = NoCaller
    /\ mutex' = t
    /\ pc' = [pc EXCEPT ![t] = to]
    /\ UNCHANGED <<slot, call, outcome, applied>>

\* Every return, normal or by an exception, runs the guard's destructor.
Return(t) ==
    /\ mutex' = NoCaller
    /\ pc' = [pc EXCEPT ![t] = "idle"]
    /\ call' = [call EXCEPT ![t] = NoCall]

\* The lookup or the binding comparison throws under the lock.
Refuse(t) ==
    /\ pc[t] = "replaceLocked"
    /\ ~Known(call[t])
    /\ Return(t)
    /\ UNCHANGED <<slot, outcome, applied>>

Matches(t) ==
    /\ pc[t] = "replaceLocked"
    /\ Known(call[t])

\* An epoch mismatch, reported with the epoch one ahead of the expected one
\* instead of the slot's.
RejectEpochGuessing(t) ==
    /\ Matches(t)
    /\ slot[call[t].owner].epoch # call[t].expected
    /\ outcome' = [outcome EXCEPT ![t] = Result("StaleEpoch", call[t], call[t].expected + 1)]
    /\ Return(t)
    /\ UNCHANGED <<slot, applied>>

RejectEpoch(t) ==
    /\ Matches(t)
    /\ LET current == slot[call[t].owner].epoch
           status == IF call[t].expected < current THEN "StaleEpoch" ELSE "FutureEpoch"
       IN /\ current # call[t].expected
          /\ outcome' = [outcome EXCEPT ![t] = Result(status, call[t], current)]
    /\ Return(t)
    /\ UNCHANGED <<slot, applied>>

\* The comparison accepts an expected epoch that lies ahead of the slot's.
AcceptAhead(t) ==
    /\ Matches(t)
    /\ slot[call[t].owner].epoch <= call[t].expected
    /\ pc' = [pc EXCEPT ![t] = "assign"]
    /\ UNCHANGED <<slot, mutex, call, outcome, applied>>

Accept(t) ==
    /\ Matches(t)
    /\ slot[call[t].owner].epoch = call[t].expected
    /\ pc' = [pc EXCEPT ![t] = "assign"]
    /\ UNCHANGED <<slot, mutex, call, outcome, applied>>

\* The assignment and the return of the epoch just stored.
Assign(t) ==
    /\ pc[t] = "assign"
    /\ LET o == call[t].owner IN
          /\ slot' = [slot EXCEPT ![o] = call[t].replacement]
          /\ outcome' = [outcome EXCEPT ![t] =
                Result("Applied", call[t], call[t].replacement.epoch)]
          /\ applied' = [applied EXCEPT ![o] = @ + 1]
    /\ Return(t)

ReadPair(t) ==
    /\ pc[t] = "idle"
    /\ outcome' = [outcome EXCEPT ![t] = NoOutcome]
    /\ pc' = [pc EXCEPT ![t] = "read"]
    /\ UNCHANGED <<slot, mutex, call, applied>>

CopyFirst(t) ==
    /\ pc[t] = "readLocked"
    /\ call' = [call EXCEPT ![t] = slot[First]]
    /\ pc' = [pc EXCEPT ![t] = "readSecond"]
    /\ UNCHANGED <<slot, mutex, outcome, applied>>

\* The pair <<call[t], slot[Second]>> is returned.
CopySecond(t) ==
    /\ pc[t] = "readSecond"
    /\ Return(t)
    /\ UNCHANGED <<slot, outcome, applied>>

StoreNext ==
    \E t \in Callers :
        \/ \E c \in Calls : TryReplace(t, c)
        \/ Lock(t, "replace", "replaceLocked")
        \/ Refuse(t)
        \/ RejectEpoch(t)
        \/ Accept(t)
        \/ Assign(t)
        \/ ReadPair(t)
        \/ Lock(t, "read", "readLocked")
        \/ CopyFirst(t)
        \/ CopySecond(t)

StoreSpec == StoreInit /\ [][StoreNext]_storeVars

------------------------------------------------------------------------------
(* Properties *)

Locked == {"replaceLocked", "assign", "readLocked", "readSecond"}
Outcomes ==
    {NoOutcome} \cup
    [status : {"Applied", "StaleEpoch", "FutureEpoch"}, owner : Owners,
     expected : Epochs, observed : Epochs]

\* What the locals of a caller at a given point are.
LocalType(at) ==
    CASE at \in {"replace", "replaceLocked", "assign"} -> Calls
      [] at = "readSecond" -> Envelopes
      [] OTHER -> {NoCall}

\* Type invariant; an envelope that reached a slot names the slot's owner.
StoreTypeOK ==
    /\ slot \in [Owners -> Envelopes]
    /\ \A o \in Owners : slot[o].owner = o
    /\ mutex \in Callers \cup {NoCaller}
    /\ pc \in [Callers -> {"idle", "replace", "read"} \cup Locked]
    /\ call \in [Callers -> Calls \cup Envelopes \cup {NoCall}]
    /\ \A t \in Callers : call[t] \in LocalType(pc[t])
    /\ outcome \in [Callers -> Outcomes]
    /\ applied \in [Owners -> Nat]

\* An owner's epoch counts the uploads that were told Applied: no two callers
\* that raced for one epoch both won, and no applied upload was lost.
EpochCountsApplied == \A o \in Owners : slot[o].epoch = applied[o]

\* The two stored ciphertexts can always be evaluated against each other:
\* same seed, k, m, range, models, context and key, and both decode, however
\* uploads with other parameters interleave.
PairEvaluable ==
    /\ \A o, p \in Owners : SameSharedBinding(slot[o], slot[p])
    /\ \A o \in Owners : ValidatePayload(slot[o])

\* When ReadPair copies the second slot, its copy of the first one is still
\* what the store holds: the pair it returns was the store's content at one
\* instant, although the two slots are copied one after the other.
NoTornRead == \A t \in Callers : pc[t] = "readSecond" => call[t] = slot[First]

\* A rejected epoch is reported truthfully: StaleEpoch names an epoch the
\* slot really reached, beyond the expected one, so repeating the same upload
\* can never succeed; FutureEpoch names one behind the expected one.
RejectionTruthful ==
    \A t \in Callers : LET r == outcome[t] IN
        /\ r.status = "StaleEpoch" =>
              r.expected < r.observed /\ r.observed <= slot[r.owner].epoch
        /\ r.status = "FutureEpoch" =>
              r.observed < r.expected /\ r.observed <= slot[r.owner].epoch

\* The store implements the owners' versioned registers.
Registers == INSTANCE OwnerRegisters WITH
    epoch <- [o \in Owners |-> slot[o].epoch],
    payload <- [o \in Owners |-> slot[o].bytes]
ImplementsRegisters == Registers!Spec
==============================================================================
