--------------------------- MODULE MCDynamicParts ---------------------------
(* The two parts of the dynamic protocol that keep state, an owner's bottom  *)
(* structure and the server's store.  They share nothing: a behaviour is one *)
(* part's, and the other stays as it began.  (DynamicRefresh composes them.) *)
EXTENDS MCBottomStructure, MCCiphertextStore

VARIABLE part  \* "structure" or "store"

PartsInit ==
    /\ part \in {"structure", "store"}
    /\ Init /\ StoreInit
    /\ part = "store" => rank = (CHOOSE r \in RankFunctions : TRUE)

Structure == part = "structure" /\ UNCHANGED <<storeVars, part>>
Store == part = "store" /\ UNCHANGED <<vars, part>>

\* The actions of Next and of StoreNext, one by one.
PartsNext ==
    \/ Structure /\ \E S \in SUBSET Elem : InitializeBegin(S)
    \/ Structure /\ \E e \in Elem : InitializeElement(e)
    \/ Structure /\ InitializeEnd
    \/ Structure /\ InitializeThrow
    \/ Structure /\ \E e \in Elem : Insert(e)
    \/ Structure /\ \E e \in Elem : Delete(e)
    \/ Store /\ \E t \in Callers, c \in Calls : TryReplace(t, c)
    \/ Store /\ \E t \in Callers : Lock(t, "replace", "replaceLocked")
    \/ Store /\ \E t \in Callers : Refuse(t)
    \/ Store /\ \E t \in Callers : RejectEpoch(t)
    \/ Store /\ \E t \in Callers : Accept(t)
    \/ Store /\ \E t \in Callers : Assign(t)
    \/ Store /\ \E t \in Callers : ReadPair(t)
    \/ Store /\ \E t \in Callers : Lock(t, "read", "readLocked")
    \/ Store /\ \E t \in Callers : CopyFirst(t)
    \/ Store /\ \E t \in Callers : CopySecond(t)

PartsSpec == PartsInit /\ [][PartsNext]_<<vars, storeVars, part>>
==============================================================================
