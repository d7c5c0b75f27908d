------------------------ MODULE ScoutingStoreProofs ------------------------
(***************************************************************************)
(* Proofs about ScoutingStore, for every value of the constants.           *)
(***************************************************************************)
EXTENDS ScoutingStore, TLAPS

LEMMA IdleType == Idle \in ReqState
BY KeysAssumption, MaxActionsAssumption DEF Idle, ReqState

\* Overwriting one field of a request with a value of its type keeps the
\* request well typed.
LEMMA SetAdded ==
    ASSUME NEW x \in ReqState, NEW v \in 0..MaxActions PROVE [x EXCEPT !.added = v] \in ReqState
BY DEF ReqState

LEMMA SetPc ==
    ASSUME NEW x \in ReqState,
           NEW v \in {"idle", "add", "convert", "store", "delStats", "delActions"}
    PROVE  [x EXCEPT !.pc = v] \in ReqState
BY DEF ReqState

LEMMA InitTypeOK == Init => TypeOK
BY IdleType, MaxRequestsAssumption DEF Init, TypeOK

LEMMA TypeStep == TypeOK /\ [Next]_vars => TypeOK'
<1> SUFFICES ASSUME TypeOK, [Next]_vars PROVE TypeOK'
    OBVIOUS
<1>. USE IdleType, MaxActionsAssumption, MaxRequestsAssumption
<1>1. CASE UNCHANGED vars
    BY <1>1 DEF vars, TypeOK
<1>2. ASSUME NEW r \in Requests, NEW k \in Keys, NEW n \in 0..MaxActions,
             NEW bad \in 0..MaxActions, NEW ok \in BOOLEAN, BeginSubmit(r, k, n, bad, ok)
      PROVE TypeOK'
    <2>1. req' = [req EXCEPT ![r] = [pc |-> "add", key |-> k, n |-> n, bad |-> bad,
                                     convertOk |-> ok, added |-> 0]]
        BY <1>2 DEF BeginSubmit
    <2>2. req' \in [Requests -> ReqState]
        BY <2>1 DEF TypeOK, ReqState
    <2>. QED  BY <1>2, <2>2 DEF BeginSubmit, TypeOK
<1>3. ASSUME NEW r \in Requests, AddActionStep(r) PROVE TypeOK'
    <2>0. req[r] \in ReqState
        BY DEF TypeOK
    <2>1. req[r].added + 1 \in 0..MaxActions
        BY <1>3, <2>0 DEF AddActionStep, ReqState
    <2>2. [req EXCEPT ![r].added = req[r].added + 1] \in [Requests -> ReqState]
        BY <2>1, SetAdded DEF TypeOK
    <2>3. req' \in [Requests -> ReqState]
        <3>1. [req EXCEPT ![r] = Idle] \in [Requests -> ReqState]
            BY IdleType DEF TypeOK
        <3>. QED  BY <1>3, <3>1, <2>2, Zenon DEF AddActionStep
    <2>4. actionRows' \in [Keys -> Nat]
        <3>1. req[r].key \in Keys
            BY <2>0 DEF ReqState
        <3>. QED  BY <1>3, <3>1 DEF AddActionStep, TypeOK
    <2>. QED  BY <1>3, <2>3, <2>4 DEF AddActionStep, TypeOK
<1>4. ASSUME NEW r \in Requests, EndOfActions(r) PROVE TypeOK'
    BY <1>4, SetPc DEF EndOfActions, TypeOK
<1>5. ASSUME NEW r \in Requests, Convert(r) PROVE TypeOK'
    BY <1>5, SetPc DEF Convert, TypeOK
<1>6. ASSUME NEW r \in Requests, StoreStats(r) PROVE TypeOK'
    <2>1. [req EXCEPT ![r] = Idle] \in [Requests -> ReqState]
        BY IdleType DEF TypeOK
    <2>2. req' \in [Requests -> ReqState]
        BY <1>6, <2>1, Zenon DEF StoreStats
    <2>3. statsRows' \in [Keys -> Nat]
        <3>1. req[r].key \in Keys
            BY DEF TypeOK, ReqState
        <3>. QED  BY <1>6, <3>1 DEF StoreStats, TypeOK
    <2>. QED  BY <1>6, <2>2, <2>3 DEF StoreStats, TypeOK
<1>7. ASSUME NEW r \in Requests, NEW k \in Keys, BeginDelete(r, k) PROVE TypeOK'
    <2>1. req' = [req EXCEPT ![r] = [pc |-> "delStats", key |-> k, n |-> 0, bad |-> 0,
                                     convertOk |-> TRUE, added |-> 0]]
        BY <1>7 DEF BeginDelete
    <2>2. req' \in [Requests -> ReqState]
        BY <2>1 DEF TypeOK, ReqState
    <2>. QED  BY <1>7, <2>2 DEF BeginDelete, TypeOK
<1>8. ASSUME NEW r \in Requests, DeleteStats(r) PROVE TypeOK'
    <2>1. req[r].key \in Keys
        BY DEF TypeOK, ReqState
    <2>2. [req EXCEPT ![r] = Idle] \in [Requests -> ReqState]
        BY IdleType DEF TypeOK
    <2>3. [req EXCEPT ![r].pc = "delActions"] \in [Requests -> ReqState]
        BY SetPc DEF TypeOK
    <2>4. req' \in [Requests -> ReqState]
        BY <1>8, <2>2, <2>3, Zenon DEF DeleteStats
    <2>5. statsRows' \in [Keys -> Nat]
        BY <1>8, <2>1 DEF DeleteStats, TypeOK
    <2>. QED  BY <1>8, <2>4, <2>5 DEF DeleteStats, TypeOK
<1>9. ASSUME NEW r \in Requests, DeleteActions(r) PROVE TypeOK'
    <2>1. req[r].key \in Keys
        BY DEF TypeOK, ReqState
    <2>2. [req EXCEPT ![r] = Idle] \in [Requests -> ReqState]
        BY IdleType DEF TypeOK
    <2>. QED  BY <1>9, <2>1, <2>2 DEF DeleteActions, TypeOK
<1>. QED  BY <1>1, <1>2, <1>3, <1>4, <1>5, <1>6, <1>7, <1>8, <1>9 DEF Next

\* Every reachable state of the submission and deletion handlers is well
\* typed: row counts are natural numbers and every request's loop index
\* stays within its action list.
THEOREM TypeCorrect == Spec => []TypeOK
BY InitTypeOK, TypeStep, PTL DEF Spec
=============================================================================
