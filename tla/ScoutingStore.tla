--------------------------- MODULE ScoutingStore ---------------------------
(***************************************************************************)
(* submit2024ActionsHandler and Delete2024DataScoutingHandler              *)
(* (requests.go) against the database, with requests served concurrently  *)
(* by net/http goroutines.                                                 *)
(*                                                                         *)
(* A submission stores its actions one AddAction call at a time, checking *)
(* each timestamp first, then converts them (ConvertActionsToStat2024,    *)
(* modelled in ActionReducer; here only its outcome matters) and stores   *)
(* one Stats2024 row.  A deletion calls DeleteFromStats2024 and then      *)
(* DeleteFromActions.  Every database call is one atomic step that may    *)
(* fail; the handler then answers with an error and stops.                *)
(*                                                                         *)
(* A (team, match, set, level) key is a model value; the database is the  *)
(* number of action rows and stats rows under each key.                   *)
(***************************************************************************)
EXTENDS Naturals

CONSTANTS
    Keys,         \* (team, match, set, comp level) keys
    Requests,     \* goroutines serving requests at the same time
    MaxActions,   \* bound on the actions of one submission
    MaxRequests   \* bound on the requests served in one behaviour

ASSUME KeysAssumption == Keys # {}
ASSUME MaxActionsAssumption == MaxActions \in Nat
ASSUME MaxRequestsAssumption == MaxRequests \in Nat

VARIABLES
    actionRows,   \* actionRows[k]: rows of the actions table under k
    statsRows,    \* statsRows[k]: rows of the stats2024 table under k
    req,          \* state of each goroutine
    served        \* requests begun so far

vars == <<actionRows, statsRows, req, served>>

\* A submission: n actions, the first with a negative timestamp at index
\* bad (0: none), and whether ConvertActionsToStat2024 succeeds on them.
Idle == [pc |-> "idle", key |-> CHOOSE k \in Keys : TRUE, n |-> 0, bad |-> 0,
         convertOk |-> TRUE, added |-> 0]

ReqState ==
    [pc : {"idle", "add", "convert", "store", "delStats", "delActions"},
     key : Keys, n : 0..MaxActions, bad : 0..MaxActions, convertOk : BOOLEAN,
     added : 0..MaxActions]

TypeOK ==
    /\ actionRows \in [Keys -> Nat]
    /\ statsRows \in [Keys -> Nat]
    /\ req \in [Requests -> ReqState]
    /\ served \in 0..MaxRequests

Init ==
    /\ actionRows = [k \in Keys |-> 0]
    /\ statsRows = [k \in Keys |-> 0]
    /\ req = [r \in Requests |-> Idle]
    /\ served = 0

\* The request is read and parsed; its username is parsed.
BeginSubmit(r, k, n, bad, ok) ==
    /\ req[r].pc = "idle"
    /\ served < MaxRequests
    /\ served' = served + 1
    /\ req' = [req EXCEPT ![r] = [pc |-> "add", key |-> k, n |-> n, bad |-> bad,
                                  convertOk |-> ok, added |-> 0]]
    /\ UNCHANGED <<actionRows, statsRows>>

\* Mutant: the loop runs while i <= ActionsListLength().
AddActionStepPastEnd(r) ==
    LET idx == req[r].added + 1
        k == req[r].key
    IN /\ req[r].pc = "add"
       /\ idx <= req[r].n + 1
       /\ \/ /\ req[r].bad = idx
             /\ req' = [req EXCEPT ![r] = Idle]
             /\ UNCHANGED actionRows
          \/ /\ req[r].bad # idx
             /\ actionRows' = [actionRows EXCEPT ![k] = @ + 1]
             /\ req' = [req EXCEPT ![r].added = idx]
          \/ /\ req[r].bad # idx
             /\ req' = [req EXCEPT ![r] = Idle]
             /\ UNCHANGED actionRows
       /\ UNCHANGED <<statsRows, served>>

\* One iteration of the loop over the actions: a negative timestamp ends
\* the request; otherwise AddAction, which may fail.
AddActionStep(r) ==
    LET idx == req[r].added + 1
        k == req[r].key
    IN /\ req[r].pc = "add"
       /\ idx <= req[r].n
       /\ \/ /\ req[r].bad = idx
             /\ req' = [req EXCEPT ![r] = Idle]
             /\ UNCHANGED actionRows
          \/ /\ req[r].bad # idx
             /\ actionRows' = [actionRows EXCEPT ![k] = @ + 1]
             /\ req' = [req EXCEPT ![r].added = idx]
          \/ /\ req[r].bad # idx
             /\ req' = [req EXCEPT ![r] = Idle]           \* AddAction failed
             /\ UNCHANGED actionRows
       /\ UNCHANGED <<statsRows, served>>

\* The loop is over.
EndOfActions(r) ==
    /\ req[r].pc = "add"
    /\ req[r].added = req[r].n
    /\ req' = [req EXCEPT ![r].pc = "convert"]
    /\ UNCHANGED <<actionRows, statsRows, served>>

\* ConvertActionsToStat2024: an error ends the request.
Convert(r) ==
    /\ req[r].pc = "convert"
    /\ req' = IF req[r].convertOk THEN [req EXCEPT ![r].pc = "store"]
                                  ELSE [req EXCEPT ![r] = Idle]
    /\ UNCHANGED <<actionRows, statsRows, served>>

\* AddToStats2024, which may fail; either way the request is answered.
StoreStats(r) ==
    LET k == req[r].key IN
    /\ req[r].pc = "store"
    /\ \/ /\ statsRows' = [statsRows EXCEPT ![k] = @ + 1]
          /\ req' = [req EXCEPT ![r] = Idle]
       \/ /\ req' = [req EXCEPT ![r] = Idle]
          /\ UNCHANGED statsRows
    /\ UNCHANGED <<actionRows, served>>

\* A deletion request for key k is read and parsed.
BeginDelete(r, k) ==
    /\ req[r].pc = "idle"
    /\ served < MaxRequests
    /\ served' = served + 1
    /\ req' = [req EXCEPT ![r] = [pc |-> "delStats", key |-> k, n |-> 0, bad |-> 0,
                                  convertOk |-> TRUE, added |-> 0]]
    /\ UNCHANGED <<actionRows, statsRows>>

\* DeleteFromStats2024; an error ends the request.
DeleteStats(r) ==
    /\ req[r].pc = "delStats"
    /\ \/ /\ statsRows' = [statsRows EXCEPT ![req[r].key] = 0]
          /\ req' = [req EXCEPT ![r].pc = "delActions"]
       \/ /\ req' = [req EXCEPT ![r] = Idle]
          /\ UNCHANGED statsRows
    /\ UNCHANGED <<actionRows, served>>

\* DeleteFromActions; success or error, the request is answered.
DeleteActions(r) ==
    /\ req[r].pc = "delActions"
    /\ \/ actionRows' = [actionRows EXCEPT ![req[r].key] = 0]
       \/ UNCHANGED actionRows
    /\ req' = [req EXCEPT ![r] = Idle]
    /\ UNCHANGED <<statsRows, served>>

Next ==
    \E r \in Requests :
       \/ \E k \in Keys, n \in 0..MaxActions, bad \in 0..MaxActions, ok \in BOOLEAN :
             bad <= n /\ BeginSubmit(r, k, n, bad, ok)
       \/ AddActionStep(r)
       \/ EndOfActions(r)
       \/ Convert(r)
       \/ StoreStats(r)
       \/ \E k \in Keys : BeginDelete(r, k)
       \/ DeleteStats(r)
       \/ DeleteActions(r)

Spec == Init /\ [][Next]_vars

-----------------------------------------------------------------------------
(***************************************************************************)
(* Properties.                                                             *)
(***************************************************************************)

\* A deletion whose DeleteFromActions removes the key's action rows, and
\* so answers success, leaves no stats row under the key either
\* (TestDeleteFromStats2024 expects both tables free of the key).  The two
\* calls are not one transaction: a submission of the key may store its
\* actions and its stats row between them.
DeleteClearsKey ==
    [][\A r \in Requests :
         (req[r].pc = "delActions" /\ req'[r].pc = "idle"
            /\ actionRows[req[r].key] > 0 /\ actionRows'[req[r].key] = 0)
           => statsRows'[req[r].key] = 0]_vars

\* When no request is in flight, every key with stored actions has its
\* stats row: a submission that fails is not partly persisted (spec.md 7:
\* "abort and report to the caller, do not partially persist").
NoOrphanActions ==
    (\A r \in Requests : req[r].pc = "idle") =>
        \A k \in Keys : actionRows[k] > 0 => statsRows[k] > 0

=============================================================================
