---------------------------- MODULE RowHandlers ----------------------------
(***************************************************************************)
(* The handlers of requests.go that add rows to a table or read them back: *)
(* notes (submitNoteScoutingHandler, requestNotesForTeamHandler,           *)
(* requestAllNotesHandler), pit images (submitPitImageScoutingHandler,     *)
(* requestPitImagesHandler, requestAllPitImagesHandler), driver rankings   *)
(* (SubmitDriverRankingHandler, requestAllDriverRankingsHandler) and the   *)
(* shift schedule (submitShiftScheduleHandler,                             *)
(* requestShiftScheduleHandler), served concurrently by net/http.          *)
(*                                                                         *)
(* A submission makes one Add* call per row (the shift schedule one per    *)
(* match assignment, in a loop) and answers success after the last; a      *)
(* failed call answers an error at once, leaving the earlier rows stored.  *)
(* A read makes one Return*/Query* call and copies the rows into the       *)
(* response.  Each database call is one atomic step that may fail.  A row  *)
(* is a key (team or match number) and a payload; the tables are sets, so  *)
(* a row added twice is held once.  A body that cannot be read or parsed   *)
(* is answered without touching the database and is left out.             *)
(***************************************************************************)
EXTENDS Naturals, Sequences, FiniteSets

CONSTANTS
    Keys,         \* team numbers (notes, pit images), match numbers (rankings, shifts)
    Payloads,     \* the rest of a row
    Requests,     \* goroutines serving requests at the same time
    MaxShifts,    \* bound on the match assignments of one shift schedule
    MaxRequests   \* bound on the requests served in one behaviour

ASSUME KeysAssumption == Keys # {} /\ Payloads # {}
ASSUME MaxShiftsAssumption == MaxShifts \in Nat \ {0}
ASSUME MaxRequestsAssumption == MaxRequests \in Nat

Tables == {"notes", "pitImages", "rankings", "shifts"}

Row == Keys \X Payloads

\* The rows a submission can carry: one, or a shift schedule.
RowLists == UNION {[1..n -> Row] : n \in 1..MaxShifts}

VARIABLES
    db,           \* db[t]: the rows of table t
    req,          \* state of each goroutine
    served,       \* requests begun so far
    acked         \* history: <<t, x>> when a submission of row x to t was answered success

vars == <<db, req, served, acked>>

\* seen: history, the acknowledged rows when a read began.
Idle == [pc |-> "idle", tbl |-> CHOOSE t \in Tables : TRUE, rows |-> <<>>, i |-> 0, keys |-> {},
         seen |-> {}, result |-> {}]

ReqState ==
    [pc : {"idle", "add", "read", "answer"}, tbl : Tables,
     rows : RowLists \cup {<<>>}, i : 0..MaxShifts, keys : SUBSET Keys,
     seen : SUBSET (Tables \X Row), result : SUBSET Row]

TypeOK ==
    /\ db \in [Tables -> SUBSET Row]
    /\ req \in [Requests -> ReqState]
    /\ served \in 0..MaxRequests
    /\ acked \subseteq Tables \X Row

Init ==
    /\ db = [t \in Tables |-> {}]
    /\ req = [r \in Requests |-> Idle]
    /\ served = 0
    /\ acked = {}

\* The rows of table t under the keys ks.
Select(t, ks) == {x \in db[t] : x[1] \in ks}

-----------------------------------------------------------------------------
(***************************************************************************)
(* Submissions.                                                            *)
(***************************************************************************)

\* The body is read and parsed, and the rows to add are taken from it.
BeginSubmit(r, t, rows) ==
    /\ req[r].pc = "idle"
    /\ served < MaxRequests
    /\ served' = served + 1
    /\ req' = [req EXCEPT ![r] = [pc |-> "add", tbl |-> t, rows |-> rows, i |-> 0,
                                  keys |-> {}, seen |-> {}, result |-> {}]]
    /\ UNCHANGED <<db, acked>>

SubmitNotes(r, x) == BeginSubmit(r, "notes", <<x>>)

SubmitPitImage(r, x) == BeginSubmit(r, "pitImages", <<x>>)

SubmitDriverRanking(r, x) == BeginSubmit(r, "rankings", <<x>>)

SubmitShiftSchedule(r, rows) == BeginSubmit(r, "shifts", rows)

\* Mutant: the loop goes on to the next assignment when AddToShift fails.
AddRowIgnoreError(r) ==
    LET t == req[r].tbl
        i == req[r].i
    IN /\ req[r].pc = "add"
       /\ i < Len(req[r].rows)
       /\ \/ /\ db' = [db EXCEPT ![t] = @ \cup {req[r].rows[i + 1]}]
             /\ req' = [req EXCEPT ![r].i = i + 1]
          \/ /\ req' = [req EXCEPT ![r].i = i + 1]
             /\ UNCHANGED db
       /\ UNCHANGED <<served, acked>>

\* One Add* call (AddNotes, AddPitImage, AddDriverRanking, or AddToShift
\* in the shift schedule's loop); an error is answered at once.
AddRow(r) ==
    LET t == req[r].tbl
        i == req[r].i
    IN /\ req[r].pc = "add"
       /\ i < Len(req[r].rows)
       /\ \/ /\ db' = [db EXCEPT ![t] = @ \cup {req[r].rows[i + 1]}]
             /\ req' = [req EXCEPT ![r].i = i + 1]
          \/ /\ req' = [req EXCEPT ![r] = Idle]
             /\ UNCHANGED db
       /\ UNCHANGED <<served, acked>>

\* Mutant: the loop stops one assignment short (i < length - 1).
AcknowledgeShort(r) ==
    /\ req[r].pc = "add"
    /\ req[r].i = Len(req[r].rows) - 1
    /\ acked' = acked \cup {<<req[r].tbl, req[r].rows[j]>> : j \in DOMAIN req[r].rows}
    /\ req' = [req EXCEPT ![r] = Idle]
    /\ UNCHANGED <<db, served>>

\* Every row is added: the success response is written.
Acknowledge(r) ==
    /\ req[r].pc = "add"
    /\ req[r].i = Len(req[r].rows)
    /\ acked' = acked \cup {<<req[r].tbl, req[r].rows[j]>> : j \in DOMAIN req[r].rows}
    /\ req' = [req EXCEPT ![r] = Idle]
    /\ UNCHANGED <<db, served>>

-----------------------------------------------------------------------------
(***************************************************************************)
(* Reads.                                                                  *)
(***************************************************************************)

\* The body is read and parsed; the read asks for the rows of t under ks.
BeginRead(r, t, ks) ==
    /\ req[r].pc = "idle"
    /\ served < MaxRequests
    /\ served' = served + 1
    /\ req' = [req EXCEPT ![r] = [pc |-> "read", tbl |-> t, rows |-> <<>>, i |-> 0,
                                  keys |-> ks, seen |-> acked, result |-> {}]]
    /\ UNCHANGED <<db, acked>>

RequestAllNotes(r) == BeginRead(r, "notes", Keys)

RequestNotesForTeam(r, k) == BeginRead(r, "notes", {k})

RequestAllPitImages(r) == BeginRead(r, "pitImages", Keys)

RequestPitImages(r, k) == BeginRead(r, "pitImages", {k})

RequestAllDriverRankings(r) == BeginRead(r, "rankings", Keys)

RequestShiftSchedule(r) == BeginRead(r, "shifts", Keys)

\* The Return*/Query* call; an error is answered at once.
Query(r) ==
    /\ req[r].pc = "read"
    /\ \/ req' = [req EXCEPT ![r].pc = "answer", ![r].result = Select(req[r].tbl, req[r].keys)]
       \/ req' = [req EXCEPT ![r] = Idle]
    /\ UNCHANGED <<db, served, acked>>

\* The rows are copied into the response, which is written.
Answer(r) ==
    /\ req[r].pc = "answer"
    /\ req' = [req EXCEPT ![r] = Idle]
    /\ UNCHANGED <<db, served, acked>>

Next ==
    \E r \in Requests :
       \/ \E x \in Row : SubmitNotes(r, x) \/ SubmitPitImage(r, x) \/ SubmitDriverRanking(r, x)
       \/ \E rows \in RowLists : SubmitShiftSchedule(r, rows)
       \/ AddRow(r)
       \/ Acknowledge(r)
       \/ RequestAllNotes(r) \/ RequestAllPitImages(r)
       \/ RequestAllDriverRankings(r) \/ RequestShiftSchedule(r)
       \/ \E k \in Keys : RequestNotesForTeam(r, k) \/ RequestPitImages(r, k)
       \/ Query(r)
       \/ Answer(r)

Spec == Init /\ [][Next]_vars

-----------------------------------------------------------------------------
(***************************************************************************)
(* Properties.                                                             *)
(***************************************************************************)

\* A read's response holds every row under its keys that a submission had
\* been answered success for before the read began: no handler answers
\* success for a row that an Add* call failed to store, nor before the
\* last row of a shift schedule is stored, and no handler removes rows.
ReadSeesAcknowledged ==
    \A r \in Requests :
       req[r].pc = "answer" =>
          \A x \in Row : (<<req[r].tbl, x>> \in req[r].seen /\ x[1] \in req[r].keys)
                            => x \in req[r].result

\* The reads a request is serving, as RowTables describes them.
ReadOf(r) ==
    IF req[r].pc \in {"read", "answer"}
      THEN [pc |-> IF req[r].pc = "read" THEN "reading" ELSE "answer",
            tbl |-> req[r].tbl, keys |-> req[r].keys, seen |-> req[r].seen,
            result |-> req[r].result]
      ELSE [pc |-> "idle", tbl |-> CHOOSE t \in Tables : TRUE, keys |-> {}, seen |-> {}, result |-> {}]

Abstract == INSTANCE RowTables WITH Tables <- Tables, Row <- Row, Requests <- Requests,
                                    tables <- db, acked <- acked,
                                    rd <- [r \in Requests |-> ReadOf(r)]

\* The handlers implement RowTables: every Add* call that succeeds stores
\* a row, a success answer covers only stored rows, and every read answers
\* with its table as it was at one moment after it was received.
ImplementsRowTables == Abstract!Spec

=============================================================================
