------------------------- MODULE RowHandlersProofs -------------------------
(***************************************************************************)
(* Proofs about RowHandlers, for any keys, payloads, goroutines and bounds. *)
(***************************************************************************)
EXTENDS RowHandlers, SequenceTheorems, TLAPS

(***************************************************************************)
(* The invariant behind ReadSeesAcknowledged and the refinement.  Rows are *)
(* never removed, a submission has stored the rows its loop has passed,    *)
(* only stored rows are acknowledged, and a read remembers only            *)
(* acknowledged rows.                                                      *)
(***************************************************************************)
AckedStored == \A t \in Tables, x \in Row : <<t, x>> \in acked => x \in db[t]

PrefixStoredAt(r) ==
    req[r].pc = "add" =>
       /\ req[r].rows \in RowLists
       /\ req[r].i <= Len(req[r].rows)
       /\ \A j \in 1..req[r].i : req[r].rows[j] \in db[req[r].tbl]

PrefixStored == \A r \in Requests : PrefixStoredAt(r)

SeenAckedAt(r) == req[r].pc \in {"read", "answer"} => req[r].seen \subseteq acked

SeenAcked == \A r \in Requests : SeenAckedAt(r)

SeesAckedAt(r) ==
    req[r].pc = "answer" =>
       \A x \in Row : (<<req[r].tbl, x>> \in req[r].seen /\ x[1] \in req[r].keys)
                         => x \in req[r].result

IInv == TypeOK /\ AckedStored /\ PrefixStored /\ SeenAcked /\ ReadSeesAcknowledged

(***************************************************************************)
(* Type correctness.                                                       *)
(***************************************************************************)

\* The rows of a submission form a non-empty sequence of at most MaxShifts.
LEMMA RowListsLen ==
    ASSUME NEW s \in RowLists
    PROVE  /\ s \in Seq(Row)
           /\ Len(s) \in 1..MaxShifts
           /\ DOMAIN s = 1..Len(s)
<1>1. PICK n \in 1..MaxShifts : s \in [1..n -> Row]
    BY DEF RowLists
<1>2. s \in Seq(Row)
    BY <1>1, SeqDef
<1>3. DOMAIN s = 1..Len(s) /\ Len(s) \in Nat
    BY <1>2, LenProperties
<1>4. Len(s) = n
    BY <1>1, <1>3
<1>. QED  BY <1>2, <1>3, <1>4

LEMMA IdleType == Idle \in ReqState
BY MaxShiftsAssumption DEF Idle, ReqState, Tables

\* A one-row submission.
LEMMA SingleRow ==
    ASSUME NEW x \in Row PROVE <<x>> \in RowLists
BY MaxShiftsAssumption DEF RowLists

LEMMA InitTypeOK == Init => TypeOK
BY IdleType, MaxRequestsAssumption DEF Init, TypeOK

LEMMA TypeStep == TypeOK /\ [Next]_vars => TypeOK'
<1> SUFFICES ASSUME TypeOK, [Next]_vars PROVE TypeOK'
    OBVIOUS
<1>c. \A q \in Requests : req[q] \in ReqState
    BY DEF TypeOK
<1>1. ASSUME NEW r \in Requests, NEW t \in Tables, NEW rows \in RowLists,
             BeginSubmit(r, t, rows)
      PROVE  TypeOK'
    <2>1. [pc |-> "add", tbl |-> t, rows |-> rows, i |-> 0, keys |-> {}, seen |-> {},
           result |-> {}] \in ReqState
        BY MaxShiftsAssumption DEF ReqState
    <2>. QED  BY <1>1, <2>1, MaxRequestsAssumption DEF BeginSubmit, TypeOK
<1>2. ASSUME NEW r \in Requests, NEW t \in Tables, NEW ks \in SUBSET Keys,
             BeginRead(r, t, ks)
      PROVE  TypeOK'
    <2>1. [pc |-> "read", tbl |-> t, rows |-> <<>>, i |-> 0, keys |-> ks, seen |-> acked,
           result |-> {}] \in ReqState
        BY MaxShiftsAssumption DEF ReqState, TypeOK
    <2>. QED  BY <1>2, <2>1, MaxRequestsAssumption DEF BeginRead, TypeOK
<1>3. ASSUME NEW r \in Requests, AddRow(r) PROVE TypeOK'
    <2>1. req[r].rows \in RowLists
        <3>1. req[r].rows \in RowLists \cup {<<>>} /\ req[r].i < Len(req[r].rows)
              /\ req[r].i \in Nat
            BY <1>3, <1>c DEF AddRow, ReqState
        <3>2. Len(<<>>) = 0
            BY EmptySeq
        <3>. QED  BY <3>1, <3>2
    <2>2. req[r].i + 1 \in 0..MaxShifts /\ req[r].rows[req[r].i + 1] \in Row
        <3>1. req[r].i \in 0..MaxShifts /\ req[r].i < Len(req[r].rows)
            BY <1>3, <1>c DEF AddRow, ReqState
        <3>2. Len(req[r].rows) \in 1..MaxShifts /\ req[r].rows \in Seq(Row)
            BY <2>1, RowListsLen
        <3>3. req[r].i + 1 \in 1..Len(req[r].rows)
            BY <3>1, <3>2
        <3>4. req[r].rows[req[r].i + 1] \in Row
            BY <3>2, <3>3, ElementOfSeq
        <3>5. req[r].i + 1 \in 0..MaxShifts
            BY <3>2, <3>3, MaxShiftsAssumption
        <3>. QED  BY <3>4, <3>5
    <2>3. [req[r] EXCEPT !.i = req[r].i + 1] \in ReqState
        BY <2>2, <1>c DEF ReqState
    <2>. QED  BY <1>3, <2>2, <2>3, IdleType DEF AddRow, TypeOK
<1>4. ASSUME NEW r \in Requests, Acknowledge(r) PROVE TypeOK'
    <2>1. req[r].rows \in RowLists \cup {<<>>}
        BY <1>c DEF ReqState
    <2>2. \A j \in DOMAIN req[r].rows : req[r].rows[j] \in Row
        <3>1. CASE req[r].rows \in RowLists
            BY <3>1, RowListsLen, ElementOfSeq
        <3>2. CASE req[r].rows = <<>>
            BY <3>2
        <3>. QED  BY <2>1, <3>1, <3>2
    <2>. QED  BY <1>4, <1>c, <2>2, IdleType DEF Acknowledge, TypeOK, ReqState
<1>5. ASSUME NEW r \in Requests, Query(r) PROVE TypeOK'
    <2>1. [req[r] EXCEPT !.pc = "answer", !.result = Select(req[r].tbl, req[r].keys)] \in ReqState
        BY <1>c DEF ReqState, Select, TypeOK
    <2>. QED  BY <1>5, <2>1, IdleType DEF Query, TypeOK
<1>6. ASSUME NEW r \in Requests, Answer(r) PROVE TypeOK'
    BY <1>6, IdleType DEF Answer, TypeOK
<1>7. CASE UNCHANGED vars
    BY <1>7 DEF vars, TypeOK
<1>. QED
    <2>1. ASSUME NEW r \in Requests,
                 \/ \E x \in Row : SubmitNotes(r, x) \/ SubmitPitImage(r, x) \/ SubmitDriverRanking(r, x)
                 \/ \E rows \in RowLists : SubmitShiftSchedule(r, rows)
          PROVE  TypeOK'
        BY <2>1, <1>1, SingleRow DEF SubmitNotes, SubmitPitImage, SubmitDriverRanking,
                                     SubmitShiftSchedule, Tables
    <2>2. ASSUME NEW r \in Requests,
                 \/ RequestAllNotes(r) \/ RequestAllPitImages(r)
                 \/ RequestAllDriverRankings(r) \/ RequestShiftSchedule(r)
                 \/ \E k \in Keys : RequestNotesForTeam(r, k) \/ RequestPitImages(r, k)
          PROVE  TypeOK'
        BY <2>2, <1>2 DEF RequestAllNotes, RequestAllPitImages, RequestAllDriverRankings,
                          RequestShiftSchedule, RequestNotesForTeam, RequestPitImages, Tables
    <2>. QED  BY <1>3, <1>4, <1>5, <1>6, <1>7, <2>1, <2>2 DEF Next

\* Every reachable state of the row handlers is well typed.
THEOREM TypeCorrect == Spec => []TypeOK
BY InitTypeOK, TypeStep, PTL DEF Spec

(***************************************************************************)
(* The invariant is inductive.                                             *)
(***************************************************************************)

LEMMA SeesAckedAll == ReadSeesAcknowledged <=> \A r \in Requests : SeesAckedAt(r)
BY DEF ReadSeesAcknowledged, SeesAckedAt

LEMMA InitIInv == Init => IInv
<1> SUFFICES ASSUME Init PROVE IInv
    OBVIOUS
<1>1. \A r \in Requests : req[r] = Idle
    BY DEF Init
<1>. QED  BY <1>1, InitTypeOK, SeesAckedAll
          DEF IInv, AckedStored, PrefixStored, PrefixStoredAt, SeenAcked, SeenAckedAt,
              SeesAckedAt, Idle, Init

\* A step that leaves every other request alone, removes no row and takes
\* back no acknowledgement keeps the invariant for the other requests.
LEMMA OthersKeep ==
    ASSUME IInv, NEW r \in Requests,
           \A q \in Requests \ {r} : req'[q] = req[q],
           \A t \in Tables : db[t] \subseteq db'[t],
           acked \subseteq acked'
    PROVE  \A q \in Requests \ {r} : PrefixStoredAt(q)' /\ SeenAckedAt(q)' /\ SeesAckedAt(q)'
<1> SUFFICES ASSUME NEW q \in Requests \ {r}
             PROVE  PrefixStoredAt(q)' /\ SeenAckedAt(q)' /\ SeesAckedAt(q)'
    OBVIOUS
<1>1. req[q] \in ReqState
    BY DEF IInv, TypeOK
<1>2. PrefixStoredAt(q)'
    BY <1>1 DEF IInv, PrefixStored, PrefixStoredAt, ReqState
<1>3. SeenAckedAt(q)'
    BY DEF IInv, SeenAcked, SeenAckedAt
<1>4. SeesAckedAt(q)'
    BY SeesAckedAll DEF IInv, SeesAckedAt
<1>. QED  BY <1>2, <1>3, <1>4

\* The conjuncts of IInv from the ones of each request.
LEMMA IInvFromParts ==
    ASSUME TypeOK', AckedStored', \A q \in Requests : PrefixStoredAt(q)' /\ SeenAckedAt(q)' /\ SeesAckedAt(q)'
    PROVE  IInv'
BY DEF IInv, PrefixStored, SeenAcked, ReadSeesAcknowledged, SeesAckedAt

\* Advancing the loop index of a request leaves its other fields.
LEMMA SetI ==
    ASSUME NEW q \in ReqState, NEW n
    PROVE  LET q2 == [q EXCEPT !.i = n]
           IN  /\ q2.pc = q.pc /\ q2.rows = q.rows /\ q2.tbl = q.tbl /\ q2.i = n
               /\ q2.seen = q.seen /\ q2.keys = q.keys /\ q2.result = q.result
BY DEF ReqState

\* A request that goes back to Idle satisfies its own conjuncts.
LEMMA IdleParts ==
    ASSUME NEW r \in Requests, req'[r] = Idle
    PROVE  PrefixStoredAt(r)' /\ SeenAckedAt(r)' /\ SeesAckedAt(r)'
BY DEF PrefixStoredAt, SeenAckedAt, SeesAckedAt, Idle

LEMMA IInvStep == IInv /\ [Next]_vars => IInv'
<1> SUFFICES ASSUME IInv, [Next]_vars PROVE IInv'
    OBVIOUS
<1>a. TypeOK /\ AckedStored /\ PrefixStored /\ SeenAcked /\ ReadSeesAcknowledged
    BY DEF IInv
<1>t. TypeOK'
    BY <1>a, TypeStep
<1>c. \A q \in Requests : req[q] \in ReqState
    BY <1>a DEF TypeOK
<1>1. ASSUME NEW r \in Requests, NEW t \in Tables, NEW rows \in RowLists,
             BeginSubmit(r, t, rows)
      PROVE  IInv'
    <2>1. \A q \in Requests \ {r} : req'[q] = req[q]
        BY <1>1, <1>a DEF BeginSubmit, TypeOK
    <2>2. req'[r] = [pc |-> "add", tbl |-> t, rows |-> rows, i |-> 0, keys |-> {},
                     seen |-> {}, result |-> {}]
        BY <1>1, <1>a DEF BeginSubmit, TypeOK
    <2>3. PrefixStoredAt(r)' /\ SeenAckedAt(r)' /\ SeesAckedAt(r)'
        <3>1. Len(rows) \in Nat
            BY RowListsLen
        <3>. QED  BY <2>2, <3>1 DEF PrefixStoredAt, SeenAckedAt, SeesAckedAt
    <2>4. AckedStored'
        BY <1>1, <1>a DEF BeginSubmit, AckedStored
    <2>. QED  BY <2>1, <2>3, <2>4, <1>1, <1>t, OthersKeep, IInvFromParts DEF BeginSubmit
<1>2. ASSUME NEW r \in Requests, NEW t \in Tables, NEW ks \in SUBSET Keys,
             BeginRead(r, t, ks)
      PROVE  IInv'
    <2>1. \A q \in Requests \ {r} : req'[q] = req[q]
        BY <1>2, <1>a DEF BeginRead, TypeOK
    <2>2. req'[r] = [pc |-> "read", tbl |-> t, rows |-> <<>>, i |-> 0, keys |-> ks,
                     seen |-> acked, result |-> {}]
        BY <1>2, <1>a DEF BeginRead, TypeOK
    <2>3. PrefixStoredAt(r)' /\ SeenAckedAt(r)' /\ SeesAckedAt(r)'
        BY <2>2, <1>2 DEF BeginRead, PrefixStoredAt, SeenAckedAt, SeesAckedAt
    <2>4. AckedStored'
        BY <1>2, <1>a DEF BeginRead, AckedStored
    <2>. QED  BY <2>1, <2>3, <2>4, <1>2, <1>t, OthersKeep, IInvFromParts DEF BeginRead
<1>3. ASSUME NEW r \in Requests, AddRow(r) PROVE IInv'
    <2> DEFINE t == req[r].tbl
               i == req[r].i
               rows == req[r].rows
    <2>0. /\ req[r].pc = "add" /\ i < Len(rows) /\ rows \in RowLists
          /\ i <= Len(rows) /\ \A j \in 1..i : rows[j] \in db[t]
          /\ t \in Tables /\ i \in Nat
        BY <1>3, <1>a, <1>c DEF AddRow, PrefixStored, PrefixStoredAt, ReqState
    <2>1. \A q \in Requests \ {r} : req'[q] = req[q]
        BY <1>3, <1>a DEF AddRow, TypeOK
    <2>2. CASE /\ db' = [db EXCEPT ![t] = @ \cup {rows[i + 1]}]
               /\ req' = [req EXCEPT ![r].i = i + 1]
        <3>1. \A tt \in Tables : db'[tt] = IF tt = t THEN db[t] \cup {rows[i + 1]} ELSE db[tt]
            BY <2>2, <2>0, <1>a DEF TypeOK
        <3>2. \A tt \in Tables : db[tt] \subseteq db'[tt]
            BY <3>1
        <3>3. req'[r] = [req[r] EXCEPT !.i = i + 1]
            BY <2>2, <1>a DEF TypeOK
        <3>4. req'[r].pc = "add" /\ req'[r].rows = rows /\ req'[r].tbl = t /\ req'[r].i = i + 1
            BY <3>3, <1>c, <2>0, SetI
        <3>5. PrefixStoredAt(r)'
            <4>1. \A j \in 1..i + 1 : rows[j] \in db'[t]
                BY <2>0, <3>1
            <4>. QED  BY <4>1, <3>4, <2>0 DEF PrefixStoredAt
        <3>6. SeenAckedAt(r)' /\ SeesAckedAt(r)'
            BY <3>4 DEF SeenAckedAt, SeesAckedAt
        <3>7. AckedStored'
            BY <3>2, <1>3, <1>a DEF AddRow, AckedStored
        <3>. QED  BY <2>1, <3>2, <3>5, <3>6, <3>7, <1>3, <1>t, OthersKeep, IInvFromParts DEF AddRow
    <2>3. CASE req' = [req EXCEPT ![r] = Idle] /\ UNCHANGED db
        <3>1. req'[r] = Idle
            BY <2>3, <1>a DEF TypeOK
        <3>2. AckedStored'
            BY <2>3, <1>3, <1>a DEF AddRow, AckedStored
        <3>. QED  BY <2>1, <2>3, <3>1, <3>2, <1>3, <1>t, OthersKeep, IdleParts, IInvFromParts DEF AddRow
    <2>. QED  BY <1>3, <2>2, <2>3 DEF AddRow
<1>4. ASSUME NEW r \in Requests, Acknowledge(r) PROVE IInv'
    <2> DEFINE t == req[r].tbl
               rows == req[r].rows
    <2>0. /\ rows \in RowLists /\ req[r].i = Len(rows)
          /\ \A j \in 1..Len(rows) : rows[j] \in db[t]
        BY <1>4, <1>a DEF Acknowledge, PrefixStored, PrefixStoredAt
    <2>1. \A q \in Requests \ {r} : req'[q] = req[q]
        BY <1>4, <1>a DEF Acknowledge, TypeOK
    <2>2. req'[r] = Idle
        BY <1>4, <1>a DEF Acknowledge, TypeOK
    <2>3. AckedStored'
        <3>1. DOMAIN rows = 1..Len(rows)
            BY <2>0, RowListsLen
        <3>. QED  BY <3>1, <2>0, <1>4, <1>a DEF Acknowledge, AckedStored
    <2>4. acked \subseteq acked' /\ \A tt \in Tables : db[tt] \subseteq db'[tt]
        BY <1>4 DEF Acknowledge
    <2>. QED  BY <2>1, <2>2, <2>3, <2>4, <1>t, OthersKeep, IdleParts, IInvFromParts
<1>5. ASSUME NEW r \in Requests, Query(r) PROVE IInv'
    <2>1. \A q \in Requests \ {r} : req'[q] = req[q]
        BY <1>5, <1>a DEF Query, TypeOK
    <2>2. AckedStored' /\ acked \subseteq acked' /\ \A tt \in Tables : db[tt] \subseteq db'[tt]
        BY <1>5, <1>a DEF Query, AckedStored
    <2>3. CASE req' = [req EXCEPT ![r].pc = "answer", ![r].result = Select(req[r].tbl, req[r].keys)]
        <3>1. req'[r].pc = "answer" /\ req'[r].tbl = req[r].tbl /\ req'[r].keys = req[r].keys
              /\ req'[r].seen = req[r].seen /\ req'[r].result = Select(req[r].tbl, req[r].keys)
            BY <2>3, <1>c, <1>a DEF ReqState, TypeOK
        <3>2. req[r].seen \subseteq acked /\ req[r].tbl \in Tables
            BY <1>5, <1>c DEF Query, IInv, SeenAcked, SeenAckedAt, ReqState
        <3>3. SeesAckedAt(r)'
            BY <3>1, <3>2, <1>5, <1>a DEF Query, SeesAckedAt, AckedStored, Select
        <3>4. PrefixStoredAt(r)' /\ SeenAckedAt(r)'
            BY <3>1, <3>2, <1>5 DEF Query, PrefixStoredAt, SeenAckedAt
        <3>. QED  BY <2>1, <2>2, <3>3, <3>4, <1>t, OthersKeep, IInvFromParts
    <2>4. CASE req' = [req EXCEPT ![r] = Idle]
        <3>1. req'[r] = Idle
            BY <2>4, <1>a DEF TypeOK
        <3>. QED  BY <2>1, <2>2, <3>1, <1>t, OthersKeep, IdleParts, IInvFromParts
    <2>. QED  BY <1>5, <2>3, <2>4 DEF Query
<1>6. ASSUME NEW r \in Requests, Answer(r) PROVE IInv'
    <2>1. \A q \in Requests \ {r} : req'[q] = req[q]
        BY <1>6, <1>a DEF Answer, TypeOK
    <2>2. req'[r] = Idle
        BY <1>6, <1>a DEF Answer, TypeOK
    <2>3. AckedStored' /\ acked \subseteq acked' /\ \A tt \in Tables : db[tt] \subseteq db'[tt]
        BY <1>6, <1>a DEF Answer, AckedStored
    <2>. QED  BY <2>1, <2>2, <2>3, <1>t, OthersKeep, IdleParts, IInvFromParts
<1>7. CASE UNCHANGED vars
    <2>1. AckedStored'
        BY <1>7, <1>a DEF vars, AckedStored
    <2>2. ASSUME NEW q \in Requests PROVE PrefixStoredAt(q)' /\ SeenAckedAt(q)' /\ SeesAckedAt(q)'
        <3>1. PrefixStoredAt(q) /\ SeenAckedAt(q) /\ SeesAckedAt(q)
            BY <1>a, SeesAckedAll DEF PrefixStored, SeenAcked
        <3>. QED  BY <3>1, <1>7 DEF vars, PrefixStoredAt, SeenAckedAt, SeesAckedAt
    <2>. QED  BY <2>1, <2>2, <1>t, IInvFromParts
<1>. QED
    <2>1. ASSUME NEW r \in Requests,
                 \/ \E x \in Row : SubmitNotes(r, x) \/ SubmitPitImage(r, x) \/ SubmitDriverRanking(r, x)
                 \/ \E rows \in RowLists : SubmitShiftSchedule(r, rows)
          PROVE  IInv'
        BY <2>1, <1>1, SingleRow DEF SubmitNotes, SubmitPitImage, SubmitDriverRanking,
                                     SubmitShiftSchedule, Tables
    <2>2. ASSUME NEW r \in Requests,
                 \/ RequestAllNotes(r) \/ RequestAllPitImages(r)
                 \/ RequestAllDriverRankings(r) \/ RequestShiftSchedule(r)
                 \/ \E k \in Keys : RequestNotesForTeam(r, k) \/ RequestPitImages(r, k)
          PROVE  IInv'
        BY <2>2, <1>2 DEF RequestAllNotes, RequestAllPitImages, RequestAllDriverRankings,
                          RequestShiftSchedule, RequestNotesForTeam, RequestPitImages, Tables
    <2>. QED  BY <1>3, <1>4, <1>5, <1>6, <1>7, <2>1, <2>2 DEF Next

\* Whatever the interleaving of submissions, failed Add* calls and reads,
\* a read's response holds every row acknowledged before the read began.
THEOREM ReadsSeeAcknowledgedRows == Spec => []ReadSeesAcknowledged
<1>1. Spec => []IInv
    BY InitIInv, IInvStep, PTL DEF Spec
<1>. QED  BY <1>1, PTL DEF IInv

(***************************************************************************)
(* Refinement: the handlers implement RowTables.                           *)
(***************************************************************************)

\* The refinement mapping of rd.
rdBar == [r \in Requests |-> ReadOf(r)]

\* A step that leaves the other requests alone changes the mapped reads at
\* most at r.
LEMMA ReadFrame ==
    ASSUME NEW r \in Requests, \A q \in Requests \ {r} : req'[q] = req[q]
    PROVE  rdBar' = [rdBar EXCEPT ![r] = ReadOf(r)']
BY DEF rdBar, ReadOf

\* A request that is not reading, before and after, is mapped to NoRead.
LEMMA NotReadingSame ==
    ASSUME NEW r \in Requests,
           req[r].pc \notin {"read", "answer"}, req'[r].pc \notin {"read", "answer"}
    PROVE  ReadOf(r)' = ReadOf(r)
BY DEF ReadOf

LEMMA NotReadingNoRead ==
    ASSUME NEW r \in Requests, req[r].pc \notin {"read", "answer"}
    PROVE  ReadOf(r) = Abstract!NoRead
BY DEF ReadOf, Abstract!NoRead

LEMMA NotReadingNoReadPrime ==
    ASSUME NEW r \in Requests, req'[r].pc \notin {"read", "answer"}
    PROVE  ReadOf(r)' = Abstract!NoRead
BY DEF ReadOf, Abstract!NoRead

LEMMA InitRefines == Init => Abstract!Init
<1> SUFFICES ASSUME Init PROVE Abstract!Init
    OBVIOUS
<1>1. \A r \in Requests : ReadOf(r) = Abstract!NoRead
    BY NotReadingNoRead DEF Init, Idle
<1>. QED  BY <1>1 DEF Init, Abstract!Init, rdBar

LEMMA StepRefines == IInv /\ [Next]_vars => [Abstract!Next]_<<db, acked, rdBar>>
<1> SUFFICES ASSUME IInv, [Next]_vars PROVE [Abstract!Next]_<<db, acked, rdBar>>
    OBVIOUS
<1>a. TypeOK /\ AckedStored /\ PrefixStored
    BY DEF IInv
<1>c. \A q \in Requests : req[q] \in ReqState
    BY <1>a DEF TypeOK
\* A step that changes no request's mapped read.
<1>s. ASSUME NEW r \in Requests, \A q \in Requests \ {r} : req'[q] = req[q],
             req[r].pc \notin {"read", "answer"}, req'[r].pc \notin {"read", "answer"}
      PROVE  rdBar' = rdBar
    <2>1. ReadOf(r)' = ReadOf(r)
        BY <1>s, NotReadingSame
    <2>. QED  BY <1>s, <2>1, ReadFrame DEF rdBar
<1>1. ASSUME NEW r \in Requests, NEW t \in Tables, NEW rows \in RowLists,
             BeginSubmit(r, t, rows)
      PROVE  UNCHANGED <<db, acked, rdBar>>
    <2>1. \A q \in Requests \ {r} : req'[q] = req[q]
        BY <1>1, <1>a DEF BeginSubmit, TypeOK
    <2>2. req'[r].pc = "add"
        BY <1>1, <1>a DEF BeginSubmit, TypeOK
    <2>. QED  BY <1>1, <2>1, <2>2, <1>s DEF BeginSubmit
<1>2. ASSUME NEW r \in Requests, NEW t \in Tables, NEW ks \in SUBSET Keys,
             BeginRead(r, t, ks)
      PROVE  Abstract!StartRead(r, t, ks)
    <2>1. \A q \in Requests \ {r} : req'[q] = req[q]
        BY <1>2, <1>a DEF BeginRead, TypeOK
    <2>2. req'[r] = [pc |-> "read", tbl |-> t, rows |-> <<>>, i |-> 0, keys |-> ks,
                     seen |-> acked, result |-> {}]
        BY <1>2, <1>a DEF BeginRead, TypeOK
    <2>3. ReadOf(r)' = [pc |-> "reading", tbl |-> t, keys |-> ks, seen |-> acked, result |-> {}]
        BY <2>2, <1>2 DEF ReadOf, BeginRead
    <2>4. rdBar[r].pc = "idle"
        BY <1>2, NotReadingNoRead DEF BeginRead, rdBar, Abstract!NoRead
    <2>. QED  BY <1>2, <2>1, <2>3, <2>4, ReadFrame DEF BeginRead, Abstract!StartRead, rdBar
<1>3. ASSUME NEW r \in Requests, AddRow(r) PROVE [Abstract!Next]_<<db, acked, rdBar>>
    <2> DEFINE t == req[r].tbl
               i == req[r].i
               rows == req[r].rows
    <2>0. /\ req[r].pc = "add" /\ i < Len(rows) /\ rows \in RowLists /\ t \in Tables /\ i \in Nat
        BY <1>3, <1>a, <1>c DEF AddRow, PrefixStored, PrefixStoredAt, ReqState
    <2>x. rows[i + 1] \in Row
        BY <2>0, RowListsLen, ElementOfSeq
    <2>1. \A q \in Requests \ {r} : req'[q] = req[q]
        BY <1>3, <1>a DEF AddRow, TypeOK
    <2>2. CASE /\ db' = [db EXCEPT ![t] = @ \cup {rows[i + 1]}]
               /\ req' = [req EXCEPT ![r].i = i + 1]
        <3>1. req'[r].pc = "add"
            BY <2>2, <2>0, <1>c, <1>a, SetI DEF TypeOK
        <3>2. rdBar' = rdBar
            BY <3>1, <2>0, <2>1, <1>s
        <3>3. Abstract!Store(t, rows[i + 1])
            BY <2>2, <3>2, <1>3 DEF AddRow, Abstract!Store, rdBar
        <3>. QED  BY <3>3, <2>0, <2>x DEF Abstract!Next
    <2>3. CASE req' = [req EXCEPT ![r] = Idle] /\ UNCHANGED db
        <3>1. req'[r].pc = "idle"
            BY <2>3, <1>a DEF TypeOK, Idle
        <3>2. rdBar' = rdBar
            BY <3>1, <2>0, <2>1, <1>s
        <3>. QED  BY <2>3, <3>2, <1>3 DEF AddRow
    <2>. QED  BY <1>3, <2>2, <2>3 DEF AddRow
<1>4. ASSUME NEW r \in Requests, Acknowledge(r) PROVE Abstract!Next
    <2> DEFINE t == req[r].tbl
               rows == req[r].rows
               X == {rows[j] : j \in DOMAIN rows}
    <2>0. /\ rows \in RowLists /\ req[r].i = Len(rows) /\ t \in Tables /\ req[r].pc = "add"
          /\ \A j \in 1..Len(rows) : rows[j] \in db[t]
        BY <1>4, <1>a, <1>c DEF Acknowledge, PrefixStored, PrefixStoredAt, ReqState
    <2>1. DOMAIN rows = 1..Len(rows) /\ rows \in Seq(Row)
        BY <2>0, RowListsLen
    <2>2. X \subseteq db[t] /\ X \in SUBSET Row
        BY <2>0, <2>1, ElementOfSeq
    <2>3. acked' = acked \cup {<<t, x>> : x \in X}
        BY <1>4 DEF Acknowledge
    <2>4. rdBar' = rdBar
        <3>1. \A q \in Requests \ {r} : req'[q] = req[q]
            BY <1>4, <1>a DEF Acknowledge, TypeOK
        <3>2. req'[r].pc = "idle"
            BY <1>4, <1>a DEF Acknowledge, TypeOK, Idle
        <3>. QED  BY <3>1, <3>2, <2>0, <1>s
    <2>5. Abstract!Ack(t, X)
        BY <2>2, <2>3, <2>4, <1>4 DEF Acknowledge, Abstract!Ack, rdBar
    <2>. QED  BY <2>0, <2>2, <2>5 DEF Abstract!Next
<1>5. ASSUME NEW r \in Requests, Query(r) PROVE Abstract!Next
    <2>0. req[r].pc = "read" /\ req[r] \in ReqState
        BY <1>5, <1>c DEF Query
    <2>1. \A q \in Requests \ {r} : req'[q] = req[q]
        BY <1>5, <1>a DEF Query, TypeOK
    <2>2. rdBar[r] = [pc |-> "reading", tbl |-> req[r].tbl, keys |-> req[r].keys,
                      seen |-> req[r].seen, result |-> req[r].result]
        BY <2>0 DEF rdBar, ReadOf
    <2>3. CASE req' = [req EXCEPT ![r].pc = "answer", ![r].result = Select(req[r].tbl, req[r].keys)]
        <3>1. req'[r] = [req[r] EXCEPT !.pc = "answer", !.result = Select(req[r].tbl, req[r].keys)]
            BY <2>3, <1>a DEF TypeOK
        <3>2. /\ req'[r].pc = "answer" /\ req'[r].tbl = req[r].tbl /\ req'[r].keys = req[r].keys
              /\ req'[r].seen = req[r].seen /\ req'[r].result = Select(req[r].tbl, req[r].keys)
            BY <3>1, <2>0 DEF ReqState
        <3>3. ReadOf(r)' = [pc |-> "answer", tbl |-> rdBar[r].tbl, keys |-> rdBar[r].keys,
                            seen |-> rdBar[r].seen,
                            result |-> Abstract!Select(db, rdBar[r].tbl, rdBar[r].keys)]
            BY <3>2, <2>2 DEF ReadOf, Select, Abstract!Select
        <3>4. Abstract!Serve(r)
            BY <1>5, <2>1, <2>2, <3>3, ReadFrame DEF Query, Abstract!Serve, rdBar
        <3>. QED  BY <3>4 DEF Abstract!Next
    <2>4. CASE req' = [req EXCEPT ![r] = Idle]
        <3>1. req'[r] = Idle
            BY <2>4, <1>a DEF TypeOK
        <3>2. ReadOf(r)' = Abstract!NoRead
            BY <3>1, NotReadingNoReadPrime DEF Idle
        <3>3. Abstract!Stop(r)
            BY <1>5, <2>1, <2>2, <3>2, ReadFrame DEF Query, Abstract!Stop, rdBar
        <3>. QED  BY <3>3 DEF Abstract!Next
    <2>. QED  BY <1>5, <2>3, <2>4 DEF Query
<1>6. ASSUME NEW r \in Requests, Answer(r) PROVE Abstract!Next
    <2>1. \A q \in Requests \ {r} : req'[q] = req[q]
        BY <1>6, <1>a DEF Answer, TypeOK
    <2>2. req'[r] = Idle
        BY <1>6, <1>a DEF Answer, TypeOK
    <2>3. ReadOf(r)' = Abstract!NoRead
        BY <2>2, NotReadingNoReadPrime DEF Idle
    <2>4. rdBar[r].pc = "answer"
        BY <1>6 DEF Answer, rdBar, ReadOf
    <2>5. Abstract!Stop(r)
        BY <1>6, <2>1, <2>3, <2>4, ReadFrame DEF Answer, Abstract!Stop, rdBar
    <2>. QED  BY <2>5 DEF Abstract!Next
<1>7. CASE UNCHANGED vars
    BY <1>7 DEF vars, rdBar, ReadOf
<1>. QED
    <2>1. ASSUME NEW r \in Requests,
                 \/ \E x \in Row : SubmitNotes(r, x) \/ SubmitPitImage(r, x) \/ SubmitDriverRanking(r, x)
                 \/ \E rows \in RowLists : SubmitShiftSchedule(r, rows)
          PROVE  UNCHANGED <<db, acked, rdBar>>
        BY <2>1, <1>1, SingleRow DEF SubmitNotes, SubmitPitImage, SubmitDriverRanking,
                                     SubmitShiftSchedule, Tables
    <2>2. ASSUME NEW r \in Requests,
                 \/ RequestAllNotes(r) \/ RequestAllPitImages(r)
                 \/ RequestAllDriverRankings(r) \/ RequestShiftSchedule(r)
                 \/ \E k \in Keys : RequestNotesForTeam(r, k) \/ RequestPitImages(r, k)
          PROVE  Abstract!Next
        <3>1. ASSUME NEW t \in Tables, NEW ks \in SUBSET Keys, BeginRead(r, t, ks)
              PROVE  Abstract!Next
            <4>1. Keys = {x[1] : x \in Row}
                <5>1. PICK p \in Payloads : TRUE
                    BY KeysAssumption
                <5>2. \A k \in Keys : <<k, p>> \in Row /\ <<k, p>>[1] = k
                    BY <5>1 DEF Row
                <5>3. \A x \in Row : x[1] \in Keys
                    BY DEF Row
                <5>. QED  BY <5>2, <5>3
            <4>. QED  BY <3>1, <4>1, <1>2 DEF Abstract!Next
        <3>. QED  BY <2>2, <3>1 DEF RequestAllNotes, RequestAllPitImages, RequestAllDriverRankings,
                                    RequestShiftSchedule, RequestNotesForTeam, RequestPitImages, Tables
    <2>. QED  BY <1>3, <1>4, <1>5, <1>6, <1>7, <2>1, <2>2 DEF Next

\* The handlers implement RowTables under the mapping of the reads:
\* every behaviour of the concurrent handlers, failures included, is one
\* of tables that only grow, acknowledgements of stored rows, and reads
\* answered with a snapshot of their table.
THEOREM Refinement == Spec => ImplementsRowTables
<1>1. Spec => []IInv
    BY InitIInv, IInvStep, PTL DEF Spec
<1>2. Init => Abstract!Init
    BY InitRefines
<1>3. IInv /\ [Next]_vars => [Abstract!Next]_<<db, acked, rdBar>>
    BY StepRefines
<1>. QED  BY <1>1, <1>2, <1>3, PTL DEF Spec, ImplementsRowTables, Abstract!Spec, Abstract!vars, rdBar
=============================================================================
