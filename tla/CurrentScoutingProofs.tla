----------------------- MODULE CurrentScoutingProofs -----------------------
(***************************************************************************)
(* Proofs about CurrentScouting, for every value of the constants.         *)
(***************************************************************************)
EXTENDS CurrentScouting, TLAPS

(***************************************************************************)
(* The invariant behind ResponseSound.  Inserts write the current time,    *)
(* so no request's clock read is ahead of the clock, an entry present is   *)
(* its user's newest insert (the creation of an inner map only removes     *)
(* entries), and every entry a sweeping request has passed (visited and    *)
(* kept, or written after its own insert) is younger than TTL by that      *)
(* request's clock read.                                                   *)
(***************************************************************************)
InsertNow == \A r \in Requests : req[r].pc \in {"create", "insert"} => req[r].time = now

ReadsBehind == \A r \in Requests : req[r].time <= now

LatestBehind == \A t \in Teams, u \in Users : latest[t][u] <= now

EntryIsLatest ==
    \A t \in Teams, u \in Users : lastSeen[t][u] # NoEntry => lastSeen[t][u] = latest[t][u]

SweptFresh ==
    \A r \in Requests : req[r].pc = "sweep" =>
        \A e \in Entries \ req[r].toVisit : req[r].time - lastSeen[e[1]][e[2]] < TTL

IInv == TypeOK /\ InsertNow /\ ReadsBehind /\ LatestBehind /\ EntryIsLatest /\ SweptFresh

-----------------------------------------------------------------------------
(***************************************************************************)
(* Type correctness.                                                       *)
(***************************************************************************)
LEMMA IdleType == Idle \in ReqState
BY NonEmptyAssumption, MaxTimeAssumption DEF Idle, ReqState, Time

\* The state a crash leaves: an empty map, every request idle.
LEMMA CrashType == TypeOK /\ Crash => TypeOK'
BY IdleType, NonEmptyAssumption, MaxTimeAssumption, MaxCrashesAssumption
   DEF Crash, TypeOK, Time, NoEntry

LEMMA InitTypeOK == Init => TypeOK
BY IdleType, MaxTimeAssumption, MaxCrashesAssumption DEF Init, TypeOK, Time, NoEntry

LEMMA TypeStep == TypeOK /\ [Next]_vars => TypeOK'
<1> SUFFICES ASSUME TypeOK, [Next]_vars PROVE TypeOK'
    OBVIOUS
<1>. USE MaxTimeAssumption, MaxCrashesAssumption
<1>c. \A q \in Requests : req[q] \in ReqState
    BY DEF TypeOK
<1>1. CASE UNCHANGED vars
    BY <1>1 DEF vars, TypeOK
<1>2. CASE Tick
    BY <1>2 DEF Tick, TypeOK, Time
<1>3. ASSUME NEW r \in Requests, NEW t \in Teams, NEW u \in Users, Begin(r, t, u)
      PROVE  TypeOK'
    <2>1. [pc |-> IF t \in teamKeys THEN "insert" ELSE "create",
           team |-> t, user |-> u, time |-> now, toVisit |-> {}] \in ReqState
        BY DEF TypeOK, ReqState
    <2>. QED  BY <1>3, <2>1 DEF Begin, TypeOK
<1>7. ASSUME NEW r \in Requests, CreateTeam(r) PROVE TypeOK'
    <2> DEFINE t == req[r].team
    <2>0. t \in Teams
        BY <1>c DEF ReqState
    <2>1. CASE Iterating(r) /\ Crash
        BY <2>1, CrashType
    <2>2. CASE /\ teamKeys' = teamKeys \cup {t}
               /\ lastSeen' = [lastSeen EXCEPT ![t] = [u \in Users |-> NoEntry]]
               /\ req' = [req EXCEPT ![r].pc = "insert"]
               /\ UNCHANGED <<now, crashes, latest>>
        <3>1. [req[r] EXCEPT !.pc = "insert"] \in ReqState
            BY <1>c DEF ReqState
        <3>. QED  BY <2>2, <2>0, <3>1 DEF TypeOK
    <2>. QED  BY <1>7, <2>1, <2>2 DEF CreateTeam, RacyWrite
<1>4. ASSUME NEW r \in Requests, Insert(r) PROVE TypeOK'
    <2> DEFINE t == req[r].team
               u == req[r].user
    <2>0. t \in Teams /\ u \in Users /\ req[r].time \in Time
        BY <1>c DEF ReqState
    <2>1. CASE Iterating(r) /\ Crash
        BY <2>1, CrashType
    <2>2. CASE /\ lastSeen' = [lastSeen EXCEPT ![t][u] = req[r].time]
               /\ latest' = [latest EXCEPT ![t][u] = IF @ > req[r].time THEN @ ELSE req[r].time]
               /\ req' = [req EXCEPT ![r].pc = "sweep", ![r].toVisit = Entries']
               /\ UNCHANGED <<now, teamKeys, crashes>>
        <3>1. lastSeen' \in [Teams -> [Users -> Time \cup {NoEntry}]]
            BY <2>2, <2>0 DEF TypeOK
        <3>2. latest' \in [Teams -> [Users -> Time \cup {NoEntry}]]
            BY <2>2, <2>0 DEF TypeOK
        <3>3. Entries' \subseteq Teams \X Users
            BY DEF Entries
        <3>4. [req[r] EXCEPT !.pc = "sweep", !.toVisit = Entries'] \in ReqState
            BY <3>3, <1>c DEF ReqState
        <3>5. req' \in [Requests -> ReqState]
            BY <2>2, <3>4 DEF TypeOK
        <3>. QED  BY <2>2, <2>0, <3>1, <3>2, <3>5 DEF TypeOK
    <2>. QED  BY <1>4, <2>1, <2>2 DEF Insert, RacyWrite
<1>5. ASSUME NEW r \in Requests, NEW e \in Teams \X Users, Visit(r, e) PROVE TypeOK'
    <2>0. [req[r] EXCEPT !.toVisit = @ \ {e}] \in ReqState
        BY <1>c DEF ReqState
    <2>1. [req EXCEPT ![r].toVisit = @ \ {e}] \in [Requests -> ReqState]
        BY <2>0 DEF TypeOK
    <2>2. CASE Iterating(r) /\ Crash
        BY <2>2, CrashType
    <2>3. CASE /\ lastSeen' = [lastSeen EXCEPT ![e[1]][e[2]] = NoEntry]
               /\ req' = [req EXCEPT ![r].toVisit = @ \ {e}]
               /\ UNCHANGED <<now, teamKeys, crashes, latest>>
        BY <2>1, <2>3 DEF TypeOK
    <2>4. CASE /\ req' = [req EXCEPT ![r].toVisit = @ \ {e}]
               /\ UNCHANGED <<now, teamKeys, lastSeen, crashes, latest>>
        BY <2>1, <2>4 DEF TypeOK
    <2>. QED  BY <1>5, <2>2, <2>3, <2>4 DEF Visit, RacyWrite
<1>6. ASSUME NEW r \in Requests, Respond(r) PROVE TypeOK'
    BY <1>6, IdleType DEF Respond, TypeOK
<1>. QED  BY <1>1, <1>2, <1>3, <1>4, <1>5, <1>6, <1>7 DEF Next

\* Every reachable state of the presence tracker is well typed.
THEOREM TypeCorrect == Spec => []TypeOK
BY InitTypeOK, TypeStep, PTL DEF Spec

-----------------------------------------------------------------------------
(***************************************************************************)
(* The invariant is inductive.                                             *)
(***************************************************************************)
\* After a crash the map is empty and every request idle.
LEMMA CrashIInv == TypeOK /\ Crash => IInv'
<1> SUFFICES ASSUME TypeOK, Crash PROVE IInv'
    OBVIOUS
<1>1. TypeOK'
    BY CrashType
<1>2. now \in Nat
    BY MaxTimeAssumption DEF TypeOK, Time
<1>3. Entries' = {}
    BY DEF Crash, Entries
<1>. QED  BY <1>1, <1>2, <1>3 DEF Crash, IInv, InsertNow, ReadsBehind, LatestBehind,
                                  EntryIsLatest, SweptFresh, Idle, NoEntry

LEMMA InitIInv == Init => IInv
<1> SUFFICES ASSUME Init PROVE IInv
    OBVIOUS
<1>1. Entries = {}
    BY DEF Init, Entries
<1>. QED  BY <1>1, InitTypeOK DEF Init, IInv, InsertNow, ReadsBehind, LatestBehind,
                                  EntryIsLatest, SweptFresh, Idle, NoEntry

LEMMA IInvStep == IInv /\ [Next]_vars => IInv'
<1> SUFFICES ASSUME IInv, [Next]_vars PROVE IInv'
    OBVIOUS
<1>a. TypeOK /\ InsertNow /\ ReadsBehind /\ LatestBehind /\ EntryIsLatest /\ SweptFresh
    BY DEF IInv
<1>t. TypeOK'
    BY <1>a, TypeStep
<1>c. \A q \in Requests : req[q] \in ReqState
    BY <1>a DEF TypeOK
<1>n. now \in Nat /\ TTL \in Nat
    BY <1>a, MaxTimeAssumption, TTLAssumption DEF TypeOK, Time
<1>1. CASE UNCHANGED vars
    <2>1. (InsertNow /\ ReadsBehind /\ LatestBehind /\ EntryIsLatest)'
        BY <1>1, <1>a DEF vars, InsertNow, ReadsBehind, LatestBehind, EntryIsLatest
    <2>2. SweptFresh'
        BY <1>1, <1>a DEF vars, SweptFresh, Entries
    <2>. QED  BY <1>t, <2>1, <2>2 DEF IInv
<1>2. CASE Tick
    <2>1. (InsertNow /\ ReadsBehind /\ LatestBehind)'
        <3>1. \A q \in Requests : req[q].time \in Int
            BY <1>c DEF ReqState, Time
        <3>2. \A tt \in Teams, uu \in Users : latest[tt][uu] \in Int
            BY <1>a DEF TypeOK, Time, NoEntry
        <3>. QED  BY <1>2, <1>a, <1>n, <3>1, <3>2 DEF Tick, InsertNow, ReadsBehind, LatestBehind
    <2>2. (EntryIsLatest /\ SweptFresh)'
        BY <1>2, <1>a DEF Tick, EntryIsLatest, SweptFresh, Entries
    <2>. QED  BY <1>t, <2>1, <2>2 DEF IInv
<1>3. ASSUME NEW r \in Requests, NEW t \in Teams, NEW u \in Users, Begin(r, t, u)
      PROVE  IInv'
    <2>1. req'[r].pc \in {"create", "insert"} /\ req'[r].time = now
        BY <1>3, <1>a DEF Begin, TypeOK
    <2>2. \A q \in Requests \ {r} : req'[q] = req[q]
        BY <1>3, <1>a DEF Begin, TypeOK
    <2>3. InsertNow' /\ ReadsBehind'
        BY <1>3, <1>a, <1>n, <2>1, <2>2 DEF Begin, InsertNow, ReadsBehind
    <2>4. SweptFresh'
        BY <1>3, <1>a, <2>1, <2>2 DEF Begin, SweptFresh, Entries
    <2>. QED  BY <1>3, <1>a, <1>t, <2>3, <2>4 DEF Begin, IInv, LatestBehind, EntryIsLatest
<1>4. ASSUME NEW r \in Requests, Insert(r) PROVE IInv'
    <2> DEFINE t == req[r].team
               u == req[r].user
               tm == req[r].time
    <2>0. t \in Teams /\ u \in Users /\ tm \in Time /\ req[r].pc = "insert" /\ tm = now
        BY <1>4, <1>c, <1>a DEF Insert, ReqState, InsertNow
    <2>1. CASE Iterating(r) /\ Crash
        BY <2>1, <1>a, CrashIInv
    <2>2. CASE /\ lastSeen' = [lastSeen EXCEPT ![t][u] = tm]
               /\ latest' = [latest EXCEPT ![t][u] = IF @ > tm THEN @ ELSE tm]
               /\ req' = [req EXCEPT ![r].pc = "sweep", ![r].toVisit = Entries']
               /\ UNCHANGED <<now, teamKeys, crashes>>
        <3>0. latest[t][u] \in Int /\ latest[t][u] <= now
            BY <2>0, <1>a DEF TypeOK, LatestBehind, Time, NoEntry
        <3>1. latest'[t][u] = tm
            <4>0. latest \in [Teams -> [Users -> Time \cup {NoEntry}]]
                BY <1>a DEF TypeOK
            <4>1. latest'[t][u] = IF latest[t][u] > tm THEN latest[t][u] ELSE tm
                BY <2>2, <2>0, <4>0, Zenon
            <4>. QED  BY <4>1, <3>0, <2>0, <1>n DEF Time
        <3>2. lastSeen'[t][u] = tm
            BY <2>2, <2>0, <1>a DEF TypeOK
        <3>3. \A tt \in Teams, uu \in Users : <<tt, uu>> # <<t, u>> =>
                 lastSeen'[tt][uu] = lastSeen[tt][uu] /\ latest'[tt][uu] = latest[tt][uu]
            BY <2>2, <1>a DEF TypeOK
        <3>4. req'[r].pc = "sweep" /\ req'[r].toVisit = Entries' /\ req'[r].time = tm
            <4>1. req[r] \in ReqState /\ DOMAIN req = Requests
                BY <1>c, <1>a DEF TypeOK
            <4>. QED  BY <2>2, <4>1 DEF ReqState
        <3>5. \A q \in Requests \ {r} : req'[q] = req[q]
            BY <2>2, <1>a DEF TypeOK
        <3>6. InsertNow' /\ ReadsBehind'
            BY <2>2, <3>4, <3>5, <1>a DEF InsertNow, ReadsBehind
        <3>7. LatestBehind'
            BY <2>2, <2>0, <3>1, <3>3, <1>a DEF LatestBehind, Time
        <3>8. EntryIsLatest'
            BY <3>1, <3>2, <3>3, <1>a DEF EntryIsLatest
        <3>9. SweptFresh'
            <4> SUFFICES ASSUME NEW q \in Requests, req'[q].pc = "sweep",
                                NEW e \in Entries' \ req'[q].toVisit
                         PROVE  req'[q].time - lastSeen'[e[1]][e[2]] < TTL
                BY DEF SweptFresh
            <4>1. q # r
                BY <3>4
            <4>2. req'[q] = req[q] /\ req[q].pc = "sweep"
                BY <4>1, <3>5
            <4>3. req[q].time \in Int /\ req[q].time <= now
                BY <1>c, <1>a DEF ReqState, Time, ReadsBehind
            <4>4. e \in Teams \X Users
                BY DEF Entries
            <4>5. CASE e = <<t, u>>
                BY <4>5, <4>2, <4>3, <3>2, <2>0, <1>n, TTLAssumption DEF Time
            <4>6. CASE e # <<t, u>>
                <5>1. lastSeen'[e[1]][e[2]] = lastSeen[e[1]][e[2]]
                    BY <4>6, <4>4, <3>3
                <5>2. e \in Entries \ req[q].toVisit
                    BY <5>1, <4>2, <4>4 DEF Entries
                <5>. QED  BY <5>1, <5>2, <4>2, <1>a DEF SweptFresh
            <4>. QED  BY <4>5, <4>6
        <3>. QED  BY <1>t, <3>6, <3>7, <3>8, <3>9 DEF IInv
    <2>. QED  BY <1>4, <2>1, <2>2 DEF Insert, RacyWrite
<1>5. ASSUME NEW r \in Requests, NEW e \in Teams \X Users, Visit(r, e) PROVE IInv'
    <2> DEFINE ts == lastSeen[e[1]][e[2]]
               next == [req EXCEPT ![r].toVisit = @ \ {e}]
               Old == ts # NoEntry /\ req[r].time - ts >= TTL
    <2>0. req[r].pc = "sweep" /\ e \in req[r].toVisit
        BY <1>5 DEF Visit
    \* The sweep's own bookkeeping: only r's toVisit changes, by losing e.
    <2>1. /\ \A q \in Requests \ {r} : next[q] = req[q]
          /\ next[r].pc = req[r].pc /\ next[r].time = req[r].time
          /\ next[r].toVisit = req[r].toVisit \ {e}
        <3>1. req[r] \in ReqState /\ DOMAIN req = Requests
            BY <1>c, <1>a DEF TypeOK
        <3>. QED  BY <3>1 DEF ReqState
    <2>2. \A q \in Requests : next[q].pc = req[q].pc /\ next[q].time = req[q].time
        BY <2>1
    <2>3. CASE Old
        <3>1. CASE Iterating(r) /\ Crash
            BY <3>1, <1>a, CrashIInv
        <3>2. CASE /\ lastSeen' = [lastSeen EXCEPT ![e[1]][e[2]] = NoEntry]
                   /\ req' = next
                   /\ UNCHANGED <<now, teamKeys, crashes, latest>>
            <4>1. lastSeen'[e[1]][e[2]] = NoEntry
                BY <3>2, <1>a DEF TypeOK
            <4>2. \A tt \in Teams, uu \in Users : <<tt, uu>> # e =>
                     lastSeen'[tt][uu] = lastSeen[tt][uu]
                BY <3>2, <1>a DEF TypeOK
            <4>3. (InsertNow /\ ReadsBehind /\ LatestBehind)'
                BY <3>2, <2>2, <1>a DEF InsertNow, ReadsBehind, LatestBehind
            <4>4. EntryIsLatest'
                BY <3>2, <4>1, <4>2, <1>a DEF EntryIsLatest
            <4>5. SweptFresh'
                <5> SUFFICES ASSUME NEW q \in Requests, req'[q].pc = "sweep",
                                    NEW f \in Entries' \ req'[q].toVisit
                             PROVE  req'[q].time - lastSeen'[f[1]][f[2]] < TTL
                    BY DEF SweptFresh
                <5>1. f # e /\ f \in Teams \X Users
                    BY <4>1 DEF Entries
                <5>2. lastSeen'[f[1]][f[2]] = lastSeen[f[1]][f[2]]
                    BY <5>1, <4>2
                <5>3. f \in Entries \ req[q].toVisit /\ req[q].pc = "sweep"
                    BY <5>1, <5>2, <3>2, <2>1 DEF Entries
                <5>. QED  BY <5>2, <5>3, <3>2, <2>2, <1>a DEF SweptFresh
            <4>. QED  BY <1>t, <4>3, <4>4, <4>5 DEF IInv
        <3>. QED  BY <1>5, <2>3, <3>1, <3>2 DEF Visit, RacyWrite
    <2>4. CASE ~Old
        <3>1. req' = next /\ UNCHANGED <<now, teamKeys, lastSeen, crashes, latest>>
            BY <1>5, <2>4 DEF Visit
        <3>2. (InsertNow /\ ReadsBehind /\ LatestBehind /\ EntryIsLatest)'
            BY <3>1, <2>2, <1>a DEF InsertNow, ReadsBehind, LatestBehind, EntryIsLatest
        <3>3. SweptFresh'
            <4> SUFFICES ASSUME NEW q \in Requests, req'[q].pc = "sweep",
                                NEW f \in Entries' \ req'[q].toVisit
                         PROVE  req'[q].time - lastSeen'[f[1]][f[2]] < TTL
                BY DEF SweptFresh
            <4>1. f \in Entries /\ req[q].pc = "sweep" /\ req'[q].time = req[q].time
                BY <3>1, <2>2 DEF Entries
            <4>2. CASE q = r /\ f = e
                <5>1. ts # NoEntry
                    BY <4>1, <4>2 DEF Entries
                <5>2. req[r].time \in Int /\ ts \in Int
                    BY <1>c, <1>a DEF ReqState, Time, TypeOK, NoEntry
                <5>. QED  BY <5>1, <5>2, <4>1, <4>2, <2>4, <3>1, <1>n
            <4>3. CASE ~(q = r /\ f = e)
                <5>1. f \notin req[q].toVisit
                    BY <4>3, <3>1, <2>1
                <5>. QED  BY <5>1, <4>1, <3>1, <1>a DEF SweptFresh
            <4>. QED  BY <4>2, <4>3
        <3>. QED  BY <1>t, <3>2, <3>3 DEF IInv
    <2>. QED  BY <2>3, <2>4
<1>6. ASSUME NEW r \in Requests, Respond(r) PROVE IInv'
    <2>1. req'[r] = Idle /\ \A q \in Requests \ {r} : req'[q] = req[q]
        BY <1>6, <1>a DEF Respond, TypeOK
    <2>2. Idle.pc = "idle" /\ Idle.time = 0
        BY DEF Idle
    <2>3. InsertNow' /\ ReadsBehind'
        <3>1. InsertNow'
            BY <2>1, <2>2, <1>a, <1>6 DEF InsertNow, Respond
        <3>2. ASSUME NEW q \in Requests PROVE req'[q].time <= now'
            <4>1. CASE q = r
                BY <4>1, <2>1, <2>2, <1>n, <1>6 DEF Respond
            <4>2. CASE q # r
                BY <4>2, <2>1, <1>a, <1>6 DEF Respond, ReadsBehind
            <4>. QED  BY <4>1, <4>2
        <3>. QED  BY <3>1, <3>2 DEF ReadsBehind
    <2>4. SweptFresh'
        BY <1>6, <2>1, <2>2, <1>a DEF Respond, SweptFresh, Entries
    <2>. QED  BY <1>6, <1>t, <1>a, <2>3, <2>4 DEF Respond, IInv, LatestBehind, EntryIsLatest
\* The new inner map replaces the team's entries: entries only disappear.
<1>7. ASSUME NEW r \in Requests, CreateTeam(r) PROVE IInv'
    <2> DEFINE t == req[r].team
    <2>0. t \in Teams /\ req[r].pc = "create"
        BY <1>7, <1>c DEF CreateTeam, ReqState
    <2>1. CASE Iterating(r) /\ Crash
        BY <2>1, <1>a, CrashIInv
    <2>2. CASE /\ teamKeys' = teamKeys \cup {t}
               /\ lastSeen' = [lastSeen EXCEPT ![t] = [u \in Users |-> NoEntry]]
               /\ req' = [req EXCEPT ![r].pc = "insert"]
               /\ UNCHANGED <<now, crashes, latest>>
        <3>1. \A tt \in Teams, uu \in Users :
                 lastSeen'[tt][uu] = IF tt = t THEN NoEntry ELSE lastSeen[tt][uu]
            BY <2>2, <2>0, <1>a DEF TypeOK
        <3>2. \A q \in Requests : req'[q].time = req[q].time /\ req'[q].toVisit = req[q].toVisit
            BY <2>2, <1>c, <1>a DEF TypeOK, ReqState
        <3>3. \A q \in Requests : req'[q].pc = IF q = r THEN "insert" ELSE req[q].pc
            BY <2>2, <1>c, <1>a DEF TypeOK, ReqState
        <3>4. InsertNow' /\ ReadsBehind' /\ LatestBehind'
            BY <2>2, <2>0, <3>2, <3>3, <1>a DEF InsertNow, ReadsBehind, LatestBehind
        <3>5. EntryIsLatest'
            BY <2>2, <3>1, <1>a DEF EntryIsLatest
        <3>6. Entries' \subseteq Entries
            BY <3>1 DEF Entries
        <3>7. SweptFresh'
            <4> SUFFICES ASSUME NEW q \in Requests, req'[q].pc = "sweep",
                                NEW e \in Entries' \ req'[q].toVisit
                         PROVE  req'[q].time - lastSeen'[e[1]][e[2]] < TTL
                BY DEF SweptFresh
            <4>1. q # r /\ req[q].pc = "sweep"
                BY <3>3
            <4>2. e \in Teams \X Users /\ lastSeen'[e[1]][e[2]] = lastSeen[e[1]][e[2]]
                BY <3>1 DEF Entries
            <4>3. e \in Entries \ req[q].toVisit
                BY <3>6, <3>2
            <4>. QED  BY <4>1, <4>2, <4>3, <3>2, <1>a DEF SweptFresh
        <3>. QED  BY <1>t, <3>4, <3>5, <3>7 DEF IInv
    <2>. QED  BY <1>7, <2>1, <2>2 DEF CreateTeam, RacyWrite
<1>. QED  BY <1>1, <1>2, <1>3, <1>4, <1>5, <1>6, <1>7 DEF Next

\* Every reachable state satisfies the inductive invariant: whatever the
\* interleaving of clock reads, racing creations of a team's inner map,
\* inserts, sweeps and crashes, an entry in
\* scoutingMap is its user's newest insert and each sweeping goroutine has
\* kept only entries younger than TTL by its own clock read.
THEOREM InvariantHolds == Spec => []IInv
<1>1. Init => IInv
    BY InitIInv
<1>2. IInv /\ [Next]_vars => IInv'
    BY IInvStep
<1>. QED  BY <1>1, <1>2, PTL DEF Spec

(***************************************************************************)
(* ResponseSound.                                                          *)
(***************************************************************************)

\* A goroutine leaves its sweep without a restart only by responding,
\* after its range loop has visited every entry.
LEMMA SweepEndsAtRespond ==
    ASSUME IInv, [Next]_vars, NEW r \in Requests,
           req[r].pc = "sweep", req'[r].pc = "idle", crashes' = crashes
    PROVE  req[r].toVisit = {}
<1>a. TypeOK
    BY DEF IInv
<1>b. crashes \in Nat
    BY <1>a, MaxCrashesAssumption DEF TypeOK
<1>1. CASE UNCHANGED vars
    BY <1>1 DEF vars
<1>2. CASE Tick
    BY <1>2 DEF Tick
<1>3. ASSUME NEW q \in Requests, NEW t \in Teams, NEW u \in Users, Begin(q, t, u)
      PROVE  FALSE
    <2>1. q # r
        BY <1>3 DEF Begin
    <2>. QED  BY <1>3, <2>1, <1>a DEF Begin, TypeOK
<1>4. ASSUME NEW q \in Requests, Insert(q) PROVE FALSE
    <2>1. CASE Iterating(q) /\ Crash
        BY <2>1, <1>b DEF Crash
    <2>2. CASE req' = [req EXCEPT ![q].pc = "sweep", ![q].toVisit = Entries']
        <3>1. q # r
            BY <1>4 DEF Insert
        <3>. QED  BY <2>2, <3>1, <1>a DEF TypeOK
    <2>. QED  BY <1>4, <2>1, <2>2 DEF Insert, RacyWrite
<1>5. ASSUME NEW q \in Requests, NEW e \in Teams \X Users, Visit(q, e) PROVE FALSE
    <2> DEFINE next == [req EXCEPT ![q].toVisit = @ \ {e}]
    <2>1. next[r].pc = req[r].pc
        <3>1. \A p \in Requests : req[p] \in ReqState
            BY <1>a DEF TypeOK
        <3>. QED  BY <3>1, <1>a DEF TypeOK, ReqState
    <2>2. CASE Iterating(q) /\ Crash
        BY <2>2, <1>b DEF Crash
    <2>3. CASE req' = next
        BY <2>3, <2>1
    <2>. QED  BY <1>5, <2>2, <2>3 DEF Visit, RacyWrite
<1>6. ASSUME NEW q \in Requests, Respond(q) PROVE req[r].toVisit = {}
    <2>1. CASE q = r
        BY <2>1, <1>6 DEF Respond
    <2>2. CASE q # r
        BY <2>2, <1>6, <1>a DEF Respond, TypeOK
    <2>. QED  BY <2>1, <2>2
<1>7. ASSUME NEW q \in Requests, CreateTeam(q) PROVE FALSE
    <2>1. CASE Iterating(q) /\ Crash
        BY <2>1, <1>b DEF Crash
    <2>2. CASE req' = [req EXCEPT ![q].pc = "insert"]
        <3>1. q # r
            BY <1>7 DEF CreateTeam
        <3>. QED  BY <2>2, <3>1, <1>a DEF TypeOK
    <2>. QED  BY <1>7, <2>1, <2>2 DEF CreateTeam, RacyWrite
<1>. QED  BY <1>1, <1>2, <1>3, <1>4, <1>5, <1>6, <1>7 DEF Next

\* The state predicate that ResponseSound asks of every step.
LEMMA ResponseSoundStep ==
    ASSUME IInv, [Next]_vars, NEW r \in Requests,
           req[r].pc = "sweep", req'[r].pc = "idle", crashes' = crashes,
           NEW u \in Response(r)
    PROVE  /\ u # req[r].user
           /\ latest[req[r].team][u] # NoEntry
           /\ req[r].time - latest[req[r].team][u] < TTL
<1> DEFINE t == req[r].team
<1>1. req[r].toVisit = {}
    BY SweepEndsAtRespond
<1>2. t \in Teams /\ u \in Users /\ u # req[r].user /\ lastSeen[t][u] # NoEntry
    BY DEF Response, Names, IInv, TypeOK, ReqState
<1>3. <<t, u>> \in Entries \ req[r].toVisit
    BY <1>1, <1>2 DEF Entries
<1>4. req[r].time - lastSeen[t][u] < TTL
    BY <1>3 DEF IInv, SweptFresh
<1>5. lastSeen[t][u] = latest[t][u]
    BY <1>2 DEF IInv, EntryIsLatest
<1>. QED  BY <1>2, <1>4, <1>5

\* The handler's response lists only other users whose entry for the team
\* is less than TTL older than the caller's clock read: the ">= 10 s"
\* deletion by racing sweeps, interleaved with inserts, lets no expired
\* viewer through, for any number of teams, users and goroutines.
THEOREM ResponseSoundHolds == Spec => ResponseSound
<1> DEFINE A == \A r \in Requests :
         (req[r].pc = "sweep" /\ req'[r].pc = "idle" /\ crashes' = crashes) =>
            \A u \in Response(r) :
               /\ u # req[r].user
               /\ latest[req[r].team][u] # NoEntry
               /\ req[r].time - latest[req[r].team][u] < TTL
<1>1. IInv /\ [Next]_vars => [A]_vars
    BY ResponseSoundStep
<1>2. Spec => [][A]_vars
    BY <1>1, InvariantHolds, PTL DEF Spec
<1>. QED  BY <1>2 DEF ResponseSound

=============================================================================
