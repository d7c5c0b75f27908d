-------------------------- MODULE CurrentScouting --------------------------
(***************************************************************************)
(* requestCurrentScoutingHandler.ServeHTTP (requests.go): "who else is     *)
(* looking at this team".  Every request writes                            *)
(* scoutingMap[team][user] = clock.Now(), deletes every entry of every     *)
(* team that is 10 s old or older, and answers with the other names left  *)
(* under its team.                                                         *)
(*                                                                         *)
(* net/http runs each request in its own goroutine and the handler takes  *)
(* no lock, so the requests Requests interleave.  One step is one map      *)
(* operation: the clock read with the nil check of the team's inner map,  *)
(* the creation of that map, the insert, the visit of one entry by the    *)
(* sweep's range loop, the read of the response.  A map write while       *)
(* another goroutine is inside its range loop is a data race: the Go      *)
(* runtime may stop the process ("concurrent map iteration and map        *)
(* write"), which loses the whole map, or the write may go through.       *)
(***************************************************************************)
EXTENDS Integers, FiniteSets

CONSTANTS
    Teams,        \* team numbers requested
    Users,        \* names parseUsername can return ("unknown" among them)
    Requests,     \* goroutines serving requests at the same time
    TTL,          \* the 10 * time.Second of the sweep, in clock ticks
    MaxTime,      \* bound on the clock
    MaxCrashes    \* bound on the number of process restarts

ASSUME NonEmptyAssumption == Teams # {} /\ Users # {}
ASSUME TTLAssumption == TTL \in Nat \ {0}
ASSUME MaxTimeAssumption == MaxTime \in Nat
ASSUME MaxCrashesAssumption == MaxCrashes \in Nat

Time == 0..MaxTime

\* No entry for this user under this team.
NoEntry == -1

VARIABLES
    now,          \* the clock (Clock.Now)
    teamKeys,     \* teams that have an inner map (created, never removed)
    lastSeen,     \* lastSeen[t][u]: scoutingMap[t][u], or NoEntry
    req,          \* state of each goroutine
    crashes,      \* process restarts so far
    latest        \* history: latest[t][u] is the newest time u inserted for t since the restart

vars == <<now, teamKeys, lastSeen, req, crashes, latest>>

Entries == {e \in Teams \X Users : lastSeen[e[1]][e[2]] # NoEntry}

Names(t) == {u \in Users : lastSeen[t][u] # NoEntry}

Idle == [pc |-> "idle", team |-> CHOOSE t \in Teams : TRUE,
         user |-> CHOOSE u \in Users : TRUE, time |-> 0, toVisit |-> {}]

ReqState ==
    [pc : {"idle", "create", "insert", "sweep"}, team : Teams, user : Users,
     time : Time, toVisit : SUBSET (Teams \X Users)]

TypeOK ==
    /\ now \in Time
    /\ teamKeys \subseteq Teams
    /\ lastSeen \in [Teams -> [Users -> Time \cup {NoEntry}]]
    /\ req \in [Requests -> ReqState]
    /\ crashes \in 0..MaxCrashes
    /\ latest \in [Teams -> [Users -> Time \cup {NoEntry}]]

Init ==
    /\ now = 0
    /\ teamKeys = {}
    /\ lastSeen = [t \in Teams |-> [u \in Users |-> NoEntry]]
    /\ req = [r \in Requests |-> Idle]
    /\ crashes = 0
    /\ latest = [t \in Teams |-> [u \in Users |-> NoEntry]]

\* Some other goroutine is inside the sweep's range loop.
Iterating(r) == \E q \in Requests \ {r} : req[q].pc = "sweep"

\* The process dies: the map and every request in flight are lost.
Crash ==
    /\ crashes < MaxCrashes
    /\ crashes' = crashes + 1
    /\ teamKeys' = {}
    /\ lastSeen' = [t \in Teams |-> [u \in Users |-> NoEntry]]
    /\ req' = [r \in Requests |-> Idle]
    /\ latest' = [t \in Teams |-> [u \in Users |-> NoEntry]]
    /\ UNCHANGED now

\* A map write by r: it races with any goroutine iterating the map, and a
\* race may end the process.
RacyWrite(r, write) ==
    \/ write
    \/ Iterating(r) /\ Crash

\* The clock advances.  A tick is TTL-th of 10 s; a goroutine does not stall
\* that long between clock.Now() and its insert, so no tick falls between.
Tick ==
    /\ now < MaxTime
    /\ \A r \in Requests : req[r].pc \notin {"create", "insert"}
    /\ now' = now + 1
    /\ UNCHANGED <<teamKeys, lastSeen, req, crashes, latest>>

\* The request is parsed; currentTime := handler.clock.Now();
\* collectedBy := parseUsername(req); then the unlocked nil check
\* handler.scoutingMap[teamNumber] == nil.  No tick falls between the clock
\* read and the check (see Tick), and the other steps commute with the
\* clock read, so the two are one step.
Begin(r, t, u) ==
    /\ req[r].pc = "idle"
    /\ req' = [req EXCEPT ![r] = [pc |-> IF t \in teamKeys THEN "insert" ELSE "create",
                                  team |-> t, user |-> u, time |-> now, toVisit |-> {}]]
    /\ UNCHANGED <<now, teamKeys, lastSeen, crashes, latest>>

\* The check saw no inner map: scoutingMap[teamNumber] =
\* map[string]time.Time{}.  Another goroutine may have created the team's
\* map since the check and written its entry there; the new, empty map
\* replaces it, and that entry is lost.
CreateTeam(r) ==
    LET t == req[r].team IN
    /\ req[r].pc = "create"
    /\ RacyWrite(r,
         /\ teamKeys' = teamKeys \cup {t}
         /\ lastSeen' = [lastSeen EXCEPT ![t] = [u \in Users |-> NoEntry]]
         /\ req' = [req EXCEPT ![r].pc = "insert"]
         /\ UNCHANGED <<now, crashes, latest>>)

\* Mutant: the entry stores its expiry time rather than the time seen.
InsertExpiry(r) ==
    LET t == req[r].team
        u == req[r].user
    IN /\ req[r].pc = "insert"
       /\ RacyWrite(r,
            /\ lastSeen' = [lastSeen EXCEPT ![t][u] = req[r].time + TTL]
            /\ latest' = [latest EXCEPT ![t][u] = IF @ > req[r].time THEN @ ELSE req[r].time]
            /\ req' = [req EXCEPT ![r].pc = "sweep", ![r].toVisit = Entries']
            /\ UNCHANGED <<now, teamKeys, crashes>>)

\* scoutingMap[teamNumber][collectedBy] = currentTime, into the inner map
\* that is there now; the range loop of the sweep starts over the entries
\* present.
Insert(r) ==
    LET t == req[r].team
        u == req[r].user
    IN /\ req[r].pc = "insert"
       /\ RacyWrite(r,
            /\ lastSeen' = [lastSeen EXCEPT ![t][u] = req[r].time]
            /\ latest' = [latest EXCEPT ![t][u] = IF @ > req[r].time THEN @ ELSE req[r].time]
            /\ req' = [req EXCEPT ![r].pc = "sweep", ![r].toVisit = Entries']
            /\ UNCHANGED <<now, teamKeys, crashes>>)

\* Mutant of the sweep's age test: "> 10 s".
VisitStrict(r, e) ==
    /\ req[r].pc = "sweep"
    /\ e \in req[r].toVisit
    /\ LET ts == lastSeen[e[1]][e[2]]
           next == [req EXCEPT ![r].toVisit = @ \ {e}]
       IN IF ts # NoEntry /\ req[r].time - ts > TTL
            THEN RacyWrite(r,
                   /\ lastSeen' = [lastSeen EXCEPT ![e[1]][e[2]] = NoEntry]
                   /\ req' = next
                   /\ UNCHANGED <<now, teamKeys, crashes, latest>>)
            ELSE /\ req' = next
                 /\ UNCHANGED <<now, teamKeys, lastSeen, crashes, latest>>

\* The range loop reaches entry e: delete it if currentTime.Sub(timeStamp)
\* >= 10 s.  An entry deleted by another goroutine meanwhile is skipped.
Visit(r, e) ==
    /\ req[r].pc = "sweep"
    /\ e \in req[r].toVisit
    /\ LET ts == lastSeen[e[1]][e[2]]
           next == [req EXCEPT ![r].toVisit = @ \ {e}]
       IN IF ts # NoEntry /\ req[r].time - ts >= TTL
            THEN RacyWrite(r,
                   /\ lastSeen' = [lastSeen EXCEPT ![e[1]][e[2]] = NoEntry]
                   /\ req' = next
                   /\ UNCHANGED <<now, teamKeys, crashes, latest>>)
            ELSE /\ req' = next
                 /\ UNCHANGED <<now, teamKeys, lastSeen, crashes, latest>>

\* The names a response to r would list: those under its team other than
\* the caller's own.
Response(r) == Names(req[r].team) \ {req[r].user}

\* The range loop is over; the response is read from the map and sent.
Respond(r) ==
    /\ req[r].pc = "sweep"
    /\ req[r].toVisit = {}
    /\ req' = [req EXCEPT ![r] = Idle]
    /\ UNCHANGED <<now, teamKeys, lastSeen, crashes, latest>>

Next ==
    \/ Tick
    \/ \E r \in Requests :
         \/ \E t \in Teams, u \in Users : Begin(r, t, u)
         \/ CreateTeam(r)
         \/ Insert(r)
         \/ \E e \in Teams \X Users : Visit(r, e)
         \/ Respond(r)

Spec == Init /\ [][Next]_vars

-----------------------------------------------------------------------------
(***************************************************************************)
(* Properties.                                                             *)
(***************************************************************************)

\* A response names only other users who inserted an entry for that team
\* less than TTL before the caller's clock read: the sweep's ">= 10 s"
\* bound, applied by any goroutine, never lets an expired viewer through,
\* and the caller is never listed.
ResponseSound ==
    [][\A r \in Requests :
         (req[r].pc = "sweep" /\ req'[r].pc = "idle" /\ crashes' = crashes) =>
            \A u \in Response(r) :
               /\ u # req[r].user
               /\ latest[req[r].team][u] # NoEntry
               /\ req[r].time - latest[req[r].team][u] < TTL]_vars

\* A response names every other user whose newest insert for that team,
\* since the last restart, is less than TTL before the moment the response
\* is read (spec.md 4.3: the viewers currently recorded for the team, with
\* the upsert, sweep and read under one exclusive lock).  The unlocked nil
\* check and creation of the team's inner map can lose such an insert.
ResponseComplete ==
    [][\A r \in Requests :
         (req[r].pc = "sweep" /\ req'[r].pc = "idle" /\ crashes' = crashes) =>
            \A u \in Users \ {req[r].user} :
               (latest[req[r].team][u] # NoEntry /\ now - latest[req[r].team][u] < TTL)
                  => u \in Response(r)]_vars

\* The server is never stopped by the handler's unsynchronised map use
\* (spec.md 5: the presence map is guarded by an exclusive lock).
NeverCrashes == crashes = 0

=============================================================================
