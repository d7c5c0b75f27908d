--------------------------- MODULE MatchAssembler ---------------------------
(***************************************************************************)
(* requestAllMatchesHandler.ServeHTTP (requests.go): the TeamMatch rows of *)
(* the database (one per team per match) are merged into one MatchT per    *)
(* MatchAssemblyKey {MatchNumber, SetNumber, CompLevel}, each team in the  *)
(* slot its alliance and position name, with its "data scouted" flag      *)
(* looked up in the database; the merged matches are then sorted with    *)
(* sort.Slice and the comparator of the handler.                           *)
(*                                                                         *)
(* Assemble reads one row per step, chosen with \E (a row list of at most *)
(* MaxRows rows).  Collect puts the map's values into MatchList in any    *)
(* order (Go map iteration order is unspecified).  sort.Slice on fewer    *)
(* than 13 elements is the insertion sort of Go's pdqsort_func:            *)
(*   for i := 1; i < n; i++ {                                              *)
(*     for j := i; j > 0 && less(j, j-1); j-- { swap(j, j-1) } }           *)
(* and Compare is one call of less, with its side effect on err.          *)
(***************************************************************************)
EXTENDS Integers, Sequences, FiniteSets

CONSTANTS
    MatchNumbers,   \* values of TeamMatch.MatchNumber
    SetNumbers,     \* values of TeamMatch.SetNumber
    CompLevels,     \* values of TeamMatch.CompLevel
    TeamNumbers,    \* values of TeamMatch.TeamNumber
    Alliances,      \* values of TeamMatch.Alliance ("R", "B" and others)
    Positions,      \* values of TeamMatch.AlliancePosition (1..3 and others)
    Scouted,        \* <<key, team>> pairs with a Stats2024 row of CompType "Regular"
    MaxRows         \* bound on the number of rows

ASSUME MatchNumbersAssumption == MatchNumbers \subseteq Int
ASSUME SetNumbersAssumption == SetNumbers \subseteq Int
ASSUME MaxRowsAssumption == MaxRows \in Nat

\* MATCH_TYPE_ORDERING.
MATCH_TYPE_ORDERING == <<"qm", "ef", "qf", "sf", "f">>

Keys == MatchNumbers \X SetNumbers \X CompLevels

ASSUME ScoutedAssumption == Scouted \subseteq Keys \X TeamNumbers

\* The six team fields of MatchT (R1 .. B3) and of its ScoutedLevelT.
Slots == {"R", "B"} \X {1, 2, 3}

NoTeam == "none"

\* A MatchT being assembled: its teams and scouted flags by slot.
Entry == [team : [Slots -> TeamNumbers \cup {NoTeam}], scouted : [Slots -> BOOLEAN]]

NewEntry == [team |-> [s \in Slots |-> NoTeam], scouted |-> [s \in Slots |-> FALSE]]

\* findIndexInList: the 0-based index of a level, or -1 when absent.
LevelIndex(level) ==
    IF \E k \in 1..Len(MATCH_TYPE_ORDERING) : MATCH_TYPE_ORDERING[k] = level
      THEN (CHOOSE k \in 1..Len(MATCH_TYPE_ORDERING) : MATCH_TYPE_ORDERING[k] = level) - 1
      ELSE -1

VARIABLES
    phase,       \* "assemble", "sort", "done" (response sent), "failed" (error sent)
    rows,        \* rows read so far
    assembled,   \* assembledMatches: a function from the keys seen to their MatchT
    MatchList,   \* response.MatchList, the keys of the merged matches
    i, j,        \* the indices of the insertion sort
    err          \* the err the comparator sets

vars == <<phase, rows, assembled, MatchList, i, j, err>>

TypeOK ==
    /\ phase \in {"assemble", "sort", "done", "failed"}
    /\ rows \in 0..MaxRows
    /\ DOMAIN assembled \subseteq Keys
    /\ \A k \in DOMAIN assembled : assembled[k] \in Entry
    /\ MatchList \in Seq(Keys)
    /\ i \in Nat /\ j \in Nat
    /\ err \in BOOLEAN

Init ==
    /\ phase = "assemble"
    /\ rows = 0
    /\ assembled = [k \in {} |-> NewEntry]
    /\ MatchList = << >>
    /\ i = 1 /\ j = 1
    /\ err = FALSE

\* Mutant: the default cases are missing; a row of an unknown alliance or
\* position is written into a slot of its own.
AssembleRowNoSlotCheck(key, alliance, position, team) ==
    LET entry == IF key \in DOMAIN assembled THEN assembled[key] ELSE NewEntry
        slot == <<alliance, position>>
        AddSlot(f, v) == [s \in DOMAIN f \cup {slot} |-> IF s = slot THEN v ELSE f[s]]
    IN /\ phase = "assemble"
       /\ rows < MaxRows
       /\ rows' = rows + 1
       /\ \/ /\ assembled' = [k \in DOMAIN assembled \cup {key} |->
                   IF k = key
                     THEN [team    |-> AddSlot(entry.team, team),
                           scouted |-> AddSlot(entry.scouted, <<key, team>> \in Scouted)]
                     ELSE assembled[k]]
             /\ UNCHANGED phase
          \/ /\ phase' = "failed"
             /\ UNCHANGED assembled
       /\ UNCHANGED <<MatchList, i, j, err>>

\* Mutant: a refilled slot keeps a flag once set.
AssembleRowStickyFlag(key, alliance, position, team) ==
    LET entry == IF key \in DOMAIN assembled THEN assembled[key] ELSE NewEntry
        slot == <<alliance, position>>
    IN /\ phase = "assemble"
       /\ rows < MaxRows
       /\ rows' = rows + 1
       /\ \/ /\ slot \notin Slots
             /\ phase' = "failed"
             /\ UNCHANGED assembled
          \/ /\ slot \in Slots
             /\ \/ /\ assembled' = [k \in DOMAIN assembled \cup {key} |->
                         IF k = key
                           THEN [team    |-> [entry.team EXCEPT ![slot] = team],
                                 scouted |-> [entry.scouted EXCEPT ![slot] = @ \/ <<key, team>> \in Scouted]]
                           ELSE assembled[k]]
                   /\ UNCHANGED phase
                \/ /\ phase' = "failed"      \* the database lookup failed
                   /\ UNCHANGED assembled
       /\ UNCHANGED <<MatchList, i, j, err>>

\* One row of the loop over matches.  An alliance other than "R"/"B" or a
\* position outside 1..3 ends the request with an error; so does a failed
\* ReturnStats2024ForTeam.  Otherwise the team goes in its slot, its flag
\* is len(stats) > 0, and the entry is stored back under its key.
AssembleRow(key, alliance, position, team) ==
    LET entry == IF key \in DOMAIN assembled THEN assembled[key] ELSE NewEntry
        slot == <<alliance, position>>
    IN /\ phase = "assemble"
       /\ rows < MaxRows
       /\ rows' = rows + 1
       /\ \/ /\ slot \notin Slots
             /\ phase' = "failed"
             /\ UNCHANGED assembled
          \/ /\ slot \in Slots
             /\ \/ /\ assembled' = [k \in DOMAIN assembled \cup {key} |->
                         IF k = key
                           THEN [team    |-> [entry.team EXCEPT ![slot] = team],
                                 scouted |-> [entry.scouted EXCEPT ![slot] = <<key, team>> \in Scouted]]
                           ELSE assembled[k]]
                   /\ UNCHANGED phase
                \/ /\ phase' = "failed"      \* the database lookup failed
                   /\ UNCHANGED assembled
       /\ UNCHANGED <<MatchList, i, j, err>>

\* The loop is over: copy the map's values into MatchList, in the map's
\* (any) iteration order.
Collect ==
    /\ phase = "assemble"
    /\ \E order \in [1..Cardinality(DOMAIN assembled) -> DOMAIN assembled] :
          /\ \A a, b \in DOMAIN order : a # b => order[a] # order[b]
          /\ MatchList' = order
    /\ phase' = "sort"
    /\ UNCHANGED <<rows, assembled, i, j, err>>

\* Mutant: the comparator looks at the set number before the match number.
LessSetFirst(a, b) ==
    LET ai == LevelIndex(a[3])
        bi == LevelIndex(b[3])
    IN IF err \/ ai = -1 \/ bi = -1 THEN FALSE
       ELSE \/ ai < bi
            \/ ai = bi /\ a[2] < b[2]
            \/ ai = bi /\ a[2] = b[2] /\ a[1] < b[1]
            \/ ai = bi /\ a[1] = b[1] /\ a[2] = b[2]

\* The comparator: is match a ordered before match b?  Returns FALSE
\* without looking once err is set, and sets err on an unknown level.
Less(a, b) ==
    LET ai == LevelIndex(a[3])
        bi == LevelIndex(b[3])
    IN IF err \/ ai = -1 \/ bi = -1 THEN FALSE
       ELSE \/ ai < bi
            \/ ai = bi /\ a[1] < b[1]
            \/ ai = bi /\ a[1] = b[1] /\ a[2] < b[2]
            \/ ai = bi /\ a[1] = b[1] /\ a[2] = b[2]

LessErr(a, b) == err \/ LevelIndex(a[3]) = -1 \/ LevelIndex(b[3]) = -1

\* One call less(j, j-1) of the inner loop, and the swap when it holds.
Compare ==
    /\ phase = "sort"
    /\ i < Len(MatchList)
    /\ j > 0
    /\ LET a == MatchList[j + 1]
           b == MatchList[j]
       IN /\ err' = LessErr(a, b)
          /\ IF Less(a, b)
               THEN /\ MatchList' = [MatchList EXCEPT ![j] = a, ![j + 1] = b]
                    /\ j' = j - 1
                    /\ UNCHANGED i
               ELSE /\ i' = i + 1 /\ j' = i + 1
                    /\ UNCHANGED MatchList
    /\ UNCHANGED <<phase, rows, assembled>>

\* The inner loop ran down to j = 0: next i.
NextI ==
    /\ phase = "sort"
    /\ i < Len(MatchList)
    /\ j = 0
    /\ i' = i + 1 /\ j' = i + 1
    /\ UNCHANGED <<phase, rows, assembled, MatchList, err>>

\* Mutant: the err captured by the comparator is never checked.
SortDoneIgnoreErr ==
    /\ phase = "sort"
    /\ i >= Len(MatchList)
    /\ phase' = "done"
    /\ UNCHANGED <<rows, assembled, MatchList, i, j, err>>

\* sort.Slice has returned: an error from the comparator is the response,
\* otherwise the sorted list is.
SortDone ==
    /\ phase = "sort"
    /\ i >= Len(MatchList)
    /\ phase' = IF err THEN "failed" ELSE "done"
    /\ UNCHANGED <<rows, assembled, MatchList, i, j, err>>

Next ==
    \/ \E key \in Keys, al \in Alliances, p \in Positions, t \in TeamNumbers :
          AssembleRow(key, al, p, t)
    \/ Collect
    \/ Compare
    \/ NextI
    \/ SortDone

Spec == Init /\ [][Next]_vars

-----------------------------------------------------------------------------
(***************************************************************************)
(* Properties.                                                             *)
(***************************************************************************)

\* The order spec.md 4.2 asks for: level by MATCH_TYPE_ORDERING, then
\* match number, then set number.
Before(a, b) ==
    \/ LevelIndex(a[3]) < LevelIndex(b[3])
    \/ LevelIndex(a[3]) = LevelIndex(b[3]) /\ a[1] < b[1]
    \/ LevelIndex(a[3]) = LevelIndex(b[3]) /\ a[1] = b[1] /\ a[2] < b[2]

\* A response holds every merged match exactly once, in chronological
\* bracket order: the insertion sort, driven by the handler's comparator
\* (which answers "true" for equal keys), orders the map's values whatever
\* order the map yielded them in.
SortedResponse ==
    phase = "done" =>
        /\ {MatchList[k] : k \in DOMAIN MatchList} = DOMAIN assembled
        /\ \A k \in 1..Len(MatchList) - 1 : Before(MatchList[k], MatchList[k + 1])

\* Every team in a merged match carries the scouted flag of that team in
\* that very match: a slot refilled by a later row gets the later team's
\* flag, and matches sharing a number but not a set or level are not mixed.
ScoutedFlagsAgree ==
    \A k \in DOMAIN assembled : \A s \in Slots :
        assembled[k].team[s] # NoTeam =>
            assembled[k].scouted[s] = (<<k, assembled[k].team[s]>> \in Scouted)

\* A response is sent only when every match's level is in
\* MATCH_TYPE_ORDERING (spec.md 4.2: an absent level fails the whole sort).
LevelsKnown ==
    phase = "done" => \A k \in DOMAIN assembled : LevelIndex(k[3]) # -1


-----------------------------------------------------------------------------
(***************************************************************************)
(* Refinement of MatchResponse.  The merged keys are the map's keys, the  *)
(* answer is MatchList once the handler has answered, the order is Before *)
(* and the keys it cannot place are those of an unknown level.  Collect   *)
(* is StartSort, the comparator calls and the loop steps are stutters,    *)
(* and SortDone is Respond or Reject.                                     *)
(***************************************************************************)

\* A key whose level is not in MATCH_TYPE_ORDERING.
UnknownLevel(k) == LevelIndex(k[3]) = -1

\* The list the client receives, once it is sent.
Response == IF phase = "done" THEN MatchList ELSE << >>

Abstract == INSTANCE MatchResponse WITH merged <- DOMAIN assembled, response <- Response,
                                        Precedes <- Before, Unknown <- UnknownLevel

\* The handler keeps MatchResponse's promise: a success answer lists every
\* merged match once in Before order, and the sort ends in an error only
\* when a merged match has a level outside MATCH_TYPE_ORDERING.
ImplementsMatchResponse == Abstract!Spec

=============================================================================
