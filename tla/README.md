# Formal models of the scouting request handlers

TLA+ models of the non-trivial parts of
`src/scouting/webserver/requests/requests.go`. The runs are model-checked with
TLC, and proofs are checked with TLAPS.

## The system

The scouting web server answers HTTP requests. `net/http` serves each request
in its own goroutine, so handlers run concurrently. Most handlers read or write
one table through the `Database` interface (requests.go:85-105); its
implementation is not in this repository. Four parts hold real logic:

| Part | Code | State | Interacts with |
|---|---|---|---|
| Action reducer | `ConvertActionsToStat2024` (498-617) | loop-local: `stat`, `overall_time`, `cycles`, `picked_up`, `lastPlacedTime` | called by the submission handler |
| Presence tracker | `requestCurrentScoutingHandler` (373-421) | `scoutingMap`, shared by every request, no lock | the clock, `parseUsername` |
| Match assembler | `requestAllMatchesHandler` (175-371) | request-local map `assembledMatches`, `MatchList`, the comparator's `err` | database: match rows, stats lookups |
| Submission / deletion | `submit2024ActionsHandler`, `Delete2024DataScoutingHandler` (985-1106) | database tables `actions` and `stats2024` | reducer, database; the match assembler reads `stats2024` |
| Row handlers | notes, pit images, driver rankings, shift schedule: submit and read (427-496, 683-983) | database tables of rows | database only; each other through the tables |

Not modelled:
- `parseUsername` (151-173) is string decoding. The models draw names from a
  constant set.
- `request2024DataScoutingHandler` (619-677) makes one `ReturnStats2024` call
  and serialises the rows. It has no control of its own.
- Request bodies that cannot be read or parsed. They are answered with an
  error before any database call, in every handler.
- `parseRequest`, `respondWithError` and `HandleRequests` are
  framing and routing.
- `debug/debug.go` is a test client doing pure I/O.

## Modules

Each module has its own `MC_*.tla`. It gives the constants small values,
mostly model values, and a symmetry set where the values are interchangeable.

### ActionReducer

One step is one iteration of the loop over `ActionsList`. The action read in
that step is chosen with `\E` from small sets, so the behaviours are the
reductions of every action list of up to `MaxActions` actions.

- `Fail` is each `return db.Stats2024{}, err` inside the loop.
- There is one action per branch of the if/else chain: `StartMatchAction`,
  `MobilityAction`, `PenaltyAction`, `RobotDeathAction`, `NoShowAction`,
  `PickupNoteAction`, `PlaceNoteAction`, `EndMatchAction`, and `OtherAction`
  for an action type no branch tests.
- `Finish` is the code after the loop.
- `ClassOf` is the chain that picks the counter for a placement.
- `GoQuo` is Go's truncating division.
- `pickups` and `counted` are history variables, used only by the properties.

Runs (`MC_ActionReducer`: timestamps {0,2,5}, five actions, about 56,000 states):

- `action_reducer` (pass). It checks:
  - `NoUnmatchedPlacement`: notes placed plus the note held never exceed the
    pickups.
  - `AvgCycleCorrect`: at the end, `AvgCycle` equals the reference
    `CycleSum(counted)` divided in Go fashion by the number of counted
    placements. It checks the running totals against a sum over the whole
    list, over decreasing timestamps (a negative `overall_time`) and Go's
    truncation. `CycleSum` keeps the code's timestamp-0 sentinel, which
    spec.md §4.1 prescribes too, and its divisor n. So this property says
    nothing about either of them. The divisor is checked against spec.md by
    the next run.
  - `TallyNeverRetracts`: counters and sticky flags never go back.
  - `TypeOK`.
- `action_reducer_spec_avg_cycle` (violation). spec.md §8 divides the n-1 gaps
  by n-1; the code divides by n. The code's test (requests_test.go) expects the
  code's value.
- `action_reducer_one_stage` (violation). spec.md §4.1 says EndMatch sets exactly
  one stage flag, but two EndMatchActions set two.

Timestamp 0 is included so that the sentinel case happens. Out-of-order
timestamps give a negative total. Five actions allow two pickup/place pairs plus
an EndMatch or a Finish.

### CurrentScouting

The shared map is `lastSeen[team][user]`, with `NoEntry` for an absent entry.
`teamKeys` holds the inner maps that have been created. Each goroutine in
`Requests` goes through these steps:

1. `Begin`: the clock read, the username and the nil check of the team's
   inner map (396). It goes on to `CreateTeam` if the check saw no map, and to
   `Insert` otherwise. No tick falls between the clock read and the check, and
   the other goroutines' steps commute with the clock read, so one step is
   enough.
2. `CreateTeam`: `scoutingMap[teamNumber] = map[string]time.Time{}` (397).
   The check and the creation take no lock. Another goroutine may have created
   the team's map since the check and written its entry there. The new, empty
   map replaces it, so that entry is lost without any runtime error.
3. `Insert`: the write at 399. The sweep's range loop then starts over the
   entries present.
4. `Visit(r, e)`: one iteration of the range loop, which deletes an entry at
   least `TTL` old.
5. `Respond`: the names under the team, other than the caller.

Go's map is not safe for concurrent use. A write while another goroutine
ranges over the map is modelled by `RacyWrite`: the write happens, or the
runtime's fatal error ("concurrent map iteration and map write") stops the
process (`Crash`), and the map is lost. Two plain writes are atomic steps
here, so Go's "concurrent map writes" error, which needs the writes to
overlap in time, is not modelled. `Tick` advances the clock, but not
between a goroutine's clock read and its insert. This assumes no goroutine
stalls for 10 s there; without the assumption, the stale-clock hazard below
breaks `ResponseSound` in a trivial way. `latest` is history: the newest time
each user inserted for each team since the last restart.

Runs (`MC_CurrentScouting`: two teams, two users, two requests, `TTL` = 2,
clock up to 3, one crash; symmetry over all three sets; about 1,180,000
states):

- `current_scouting` (pass). It checks:
  - `ResponseSound`: a response lists only other users seen for that team less
    than `TTL` before the caller's clock read. This is an action property on
    the response step. It holds under every interleaving of two sweeps, the
    inserts and the racing creations of an inner map, and across a crash. A
    lost entry only removes names.
  - `TypeOK`.
- `current_scouting_complete` (violation). `ResponseComplete` says a response
  lists every other user whose newest insert for the team is less than `TTL`
  old, as spec.md §4.3 and its lock require. It fails. Two first requests for
  a team both see no inner map and both create one. The second creation
  replaces the map the first has written its user into, and a later response
  omits that user.
- `current_scouting_crash` (violation). `NeverCrashes` is spec.md §5's
  requirement that the map be locked. Two requests race, and the process can
  die.

### MatchAssembler

- `AssembleRow` is one iteration of the loop over the match rows. The row is
  chosen with `\E`, up to `MaxRows` rows. It covers the slot switch with its
  error branches, and the scouted lookup, which may fail.
- `Collect` copies the map's values in any order, because Go's map order is
  unspecified.
- `sort.Slice` on fewer than 13 elements is pdqsort's insertion sort.
  - `Compare` is one call of the handler's comparator (`Less`, which also
    sets `err` through `LessErr`), with its swap.
  - `NextI` ends the inner loop.
- `SortDone` answers with the error or the list.

Runs (`MC_MatchAssembler`: matches {1,2}, sets {1,2}, levels {qm, sf,
quarterfinal} (two known, one not), alliances {R, G}, positions {1,2,4},
three rows; about 342,000 states):

- `match_assembler` (pass). It checks:
  - `SortedResponse`: a response is a permutation of the merged keys in level,
    match, set order, whatever order the map yields them in.
  - `ScoutedFlagsAgree`: each team carries its own flag, and a refilled slot
    has its flag refreshed.
  - `TypeOK`.
  - `ImplementsMatchResponse`: the handler implements `MatchResponse`
    (below). The unknown level makes sorts that fail reachable.
- `match_assembler_levels` (violation). A level outside `MATCH_TYPE_ORDERING`
  should fail the batch (spec.md §4.2). With a single merged match, the
  comparator is never called and the match is returned.

`MatchResponse` is what the handler promises, stated without the map or the
sort. While rows are read, the set `merged` of match keys grows (`Merge`) or
the request fails (`MergeFail`). After `StartSort`, the handler either
answers with the merged keys, each once, in the order `Precedes`
(`Respond`), or answers with an error (`Reject`). `Reject` is allowed only
when some merged key is `Unknown`. MatchAssembler instantiates it as follows:
- `merged` is `DOMAIN assembled`;
- the response is `MatchList` once `phase = "done"`, and `<< >>` before that;
- `Precedes` is `Before`;
- `Unknown` is `UnknownLevel`, a level missing from `MATCH_TYPE_ORDERING`.

The comparator cannot stop `sort.Slice`: after an
  unknown level it answers false while the sort goes on. The list it leaves
  is not sorted, and only the `err` check after the sort keeps it from being
  sent. The mutant that drops that check breaks the refinement.

### ScoutingStore

The two tables are row counts per key. Each database call is one atomic step
that may fail. A submission does the following:

1. `BeginSubmit` reads and parses the request. A read or parse failure has no
   effect on the database and is left out.
2. `AddActionStep` is one loop iteration: the negative-timestamp check, then
   `AddAction`.
3. `EndOfActions` ends the loop.
4. `Convert` is the reducer's outcome, a free choice here; ActionReducer models
   how it is computed.
5. `StoreStats` is `AddToStats2024`.

A deletion does `BeginDelete`, then `DeleteStats`, then `DeleteActions`.

Runs (`MC_ScoutingStore`: two keys, two requests, submissions of up to two
actions, three requests in all; about 18,000 states):

- `scouting_store` (pass). `TypeOK`: the row counts, and every loop index
  within its action list, under concurrent submissions and deletions whose
  database calls may fail.
- `scouting_store_delete` (violation). `DeleteClearsKey` says a deletion whose
  `DeleteFromActions` removes the key's action rows, and so answers success,
  leaves no stats row under the key. `TestDeleteFromStats2024` expects a
  successful deletion to leave both tables free of the key. It fails. A
  submission of the key stores its actions and its stats row between the
  deletion's two calls. The deletion then removes those actions, keeps the
  stats row and answers success.
- `scouting_store_orphans` (violation). spec.md §7 says a failed reduction must
  not partially persist. The handler stores actions before it validates and
  reduces them, so a failure leaves orphan action rows.

### RowHandlers and RowTables

`RowHandlers` models the handlers that add rows to a table or read them back:

- notes: `submitNoteScoutingHandler`, `requestNotesForTeamHandler`,
  `requestAllNotesHandler`;
- pit images: `submitPitImageScoutingHandler`, `requestPitImagesHandler`,
  `requestAllPitImagesHandler`;
- driver rankings: `SubmitDriverRankingHandler`,
  `requestAllDriverRankingsHandler`;
- shifts: `submitShiftScheduleHandler`, `requestShiftScheduleHandler`.

A row is a key (team or match number) and a payload from small sets. `db[t]`
is the set of rows of table `t`. Each goroutine's state is in `req[r]`.

A submission goes through these steps:

1. `BeginSubmit` reads and parses the body and fixes the list of rows. It is
   one row, or up to `MaxShifts` rows for a shift schedule.
2. `AddRow` is one `Add*` call, or one iteration of the shift schedule's loop
   with its `AddToShift`. The call succeeds and stores the row, or it fails,
   and then the handler answers the error at once. Rows stored earlier stay
   stored.
3. `Acknowledge` writes the success answer after the last row. The history
   variable `acked` records the rows it covers.

A read goes through `BeginRead` (each `Request*` operator fixes the table and
the keys), then `Query` (the `Return*`/`Query*` call, which may fail), then
`Answer`. `seen` records `acked` at the time the read began.

`RowTables` is the abstract specification of what these handlers promise:

- tables only grow (`Store`);
- a success answer covers only stored rows (`Ack`);
- a read answers with the table as it was at one moment after the read was
  received (`StartRead`, `Serve`, `Stop`).

The refinement mapping keeps `db` and `acked` and maps each goroutine's read to
`rd` (`ReadOf`). An `AddRow` that succeeds is a `Store`. An `Acknowledge` is an
`Ack`. `Query` is `Serve`, or `Stop` on failure. A failed `AddRow` and the
submission steps are stutters.

Runs (`MC_RowHandlers`: two keys, one payload, two goroutines, shift
schedules of up to two assignments, four requests in all; about 400,000
states). Two keys let a keyed read miss a row of the other key. Two
assignments let a schedule be stored in part. Four requests let a
two-assignment submission, an overlapping read and a later read all happen in
one behaviour.

- `row_handlers` (pass). It checks:
  - `ReadSeesAcknowledged`: a read's response holds every row under its keys
    whose submission was answered success before the read began. This fails
    if a handler answers success after a failed call, or stops the loop
    early.
  - `ImplementsRowTables`: `Spec` implements `RowTables!Spec` under the
    mapping above.

A read concurrent with a shift schedule submission can return part of the
schedule. RowTables allows this, and so does the code: nothing promises an
atomic schedule.

## Mutants

Each property of a passing run has a mutant in its module, an operator defined
just before the definition it replaces, and PROJECT.json lists them. Examples:

- the pickup check dropped;
- floor instead of truncating division;
- `>` instead of `>=` in the sweep;
- the comparator testing the set number before the match number;
- the comparator's `err` not checked after the sort;
- a refilled slot keeping an old flag;
- an off-by-one loop bound.

TLC finds every one of them.

## Fairness

Every run checks safety only, so no fairness is assumed. Their bounds make the
system stop, and `CHECK_DEADLOCK FALSE` is set for that reason. The
presence tracker's sweep ranges over a snapshot of finitely many entries and
removes one per step, so its termination needs no run of its own.

## Proofs

`ActionReducerProofs` proves, for every value of the constants:

- `TallyKept`: `Spec => TallyNeverRetracts`, the action property. It follows
  from `TypeOK` alone. `CountsGrowStep` covers the counters: a step
  increments at most one of them. `FlagsKeptStep` covers the sticky flags:
  every write to one of them is `TRUE` or `@ \/ ...`. The arithmetic goes to
  SMT and the Booleans to Zenon.

- `TypeCorrect`: `Spec => []TypeOK`. The proof has one case per action.
  `picked_up` is kept apart (`PickedUpStep`) so that the Boolean reasoning goes
  to Zenon and the arithmetic to SMT.
- `PlacementsMatchPickups`: `Spec => []NoUnmatchedPlacement`.
  `NoUnmatchedPlacement` is not inductive alone: the step of a placement needs
  the types of the counters and of `picked_up`. The inductive invariant is
  `IInv == TypeOK /\ NoUnmatchedPlacement`. The placement step adds one to
  exactly one counter (`PlacedNotesIncrement`) while it clears `picked_up`
  (`HeldBound`), so the left side is unchanged. A pickup adds at most one held
  note and one pickup.
- `AvgCycleHolds`: `Spec => []AvgCycleCorrect`. When the loop ends,
  `AvgCycle` is `CycleSum(counted) / Len(counted)` with Go's truncation, where
  `CycleSum` is the reference sum of the gaps between counted placements. The
  inductive invariant `CycleInv` ties the code's running variables to the
  history: `cycles = Len(counted)`, `lastPlacedTime` is the last counted time
  (or 0), and `overall_time = CycleSum(counted)`. TLC checked `CycleInv` as an
  invariant of the `action_reducer` instance first. Every step either leaves
  the four variables alone or appends a placement (`CycleTotalsStep`).
  `CycleSumAppend` shows that appending `t` adds `t - last` exactly when the
  last time is nonzero. That matches the code's `if lastPlacedTime != 0`.
  `CycleSum` is a recursive function (`LET f[k \in 0..Len(s)] == ...`). Its
  fixpoint equation is proved without NaturalsInduction, whose theorems take
  an operator parameter:
  - `LeastNatural` is the least-number principle, derived from `WFMin` and
    `NatLessThanWellFounded` of WellFoundedInduction.
  - `CycleFcnExists` shows that a function satisfying the equation exists on
    every prefix `0..m`, by taking the least `m` where none does.
  - `CycleFcnAgree` shows that two such functions agree wherever their lists
    agree, by taking the least point where they differ.
  - Together these give `CycleSumEmpty` and `CycleSumAppend`.

`ScoutingStoreProofs` proves, for any sets of keys and requests and any
bounds:

- `TypeCorrect`: `Spec => []TypeOK`. Lemmas on overwriting one field of a
  request (`SetPc`, `SetAdded`) keep the record reasoning small.
`CurrentScoutingProofs` proves, for any teams, users, goroutines, `TTL > 0`
and bounds:

- `TypeCorrect`: `Spec => []TypeOK`.
- `InvariantHolds`: `Spec => []IInv`. `IInv` is `TypeOK` and five conjuncts:
  - `InsertNow`: a goroutine between its clock read and its insert holds the
    current time, because `Tick` does not fall in between.
  - `ReadsBehind`: no goroutine's clock read is ahead of `now`.
  - `LatestBehind`: `latest` is never ahead of `now`.
  - `EntryIsLatest`: an entry present in the map is its user's newest insert.
    An insert writes `now`, which is at least every earlier insert.
    `CreateTeam` only removes entries. No tick falls between a clock read and
    its insert, so a lost update cannot leave an older entry in place of a
    newer one.
  - `SweptFresh`: every entry that a sweeping goroutine is no longer going to
    visit is younger than `TTL` by that goroutine's clock read. An entry the
    sweep kept passed the `>= TTL` test. An entry written by another insert
    meanwhile carries `now`, which is not older than the sweeper's clock read.
    A `Crash` resets everything to an initial-like state (`CrashIInv`).
- `ResponseSoundHolds`: `Spec => ResponseSound`. A goroutine leaves its sweep
  without a restart only through `Respond`, with nothing left to visit
  (`SweepEndsAtRespond`). Every name in its response is therefore in
  `Entries \ toVisit`, and `SweptFresh` and `EntryIsLatest` give the bound.
`RowHandlersProofs` proves, for any keys, payloads and goroutines and any
bounds:

- `TypeCorrect`: `Spec => []TypeOK`.
- `ReadsSeeAcknowledgedRows`: `Spec => []ReadSeesAcknowledged`. The inductive
  invariant is `IInv == TypeOK /\ AckedStored /\ PrefixStored /\ SeenAcked /\
  ReadSeesAcknowledged`:
  - `AckedStored`: every acknowledged row is stored.
  - `PrefixStored`: a submission's first `i` rows are stored, so
    `Acknowledge` (at `i = Len(rows)`) adds only stored rows to `acked`.
  - `SeenAcked`: what a read has seen is acknowledged.
  - Tables only grow, so `Query`'s result includes every seen row under the
    keys.

  TLC checked `IInv` as an invariant of the `row_handlers` instance before the
  proof.
- `Refinement`: `Spec => ImplementsRowTables`. `InitRefines` shows that the
  initial state maps to RowTables' initial state. `StepRefines` shows that,
  under `IInv`, every step maps to a RowTables step or a stutter. The `Ack`
  guard is `AckedStored`'s argument again. `NotReadingNoRead` shows that a
  goroutine that is not reading maps to `NoRead`.

`MatchAssemblerProofs` proves, for any sets of match numbers, set numbers,
levels and teams, any scouted relation and any row bound:

- `InvariantHolds`: `Spec => []IInv`. `IInv` is `TypeOK` and:
  - `AssembleInv`: while rows are merged the list is empty and the sort has
    not started.
  - `ScoutedFlagsAgree` itself: a row writes a slot together with the flag
    looked up for that slot's own team.
  - `Distinct` and `ListIsMerged`: once collected, the list is a
    duplicate-free enumeration of the merged map's keys. `Collect` picks an
    injective order of a finite set of size `Len`, which is onto
    (`OrderIsPermutation`, from `FS_Injection`). A comparator step swaps two
    neighbours and keeps the range and distinctness (`SwapLemma`).
  - `SortIndices`: `1 <= i`, `j <= i`, and `j < i` only while `i < Len`.
  - `SortInv`: without a comparator error, positions `1..i+1` other than the
    element being inserted (at `j+1`) are in order (`SortedExcept`), and that
    element comes before every position after it up to `i+1`
    (`InsertedFirst`). This is the insertion sort's loop invariant.
  - `DoneInv`: on success the whole list is in order.

  The comparator lemmas carry the argument: `Before` is irreflexive,
  transitive and total on distinct keys with known levels
  (`BeforeTransitive`, `BeforeTotal`). On a call that returns no error,
  `Less` agrees with `Before` (`LessIsBefore`). A swap re-establishes
  `SortedExcept` with the skipped position moved one down. A refusal
  (`~Less`) gives `Before(b, a)`, and transitivity closes the gap at `j+1`.
  TLC checked `IInv` as an invariant of both MatchAssembler instances
  before the proof.
- `TypeCorrect`, `ScoutedFlagsHold`, `SortedResponseHolds`: `Spec => []TypeOK`,
  `[]ScoutedFlagsAgree` and `[]SortedResponse`, each from `IInv`.
  `SortedResponse` follows from `ListIsMerged` and `DoneInv`.
- `Refinement`: `Spec => ImplementsMatchResponse`. It rests on
  `RInv == IInv /\ ErrWitness`. `ErrWitness` says that `err` implies a
  merged key of unknown level. `err` is false while rows are read
  (`AssembleInv`). A comparator call sets it only on an unknown level of one
  of its two keys. Both keys are in the list, and so merged
  (`ListIsMerged`, `SortIndices`). The mapping sends each step as follows:
  - `AssembleRow` to `Merge` or `MergeFail`;
  - `Collect` to `StartSort`;
  - comparator calls and `NextI` to stutters, since the response is empty
    until the answer;
  - `SortDone` to `Reject` (by `ErrWitness`) or to `Respond`
    (`RespondStep`: `IInv` after the step gives `Distinct`,
    `ListIsMerged` and `DoneInv`). TLC checked `RInv` on the `match_assembler`
    instance before the proof.

Only model-checked:
- `LevelsKnown` is the property of a violation run. It fails in the code: a
  single match of an unknown level is never compared, so it is returned
  without error. `SortedResponseHolds` covers every success response, this
  one included. It says nothing of an error response.
- `ResponseComplete`, `DeleteClearsKey`, `NeverCrashes`, `NoOrphanActions`,
  `SpecAvgCycle` and `OneStageResult` are the properties of violation runs.
  They fail in the code, and TLC's traces are the evidence.
- No property needs liveness. TLAPS does not reason about liveness under
  fairness or about `ENABLED`, so one would stay with TLC.

## Plan

Next:
1. Compose the reducer with ScoutingStore, so that `Convert` uses the real
   outcome of the reduction.
2. Add `request2024DataScoutingHandler` to ScoutingStore as a read of the
   stats table, concurrent with submissions and deletions.
