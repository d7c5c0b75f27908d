--------------------------- MODULE ActionReducer ---------------------------
(***************************************************************************)
(* ConvertActionsToStat2024 (requests.go): the loop that folds the list of *)
(* 2024 scouting actions of one (team, match) into one Stats2024 row.      *)
(*                                                                         *)
(* One step of the model is one iteration of the loop over                 *)
(* submit2024Actions.ActionsList: the action read in that iteration is     *)
(* chosen with \E from small sets, so a behaviour is the reduction of one  *)
(* arbitrary action list of at most MaxActions entries.  Finish is the     *)
(* code after the loop (the average cycle time); Fail is every             *)
(* "return db.Stats2024{}, err".                                           *)
(*                                                                         *)
(* The nine placement counters of Stats2024 (AmpAuto, Amp, ...) are the    *)
(* function count, indexed by the field's name.  Identity fields (team,    *)
(* match, set, comp level and type) are copied from the request and never *)
(* change, so they are left out.                                           *)
(***************************************************************************)
EXTENDS Integers, Sequences

CONSTANTS
    Timestamps,     \* values of Action.timestamp (non-negative: the handler rejects < 0)
    Positions,      \* values of StartMatchAction.position
    PenaltyValues,  \* values of PenaltyAction.penalties
    MaxActions      \* bound on the length of the actions list

ASSUME TimestampsAssumption == Timestamps \subseteq Nat /\ Timestamps # {}
ASSUME PositionsAssumption == Positions \subseteq Int /\ Positions # {}
ASSUME PenaltyValuesAssumption == PenaltyValues \subseteq Int /\ PenaltyValues # {}
ASSUME MaxActionsAssumption == MaxActions \in Nat

\* The ScoreType enum of PlaceNoteAction and the StageType enum of EndMatchAction.
ScoreTypes == {"AMP", "SPEAKER", "SPEAKER_AMPLIFIED", "DROPPED", "SHUTTLED", "OUT_OF_FIELD"}
StageTypes == {"NONE", "PARK", "ON_STAGE", "HARMONY"}

\* The Stats2024 counters a placement can increment.
ScoreClasses == {"AmpAuto", "Amp", "Speaker", "SpeakerAuto", "SpeakerAmplified",
                 "NotesDroppedAuto", "NotesDropped", "Shuttled", "OutOfField"}

\* The placements that do not count in cycle time (count_in_cycle = false).
NotInCycle == {"NotesDroppedAuto", "NotesDropped", "Shuttled", "OutOfField"}

\* The if/else-if chain that picks the counter of a placement; the chain's
\* final else (an unknown combination, e.g. an auto amplified speaker shot)
\* is "none".
ClassOf(score_type, auto) ==
    CASE score_type = "AMP" /\ auto                      -> "AmpAuto"
      [] score_type = "AMP" /\ ~auto                     -> "Amp"
      [] score_type = "SPEAKER" /\ ~auto                 -> "Speaker"
      [] score_type = "SPEAKER" /\ auto                  -> "SpeakerAuto"
      [] score_type = "SPEAKER_AMPLIFIED" /\ ~auto       -> "SpeakerAmplified"
      [] score_type = "DROPPED" /\ auto                  -> "NotesDroppedAuto"
      [] score_type = "DROPPED" /\ ~auto                 -> "NotesDropped"
      [] score_type = "SHUTTLED"                         -> "Shuttled"
      [] score_type = "OUT_OF_FIELD"                     -> "OutOfField"
      [] OTHER                                           -> "none"

\* Go's integer division truncates toward zero; \div floors.
GoQuo(a, b) == IF a >= 0 THEN a \div b ELSE -((-a) \div b)

\* The non-counter fields of Stats2024 that the loop writes.
StatFields ==
    [StartingQuadrant : Int, MobilityAuto : BOOLEAN, Penalties : Int,
     TrapNote : BOOLEAN, Spotlight : BOOLEAN, AvgCycle : Int,
     Park : BOOLEAN, OnStage : BOOLEAN, Harmony : BOOLEAN,
     RobotDied : BOOLEAN, NoShow : BOOLEAN]

VARIABLES
    pc,             \* "loop", "done" (returned stat, nil) or "failed" (returned an error)
    i,              \* loop index: number of actions read so far
    stat,           \* the non-counter fields of the Stats2024 being built
    count,          \* the placement counters of the Stats2024 being built
    overall_time,
    cycles,
    picked_up,
    lastPlacedTime,
    \* history, for the properties only
    pickups,        \* number of PickupNoteActions read
    counted         \* timestamps of the placements that counted in cycle time

vars == <<pc, i, stat, count, overall_time, cycles, picked_up, lastPlacedTime,
          pickups, counted>>

TypeOK ==
    /\ pc \in {"loop", "done", "failed"}
    /\ i \in 0..MaxActions
    /\ stat \in StatFields
    /\ count \in [ScoreClasses -> Nat]
    /\ overall_time \in Int
    /\ cycles \in Nat
    /\ picked_up \in BOOLEAN
    /\ lastPlacedTime \in Nat
    /\ pickups \in Nat
    /\ counted \in Seq(Nat)

\* Mutant: -1 as the "no placement yet" value of lastPlacedTime.
InitNegativeSentinel ==
    /\ pc = "loop"
    /\ i = 0
    /\ stat = [StartingQuadrant |-> 0, MobilityAuto |-> FALSE, Penalties |-> 0,
               TrapNote |-> FALSE, Spotlight |-> FALSE, AvgCycle |-> 0,
               Park |-> FALSE, OnStage |-> FALSE, Harmony |-> FALSE,
               RobotDied |-> FALSE, NoShow |-> FALSE]
    /\ count = [c \in ScoreClasses |-> 0]
    /\ overall_time = 0
    /\ cycles = 0
    /\ picked_up = FALSE
    /\ lastPlacedTime = -1
    /\ pickups = 0
    /\ counted = << >>

Init ==
    /\ pc = "loop"
    /\ i = 0
    /\ stat = [StartingQuadrant |-> 0, MobilityAuto |-> FALSE, Penalties |-> 0,
               TrapNote |-> FALSE, Spotlight |-> FALSE, AvgCycle |-> 0,
               Park |-> FALSE, OnStage |-> FALSE, Harmony |-> FALSE,
               RobotDied |-> FALSE, NoShow |-> FALSE]
    /\ count = [c \in ScoreClasses |-> 0]
    /\ overall_time = 0
    /\ cycles = 0
    /\ picked_up = FALSE
    /\ lastPlacedTime = 0
    /\ pickups = 0
    /\ counted = << >>

\* One more iteration of the loop reads one more action.
ReadAction == pc = "loop" /\ i < MaxActions /\ i' = i + 1

Accumulators == <<overall_time, cycles, picked_up, lastPlacedTime, pickups, counted>>

\* ActionsList(&action, i) or action.ActionTaken(actionTable) returned false.
Fail ==
    /\ ReadAction
    /\ pc' = "failed"
    /\ UNCHANGED <<stat, count, Accumulators>>

\* One of the actions that only write a field of stat.
SetStat(f, v) ==
    /\ ReadAction
    /\ stat' = [stat EXCEPT ![f] = v]
    /\ UNCHANGED <<pc, count, Accumulators>>

StartMatchAction(position) == SetStat("StartingQuadrant", position)

MobilityAction(mobility) ==
    SetStat("MobilityAuto", IF mobility THEN TRUE ELSE stat.MobilityAuto)

PenaltyAction(penalties) == SetStat("Penalties", stat.Penalties + penalties)

RobotDeathAction == SetStat("RobotDied", TRUE)

NoShowAction == SetStat("NoShow", TRUE)

\* An action of a type none of the branches tests: the loop moves on.
OtherAction ==
    /\ ReadAction
    /\ UNCHANGED <<pc, stat, count, Accumulators>>

PickupNoteAction ==
    /\ ReadAction
    /\ picked_up' = TRUE
    /\ pickups' = pickups + 1
    /\ UNCHANGED <<pc, stat, count, overall_time, cycles, lastPlacedTime, counted>>

\* Mutant: the "placement without pickup" check is missing.
PlaceNoteActionNoPickupCheck(score_type, auto, timestamp) ==
    LET class == ClassOf(score_type, auto) IN
    /\ ReadAction
    /\ IF class = "none"
         THEN /\ pc' = "failed"
              /\ UNCHANGED <<stat, count, Accumulators>>
         ELSE /\ count' = [count EXCEPT ![class] = @ + 1]
              /\ picked_up' = FALSE
              /\ IF class \notin NotInCycle
                   THEN /\ overall_time' = IF lastPlacedTime # 0
                                             THEN overall_time + timestamp - lastPlacedTime
                                             ELSE overall_time
                        /\ cycles' = cycles + 1
                        /\ lastPlacedTime' = timestamp
                        /\ counted' = Append(counted, timestamp)
                   ELSE UNCHANGED <<overall_time, cycles, lastPlacedTime, counted>>
              /\ UNCHANGED <<pc, stat, pickups>>

PlaceNoteAction(score_type, auto, timestamp) ==
    LET class == ClassOf(score_type, auto) IN
    /\ ReadAction
    /\ IF ~picked_up \/ class = "none"
         THEN /\ pc' = "failed"
              /\ UNCHANGED <<stat, count, Accumulators>>
         ELSE /\ count' = [count EXCEPT ![class] = @ + 1]
              /\ picked_up' = FALSE
              /\ IF class \notin NotInCycle
                   THEN /\ overall_time' = IF lastPlacedTime # 0
                                             THEN overall_time + timestamp - lastPlacedTime
                                             ELSE overall_time
                        /\ cycles' = cycles + 1
                        /\ lastPlacedTime' = timestamp
                        /\ counted' = Append(counted, timestamp)
                   ELSE UNCHANGED <<overall_time, cycles, lastPlacedTime, counted>>
              /\ UNCHANGED <<pc, stat, pickups>>

\* Mutant: the stage flags are assigned rather than set.
EndMatchActionOverwrite(stage_type, trap_note, spotlight) ==
    /\ ReadAction
    /\ stat' = [stat EXCEPT !.OnStage   = stage_type = "ON_STAGE",
                            !.Park      = stage_type = "PARK",
                            !.Harmony   = stage_type = "HARMONY",
                            !.TrapNote  = trap_note,
                            !.Spotlight = spotlight]
    /\ UNCHANGED <<pc, count, Accumulators>>

EndMatchAction(stage_type, trap_note, spotlight) ==
    /\ ReadAction
    /\ stat' = [stat EXCEPT !.OnStage   = @ \/ stage_type = "ON_STAGE",
                            !.Park      = @ \/ stage_type = "PARK",
                            !.Harmony   = @ \/ stage_type = "HARMONY",
                            !.TrapNote  = trap_note,
                            !.Spotlight = spotlight]
    /\ UNCHANGED <<pc, count, Accumulators>>

\* Mutant: the average rounds down (floor) instead of toward zero.
FinishFloorDiv ==
    /\ pc = "loop"
    /\ pc' = "done"
    /\ stat' = [stat EXCEPT !.AvgCycle = IF cycles # 0 THEN overall_time \div cycles ELSE 0]
    /\ UNCHANGED <<i, count, Accumulators>>

\* The loop has read the whole list: compute the average cycle time.
Finish ==
    /\ pc = "loop"
    /\ pc' = "done"
    /\ stat' = [stat EXCEPT !.AvgCycle = IF cycles # 0 THEN GoQuo(overall_time, cycles) ELSE 0]
    /\ UNCHANGED <<i, count, Accumulators>>

Next ==
    \/ Fail
    \/ \E p \in Positions : StartMatchAction(p)
    \/ \E m \in BOOLEAN : MobilityAction(m)
    \/ \E p \in PenaltyValues : PenaltyAction(p)
    \/ RobotDeathAction
    \/ NoShowAction
    \/ OtherAction
    \/ PickupNoteAction
    \/ \E st \in ScoreTypes, a \in BOOLEAN, t \in Timestamps : PlaceNoteAction(st, a, t)
    \/ \E st \in StageTypes, tn, sp \in BOOLEAN : EndMatchAction(st, tn, sp)
    \/ Finish

Spec == Init /\ [][Next]_vars

-----------------------------------------------------------------------------
(***************************************************************************)
(* Properties.                                                             *)
(***************************************************************************)

\* Notes placed, over all nine counters.
PlacedNotes ==
    count["AmpAuto"] + count["Amp"] + count["Speaker"] + count["SpeakerAuto"]
    + count["SpeakerAmplified"] + count["NotesDroppedAuto"] + count["NotesDropped"]
    + count["Shuttled"] + count["OutOfField"]

\* Every placement the loop has counted used up a pickup of its own: the
\* notes placed, plus the one still held, never exceed the pickups read.
\* (The "placement without pickup" check and the reset of picked_up.)
NoUnmatchedPlacement == PlacedNotes + (IF picked_up THEN 1 ELSE 0) <= pickups

\* Reference definition of the total cycle time of a list of counted
\* placement times: the sum of the gaps between consecutive placements,
\* where a placement at time 0 starts no gap (0 is the "none yet" value).
CycleSum(s) ==
    LET f[k \in 0..Len(s)] ==
          IF k <= 1 THEN 0
          ELSE f[k - 1] + (IF s[k - 1] # 0 THEN s[k] - s[k - 1] ELSE 0)
    IN f[Len(s)]

\* The average cycle time returned equals the reference total over the
\* counted placements divided (Go division) by their number: the running
\* overall_time, cycles and lastPlacedTime of the loop never drift from
\* the whole list.
AvgCycleCorrect ==
    pc = "done" =>
        stat.AvgCycle = IF counted = << >> THEN 0
                        ELSE GoQuo(CycleSum(counted), Len(counted))

\* What spec.md (section 8) says of the average: with n >= 2 counting
\* placements, the sum of the n - 1 gaps divided by n - 1.
SpecAvgCycle ==
    (pc = "done" /\ Len(counted) >= 2) =>
        stat.AvgCycle = GoQuo(CycleSum(counted), Len(counted) - 1)

\* A match ends in at most one stage result: park, on stage or harmony
\* (spec.md 4.1, EndMatch sets exactly one of them).
OneStageResult ==
    ~(stat.Park /\ stat.OnStage) /\ ~(stat.Park /\ stat.Harmony) /\ ~(stat.OnStage /\ stat.Harmony)

\* While the loop runs nothing it recorded is taken back: placement
\* counters only grow, and robot death, no-show, mobility and the stage
\* results, once set, stay set (the sticky RobotDied of spec.md 9).
TallyNeverRetracts ==
    [][pc = "loop" =>
        /\ \A c \in ScoreClasses : count'[c] >= count[c]
        /\ \A f \in {"RobotDied", "NoShow", "MobilityAuto", "Park", "OnStage", "Harmony"} :
              stat[f] => stat'[f]]_vars

=============================================================================
