------------------------ MODULE ActionReducerProofs ------------------------
(***************************************************************************)
(* Proofs about ActionReducer, for every value of the constants.           *)
(***************************************************************************)
EXTENDS ActionReducer, WellFoundedInduction, TLAPS

\* A placement either picks one of the nine counters or is the unknown
\* combination.
LEMMA ClassOfRange ==
    ASSUME NEW st, NEW a \in BOOLEAN
    PROVE  ClassOf(st, a) \in ScoreClasses \cup {"none"}
BY DEF ClassOf, ScoreClasses

\* Go's truncating division of integers is an integer.
LEMMA GoQuoType ==
    ASSUME NEW a \in Int, NEW b \in Nat \ {0}
    PROVE  GoQuo(a, b) \in Int
BY DEF GoQuo

\* The type of picked_up, the one Boolean accumulator, kept apart: the
\* provers handle it best on its own.
LEMMA PickedUpStep ==
    ASSUME TypeOK, [Next]_vars PROVE picked_up' \in BOOLEAN
<1>1. picked_up' = picked_up \/ picked_up' = TRUE \/ picked_up' = FALSE \/ UNCHANGED Accumulators
    BY DEF Next, vars, Fail, SetStat, StartMatchAction, MobilityAction, PenaltyAction,
           RobotDeathAction, NoShowAction, OtherAction, PickupNoteAction,
           PlaceNoteAction, EndMatchAction, Finish
<1>. QED  BY <1>1, Zenon DEF TypeOK, Accumulators

\* The types of every variable but picked_up.
TypeRest ==
    /\ pc \in {"loop", "done", "failed"}
    /\ i \in 0..MaxActions
    /\ stat \in StatFields
    /\ count \in [ScoreClasses -> Nat]
    /\ overall_time \in Int
    /\ cycles \in Nat
    /\ lastPlacedTime \in Nat
    /\ pickups \in Nat
    /\ counted \in Seq(Nat)

LEMMA TypeOKSplit == TypeOK <=> TypeRest /\ picked_up \in BOOLEAN
BY Zenon DEF TypeOK, TypeRest

\* A step of the loop that leaves the accumulators, count and pc alone
\* keeps their types.
LEMMA StatStep ==
    ASSUME TypeOK, ReadAction, UNCHANGED <<pc, count, Accumulators>>, stat' \in StatFields
    PROVE  TypeRest'
BY MaxActionsAssumption DEF TypeOK, TypeRest, ReadAction, Accumulators

\* Every step of the reducer keeps each variable in its type.
LEMMA TypeStep == TypeOK /\ [Next]_vars => TypeOK'
<1> SUFFICES ASSUME TypeOK, [Next]_vars PROVE TypeRest'
    BY PickedUpStep, Zenon DEF TypeOK, TypeRest
<1> USE TimestampsAssumption, PositionsAssumption, PenaltyValuesAssumption,
        MaxActionsAssumption
<1>1. CASE Fail
    BY <1>1 DEF Fail, ReadAction, Accumulators, TypeOK, TypeRest
<1>2. CASE \E p \in Positions : StartMatchAction(p)
    BY <1>2, StatStep DEF StartMatchAction, SetStat, TypeOK, StatFields
<1>3. CASE \E m \in BOOLEAN : MobilityAction(m)
    BY <1>3, StatStep DEF MobilityAction, SetStat, TypeOK, StatFields
<1>4. CASE \E p \in PenaltyValues : PenaltyAction(p)
    BY <1>4, StatStep DEF PenaltyAction, SetStat, TypeOK, StatFields
<1>5. CASE RobotDeathAction
    BY <1>5, StatStep DEF RobotDeathAction, SetStat, TypeOK, StatFields
<1>6. CASE NoShowAction
    BY <1>6, StatStep DEF NoShowAction, SetStat, TypeOK, StatFields
<1>7. CASE OtherAction
    BY <1>7, StatStep DEF OtherAction, TypeOK
<1>8. CASE \E st \in StageTypes, tn, sp \in BOOLEAN : EndMatchAction(st, tn, sp)
    BY <1>8, StatStep DEF EndMatchAction, TypeOK, StatFields
<1>9. CASE PickupNoteAction
    BY <1>9 DEF PickupNoteAction, ReadAction, TypeOK, TypeRest
<1>10. CASE \E st \in ScoreTypes, a \in BOOLEAN, t \in Timestamps : PlaceNoteAction(st, a, t)
    <2>1. PICK st \in ScoreTypes, a \in BOOLEAN, t \in Timestamps : PlaceNoteAction(st, a, t)
        BY <1>10
    <2>2. ClassOf(st, a) \in ScoreClasses \cup {"none"}
        BY ClassOfRange
    <2> DEFINE c == ClassOf(st, a)
    <2>3. CASE ~picked_up \/ c = "none"
        BY <2>1, <2>3 DEF PlaceNoteAction, ReadAction, Accumulators, TypeOK, TypeRest
    <2>4. CASE picked_up /\ c \in ScoreClasses \ NotInCycle
        <3>1. /\ pc = "loop" /\ i < MaxActions /\ i' = i + 1
              /\ count' = [count EXCEPT ![c] = count[c] + 1]
              /\ overall_time' = IF lastPlacedTime # 0 THEN overall_time + t - lastPlacedTime
                                                      ELSE overall_time
              /\ cycles' = cycles + 1 /\ lastPlacedTime' = t /\ counted' = Append(counted, t)
              /\ UNCHANGED <<pc, stat, pickups>>
            BY <2>1, <2>4, Zenon DEF PlaceNoteAction, ReadAction, ScoreClasses
        <3>. QED  BY <3>1, <2>4 DEF TypeOK, TypeRest
    <2>5. CASE picked_up /\ c \in NotInCycle
        <3>1. /\ pc = "loop" /\ i < MaxActions /\ i' = i + 1
              /\ count' = [count EXCEPT ![c] = count[c] + 1]
              /\ UNCHANGED <<pc, stat, pickups, overall_time, cycles, lastPlacedTime, counted>>
            BY <2>1, <2>5, Zenon DEF PlaceNoteAction, ReadAction, NotInCycle
        <3>. QED  BY <3>1, <2>5 DEF TypeOK, TypeRest, NotInCycle, ScoreClasses
    <2>. QED  BY <2>2, <2>3, <2>4, <2>5 DEF ScoreClasses, NotInCycle
<1>11. CASE Finish
    <2>1. (IF cycles # 0 THEN GoQuo(overall_time, cycles) ELSE 0) \in Int
        BY GoQuoType DEF TypeOK
    <2>. QED  BY <1>11, <2>1 DEF Finish, Accumulators, TypeOK, TypeRest, StatFields
<1>12. CASE UNCHANGED vars
    BY <1>12 DEF vars, TypeOK, TypeRest
<1>. QED  BY <1>1, <1>2, <1>3, <1>4, <1>5, <1>6, <1>7, <1>8, <1>9, <1>10, <1>11, <1>12 DEF Next

\* The initial state is well typed.
LEMMA InitTypeOK == Init => TypeOK
<1>1. Init => TypeRest
    BY MaxActionsAssumption DEF Init, TypeRest, StatFields, ScoreClasses
<1>2. Init => picked_up \in BOOLEAN
    BY Zenon DEF Init
<1>. QED  BY <1>1, <1>2, TypeOKSplit

\* Type correctness of the reducer: every variable keeps its type in
\* every reduction of every action list.
THEOREM TypeCorrect == Spec => []TypeOK
BY InitTypeOK, TypeStep, PTL DEF Spec

-----------------------------------------------------------------------------
(***************************************************************************)
(* NoUnmatchedPlacement.  It is inductive together with TypeOK: a pickup   *)
(* raises both sides by at most one, and a placement that passes the       *)
(* picked_up check moves the held note into the counters.                  *)
(***************************************************************************)

\* Incrementing one counter adds one to the notes placed.
LEMMA PlacedNotesIncrement ==
    ASSUME count \in [ScoreClasses -> Nat], NEW c \in ScoreClasses,
           count' = [count EXCEPT ![c] = count[c] + 1]
    PROVE  PlacedNotes' = PlacedNotes + 1
BY DEF PlacedNotes, ScoreClasses

IInv == TypeOK /\ NoUnmatchedPlacement

\* The held note adds one to the left side exactly when a note is held.
LEMMA HeldBound ==
    ASSUME NEW p \in BOOLEAN, NEW n, NEW k
    PROVE  (n + (IF p THEN 1 ELSE 0) <= k) <=> (p /\ n + 1 <= k) \/ (~p /\ n + 0 <= k)
BY Zenon

LEMMA IInvStep == IInv /\ [Next]_vars => IInv'
<1> SUFFICES ASSUME TypeOK, NoUnmatchedPlacement, [Next]_vars
             PROVE  NoUnmatchedPlacement'
    BY TypeStep DEF IInv
<1>0. /\ PlacedNotes \in Nat /\ pickups \in Nat /\ picked_up \in BOOLEAN
      /\ (picked_up /\ PlacedNotes + 1 <= pickups) \/ (~picked_up /\ PlacedNotes + 0 <= pickups)
    <2>0. count \in [ScoreClasses -> Nat] /\ pickups \in Nat
        BY Zenon DEF TypeOK
    <2>1. PlacedNotes \in Nat /\ pickups \in Nat
        BY <2>0 DEF PlacedNotes, ScoreClasses
    <2>2. picked_up \in BOOLEAN
        BY Zenon DEF TypeOK
    <2>. QED  BY <2>1, <2>2, HeldBound DEF NoUnmatchedPlacement
<1>1. CASE UNCHANGED <<count, picked_up, pickups>>
    <2>1. PlacedNotes' = PlacedNotes
        BY <1>1 DEF PlacedNotes
    <2>. QED  BY <1>0, <1>1, <2>1, HeldBound, Zenon DEF NoUnmatchedPlacement
<1>2. CASE PickupNoteAction
    <2>1. picked_up' = TRUE /\ pickups' = pickups + 1 /\ count' = count
        BY <1>2 DEF PickupNoteAction
    <2>2. PlacedNotes' = PlacedNotes
        BY <2>1 DEF PlacedNotes
    <2>3. PlacedNotes + 1 <= pickups + 1
        BY <1>0
    <2>. QED  BY <2>1, <2>2, <2>3, Zenon DEF NoUnmatchedPlacement
<1>3. ASSUME NEW st \in ScoreTypes, NEW a \in BOOLEAN, NEW t \in Timestamps,
             PlaceNoteAction(st, a, t), picked_up, ClassOf(st, a) # "none"
      PROVE  NoUnmatchedPlacement'
    <2> DEFINE c == ClassOf(st, a)
    <2>1. c \in ScoreClasses
        BY <1>3, ClassOfRange
    <2>2. count' = [count EXCEPT ![c] = count[c] + 1] /\ picked_up' = FALSE /\ pickups' = pickups
        BY <1>3, Zenon DEF PlaceNoteAction
    <2>3. PlacedNotes' = PlacedNotes + 1
        BY <2>1, <2>2, PlacedNotesIncrement DEF TypeOK
    <2>4. PlacedNotes + 1 <= pickups
        BY <1>0, <1>3
    <2>5. PlacedNotes' + 0 <= pickups'
        BY <2>2, <2>3, <2>4, <1>0
    <2>. QED  BY <2>2, <2>5, Zenon DEF NoUnmatchedPlacement
<1>4. CASE \E st \in ScoreTypes, a \in BOOLEAN, t \in Timestamps : PlaceNoteAction(st, a, t)
    <2>1. PICK st \in ScoreTypes, a \in BOOLEAN, t \in Timestamps : PlaceNoteAction(st, a, t)
        BY <1>4
    <2>2. CASE picked_up /\ ClassOf(st, a) # "none"
        BY <2>1, <2>2, <1>3
    <2>3. CASE ~picked_up \/ ClassOf(st, a) = "none"
        <3>1. UNCHANGED <<count, picked_up, pickups>>
            BY <2>1, <2>3, Zenon DEF PlaceNoteAction, Accumulators
        <3>. QED  BY <3>1, <1>1
    <2>. QED  BY <2>2, <2>3
<1>5. CASE ~PickupNoteAction /\ ~\E st \in ScoreTypes, a \in BOOLEAN, t \in Timestamps : PlaceNoteAction(st, a, t)
    <2>1. UNCHANGED <<count, picked_up, pickups>>
        BY <1>5, Zenon DEF Next, vars, Fail, SetStat, StartMatchAction, MobilityAction, PenaltyAction,
                    RobotDeathAction, NoShowAction, OtherAction, EndMatchAction, Finish,
                    Accumulators, ReadAction
    <2>. QED  BY <2>1, <1>1
<1>. QED  BY <1>2, <1>4, <1>5

\* A placement is never counted without a pickup of its own, whatever
\* the list of actions.
THEOREM PlacementsMatchPickups == Spec => []NoUnmatchedPlacement
<1>1. Init => IInv
    <2>1. Init => NoUnmatchedPlacement
        <3> SUFFICES ASSUME Init PROVE NoUnmatchedPlacement
            OBVIOUS
        <3>1. PlacedNotes + 0 <= pickups
            BY DEF Init, PlacedNotes, ScoreClasses
        <3>2. picked_up = FALSE
            BY Zenon DEF Init
        <3>. QED  BY <3>1, <3>2, HeldBound, Zenon DEF NoUnmatchedPlacement
    <2>. QED  BY <2>1, InitTypeOK DEF IInv
<1>2. IInv => NoUnmatchedPlacement
    BY DEF IInv
<1>. QED  BY <1>1, <1>2, IInvStep, PTL DEF Spec


-----------------------------------------------------------------------------
(***************************************************************************)
(* TallyNeverRetracts.  An action property: it follows from TypeOK, with   *)
(* the counters (arithmetic) and the flags (Booleans) in lemmas of their   *)
(* own.                                                                    *)
(***************************************************************************)

\* The stat fields that no later action of the loop clears.
StickyFlags == {"RobotDied", "NoShow", "MobilityAuto", "Park", "OnStage", "Harmony"}

CountsGrow == \A c \in ScoreClasses : count'[c] >= count[c]

FlagsKept == \A f \in StickyFlags : stat[f] => stat'[f]

\* A step increments at most one counter by one and decrements none.
LEMMA CountsGrowStep == TypeOK /\ [Next]_vars => CountsGrow
<1> SUFFICES ASSUME TypeOK, [Next]_vars PROVE CountsGrow
    OBVIOUS
<1>0. count \in [ScoreClasses -> Nat]
    BY DEF TypeOK
<1>1. CASE UNCHANGED count
    BY <1>0, <1>1 DEF CountsGrow
<1>2. ASSUME NEW st \in ScoreTypes, NEW a \in BOOLEAN, NEW t \in Timestamps,
             PlaceNoteAction(st, a, t), picked_up, ClassOf(st, a) # "none"
      PROVE  CountsGrow
    <2>1. ClassOf(st, a) \in ScoreClasses
        BY <1>2, ClassOfRange
    <2>2. count' = [count EXCEPT ![ClassOf(st, a)] = count[ClassOf(st, a)] + 1]
        BY <1>2, Zenon DEF PlaceNoteAction
    <2>. QED  BY <1>0, <2>1, <2>2 DEF CountsGrow
<1>3. CASE \E st \in ScoreTypes, a \in BOOLEAN, t \in Timestamps : PlaceNoteAction(st, a, t)
    <2>1. PICK st \in ScoreTypes, a \in BOOLEAN, t \in Timestamps : PlaceNoteAction(st, a, t)
        BY <1>3
    <2>2. CASE picked_up /\ ClassOf(st, a) # "none"
        BY <2>1, <2>2, <1>2
    <2>3. CASE ~picked_up \/ ClassOf(st, a) = "none"
        <3>1. UNCHANGED count
            BY <2>1, <2>3, Zenon DEF PlaceNoteAction
        <3>. QED  BY <3>1, <1>1
    <2>. QED  BY <2>2, <2>3
<1>4. CASE ~\E st \in ScoreTypes, a \in BOOLEAN, t \in Timestamps : PlaceNoteAction(st, a, t)
    <2>1. UNCHANGED count
        BY <1>4, Zenon DEF Next, vars, Fail, SetStat, StartMatchAction, MobilityAction, PenaltyAction,
                    RobotDeathAction, NoShowAction, OtherAction, PickupNoteAction, EndMatchAction,
                    Finish
    <2>. QED  BY <2>1, <1>1
<1>. QED  BY <1>3, <1>4

\* Overwriting a field outside StickyFlags leaves every sticky flag as it was.
LEMMA OtherFieldKept ==
    ASSUME stat \in StatFields, NEW g, g \notin StickyFlags, NEW v,
           stat' = [stat EXCEPT ![g] = v]
    PROVE  FlagsKept
BY DEF FlagsKept, StickyFlags, StatFields

\* A step sets sticky flags or leaves them alone, never clears one.
LEMMA FlagsKeptStep == TypeOK /\ [Next]_vars => FlagsKept
<1> SUFFICES ASSUME TypeOK, [Next]_vars PROVE FlagsKept
    OBVIOUS
<1>0. stat \in StatFields
    BY DEF TypeOK
<1>1. CASE UNCHANGED stat
    BY <1>1 DEF FlagsKept
<1>2. CASE \E p \in Positions : StartMatchAction(p)
    BY <1>0, <1>2, OtherFieldKept DEF StartMatchAction, SetStat, StickyFlags
<1>3. CASE \E p \in PenaltyValues : PenaltyAction(p)
    BY <1>0, <1>3, OtherFieldKept DEF PenaltyAction, SetStat, StickyFlags
<1>4. CASE \E m \in BOOLEAN : MobilityAction(m)
    BY <1>0, <1>4 DEF MobilityAction, SetStat, FlagsKept, StickyFlags, StatFields
<1>5. CASE RobotDeathAction \/ NoShowAction
    BY <1>0, <1>5 DEF RobotDeathAction, NoShowAction, SetStat, FlagsKept, StickyFlags, StatFields
<1>6. CASE \E st \in StageTypes, tn, sp \in BOOLEAN : EndMatchAction(st, tn, sp)
    <2>1. PICK st \in StageTypes, tn, sp \in BOOLEAN : EndMatchAction(st, tn, sp)
        BY <1>6
    <2>2. /\ stat'.RobotDied = stat.RobotDied /\ stat'.NoShow = stat.NoShow
          /\ stat'.MobilityAuto = stat.MobilityAuto
          /\ stat'.Park = (stat.Park \/ st = "PARK")
          /\ stat'.OnStage = (stat.OnStage \/ st = "ON_STAGE")
          /\ stat'.Harmony = (stat.Harmony \/ st = "HARMONY")
        BY <1>0, <2>1 DEF EndMatchAction, StatFields
    <2>. QED  BY <2>2, Zenon DEF FlagsKept, StickyFlags
<1>7. CASE Finish
    BY <1>0, <1>7, OtherFieldKept DEF Finish, StickyFlags
<1>8. CASE \/ Fail \/ OtherAction \/ PickupNoteAction
           \/ \E st \in ScoreTypes, a \in BOOLEAN, t \in Timestamps : PlaceNoteAction(st, a, t)
    <2>1. UNCHANGED stat
        BY <1>8, Zenon DEF Fail, OtherAction, PickupNoteAction, PlaceNoteAction
    <2>. QED  BY <2>1, <1>1
<1>. QED  BY <1>1, <1>2, <1>3, <1>4, <1>5, <1>6, <1>7, <1>8 DEF Next, vars

\* While ConvertActionsToStat2024's loop runs, no action takes back what an
\* earlier one recorded: no placement counter decreases and no robot death,
\* no-show, mobility or stage result, once set, is cleared.
THEOREM TallyKept == Spec => TallyNeverRetracts
<1>1. TypeOK /\ [Next]_vars => [pc = "loop" => CountsGrow /\ FlagsKept]_vars
    BY CountsGrowStep, FlagsKeptStep
<1>. QED  BY <1>1, TypeCorrect, PTL DEF Spec, TallyNeverRetracts, CountsGrow, FlagsKept, StickyFlags


-----------------------------------------------------------------------------
(***************************************************************************)
(* AvgCycleCorrect.  CycleSum is a recursive function; its defining       *)
(* equation holds only once a function satisfying it is shown to exist,   *)
(* and what it computes is reached by induction.  Both inductions are     *)
(* done by taking a least counterexample: < is well founded on Nat.       *)
(***************************************************************************)

\* Every non-empty set of naturals has a least element.
LEMMA LeastNatural ==
    \A T \in SUBSET Nat : T # {} => \E m \in T : \A y \in T : ~(y < m)
<1> SUFFICES ASSUME NEW T \in SUBSET Nat, T # {}
             PROVE  \E m \in T : \A y \in T : ~(y < m)
    OBVIOUS
<1>1. {ss \in Nat \X Nat : ss[1] < ss[2]} = OpToRel(<, Nat)
    BY DEF OpToRel
<1>2. IsWellFoundedOn({ss \in Nat \X Nat : ss[1] < ss[2]}, Nat)
    BY <1>1, NatLessThanWellFounded, Zenon
<1>3. \E m \in T : \A y \in T : ~(<<y, m>> \in {ss \in Nat \X Nat : ss[1] < ss[2]})
    BY <1>2, WFMin, Zenon
<1>. QED  BY <1>3

\* The body of CycleSum's function f, at k.
CycleBody(s, g, k) == IF k <= 1 THEN 0 ELSE g[k - 1] + (IF s[k - 1] # 0 THEN s[k] - s[k - 1] ELSE 0)

\* g satisfies CycleSum's defining equation for s on 0..m.
IsCycleFcn(s, m, g) == g = [k \in 0..m |-> CycleBody(s, g, k)]

\* The function CycleSum(s) applies.
CycleFcn(s) == CHOOSE g : IsCycleFcn(s, Len(s), g)

LEMMA CycleSumIsChoice == \A s : CycleSum(s) = CycleFcn(s)[Len(s)]
BY DEF CycleSum, CycleFcn, IsCycleFcn, CycleBody

\* The defining equation has a solution on every prefix: extend the
\* solution for m - 1 by its value at m.
LEMMA CycleFcnExists ==
    ASSUME NEW s \in Seq(Int)
    PROVE  \A m \in 0..Len(s) : \E g : IsCycleFcn(s, m, g)
<1> DEFINE Bad == {m \in 0..Len(s) : ~\E g : IsCycleFcn(s, m, g)}
<1> SUFFICES ASSUME Bad # {} PROVE FALSE
    BY DEF Bad
<1>0. Bad \in SUBSET Nat
    BY DEF Bad
<1>1. PICK m \in Bad : \A y \in Bad : ~(y < m)
    BY <1>0, LeastNatural
<1>2. IsCycleFcn(s, 0, [k \in 0..0 |-> 0])
    BY DEF IsCycleFcn, CycleBody
<1>3. m # 0
    BY <1>1, <1>2 DEF Bad
<1>4. m - 1 \in 0..Len(s) /\ m - 1 \notin Bad
    BY <1>1, <1>3 DEF Bad
<1>5. PICK g : IsCycleFcn(s, m - 1, g)
    BY <1>4 DEF Bad
<1> DEFINE h == [k \in 0..m |-> IF k <= m - 1 THEN g[k] ELSE CycleBody(s, g, m)]
<1>6. \A k \in 0..m - 1 : g[k] = CycleBody(s, g, k)
    BY <1>5 DEF IsCycleFcn
<1>7. \A k \in 0..m : CycleBody(s, h, k) = CycleBody(s, g, k)
    BY <1>1, <1>3 DEF CycleBody, Bad
<1>8. IsCycleFcn(s, m, h)
    BY <1>6, <1>7, <1>1 DEF IsCycleFcn, Bad
<1>. QED  BY <1>8, <1>1 DEF Bad

\* Two solutions, for sequences that agree on 1..m, agree on 0..m: at a
\* least point of disagreement the bodies read equal values.
LEMMA CycleFcnAgree ==
    \A s, t, g, h : \A m, n \in Nat :
       (m <= n /\ IsCycleFcn(s, m, g) /\ IsCycleFcn(t, n, h) /\ \A k \in 1..m : s[k] = t[k])
          => \A k \in 0..m : g[k] = h[k]
<1> SUFFICES ASSUME NEW s, NEW t, NEW g, NEW h, NEW m \in Nat, NEW n \in Nat, m <= n,
                    IsCycleFcn(s, m, g), IsCycleFcn(t, n, h), \A k \in 1..m : s[k] = t[k]
             PROVE  \A k \in 0..m : g[k] = h[k]
    OBVIOUS
<1> DEFINE Bad == {k \in 0..m : g[k] # h[k]}
<1> SUFFICES ASSUME Bad # {} PROVE FALSE
    BY DEF Bad
<1>1. Bad \in SUBSET Nat
    BY DEF Bad
<1>2. PICK k \in Bad : \A y \in Bad : ~(y < k)
    BY <1>1, LeastNatural
<1>3. k \in 0..m /\ k \in 0..n
    BY <1>2 DEF Bad
<1>4. g[k] = CycleBody(s, g, k)
    <2>1. g = [x \in 0..m |-> CycleBody(s, g, x)]
        BY DEF IsCycleFcn
    <2>. QED  BY <2>1, <1>3
<1>5. h[k] = CycleBody(t, h, k)
    <2>1. h = [x \in 0..n |-> CycleBody(t, h, x)]
        BY DEF IsCycleFcn
    <2>. QED  BY <2>1, <1>3
<1>6. CASE k <= 1
    BY <1>2, <1>4, <1>5, <1>6 DEF CycleBody, Bad
<1>7. CASE k > 1
    <2>1. g[k - 1] = h[k - 1]
        BY <1>2, <1>7 DEF Bad
    <2>2. s[k - 1] = t[k - 1] /\ s[k] = t[k]
        BY <1>2, <1>7 DEF Bad
    <2>. QED  BY <2>1, <2>2, <1>4, <1>5, <1>2, <1>7 DEF CycleBody, Bad
<1>. QED  BY <1>6, <1>7, <1>2 DEF Bad

\* CycleSum(s) is the last value of a solution of its equation.
LEMMA CycleSumFacts ==
    ASSUME NEW s \in Seq(Int)
    PROVE  IsCycleFcn(s, Len(s), CycleFcn(s)) /\ CycleSum(s) = CycleFcn(s)[Len(s)]
<1>1. \E g : IsCycleFcn(s, Len(s), g)
    BY CycleFcnExists
<1>2. IsCycleFcn(s, Len(s), CycleFcn(s))
    BY <1>1 DEF CycleFcn
<1>. QED  BY <1>2, CycleSumIsChoice

\* Appending a placement time adds the gap from the last one, unless the
\* list was empty or the last time is the "none yet" value 0.
LEMMA CycleSumAppend ==
    ASSUME NEW s \in Seq(Int), NEW x \in Int
    PROVE  CycleSum(Append(s, x)) =
             IF s = << >> THEN 0
             ELSE CycleSum(s) + (IF s[Len(s)] # 0 THEN x - s[Len(s)] ELSE 0)
<1> DEFINE t == Append(s, x)
           L == Len(s)
<1>1. /\ t \in Seq(Int) /\ L \in Nat /\ Len(t) = L + 1 /\ t[L + 1] = x
      /\ \A k \in 1..L : t[k] = s[k]
    OBVIOUS
<1>2. IsCycleFcn(s, L, CycleFcn(s)) /\ CycleSum(s) = CycleFcn(s)[L]
    BY CycleSumFacts
<1>3. IsCycleFcn(t, L + 1, CycleFcn(t)) /\ CycleSum(t) = CycleFcn(t)[L + 1]
    BY <1>1, CycleSumFacts
<1>4. CycleFcn(t)[L] = CycleFcn(s)[L]
    <2>1. \A k \in 0..L : CycleFcn(s)[k] = CycleFcn(t)[k]
        <3>1. L <= L + 1 /\ L + 1 \in Nat
            BY <1>1
        <3> HIDE DEF t, L
        <3>. QED  BY <1>1, <1>2, <1>3, <3>1, CycleFcnAgree
    <2>. QED  BY <2>1, <1>1
<1>5. CycleFcn(t)[L + 1] = CycleBody(t, CycleFcn(t), L + 1)
    BY <1>1, <1>3 DEF IsCycleFcn
<1>6. CASE s = << >>
    BY <1>1, <1>3, <1>5, <1>6 DEF CycleBody
<1>7. CASE s # << >>
    <2>1. L >= 1 /\ t[L] = s[L]
        BY <1>1, <1>7
    <2>. QED  BY <1>1, <1>2, <1>3, <1>4, <1>5, <1>7, <2>1 DEF CycleBody
<1>. QED  BY <1>6, <1>7

\* The empty list has no gap.
LEMMA CycleSumEmpty == CycleSum(<< >>) = 0
<1>1. << >> \in Seq(Int) /\ Len(<< >>) = 0
    OBVIOUS
<1>2. IsCycleFcn(<< >>, 0, CycleFcn(<< >>)) /\ CycleSum(<< >>) = CycleFcn(<< >>)[0]
    BY <1>1, CycleSumFacts
<1>. QED  BY <1>2 DEF IsCycleFcn, CycleBody

\* The loop's running totals describe the counted placements: cycles is
\* their number, lastPlacedTime the last of them (0 before the first),
\* overall_time the reference total CycleSum of them.
CycleInv ==
    /\ cycles = Len(counted)
    /\ lastPlacedTime = IF counted = << >> THEN 0 ELSE counted[Len(counted)]
    /\ overall_time = CycleSum(counted)
    /\ AvgCycleCorrect

\* A placement that counts in cycle time, at time t.
PlacedInCycle(t) ==
    /\ counted' = Append(counted, t)
    /\ cycles' = cycles + 1
    /\ lastPlacedTime' = t
    /\ overall_time' = IF lastPlacedTime # 0 THEN overall_time + t - lastPlacedTime ELSE overall_time

\* A step leaves the cycle totals alone or counts one placement.
LEMMA CycleTotalsStep ==
    ASSUME TypeOK, [Next]_vars
    PROVE  \/ UNCHANGED <<overall_time, cycles, lastPlacedTime, counted>>
           \/ \E t \in Timestamps : PlacedInCycle(t)
<1>1. CASE \E st \in ScoreTypes, a \in BOOLEAN, t \in Timestamps : PlaceNoteAction(st, a, t)
    <2>1. PICK st \in ScoreTypes, a \in BOOLEAN, t \in Timestamps : PlaceNoteAction(st, a, t)
        BY <1>1
    <2>2. ClassOf(st, a) \in ScoreClasses \cup {"none"}
        BY ClassOfRange
    <2>3. CASE picked_up /\ ClassOf(st, a) \in ScoreClasses \ NotInCycle
        <3>1. PlacedInCycle(t)
            BY <2>1, <2>3, Zenon DEF PlaceNoteAction, PlacedInCycle, ScoreClasses
        <3>. QED  BY <3>1
    <2>4. CASE ~(picked_up /\ ClassOf(st, a) \in ScoreClasses \ NotInCycle)
        BY <2>1, <2>2, <2>4, Zenon DEF PlaceNoteAction, Accumulators, ScoreClasses, NotInCycle
    <2>. QED  BY <2>3, <2>4
<1>2. CASE ~\E st \in ScoreTypes, a \in BOOLEAN, t \in Timestamps : PlaceNoteAction(st, a, t)
    BY <1>2, Zenon DEF Next, vars, Fail, SetStat, StartMatchAction, MobilityAction, PenaltyAction,
                       RobotDeathAction, NoShowAction, OtherAction, PickupNoteAction, EndMatchAction,
                       Finish, Accumulators
<1>. QED  BY <1>1, <1>2

\* Only Finish, or a stutter, ends in "done".
LEMMA DoneStep ==
    ASSUME [Next]_vars, pc' = "done"
    PROVE  Finish \/ UNCHANGED vars
<1>1. ~(pc' = "done" /\ ReadAction /\ (pc' = "failed" \/ pc' = pc))
    BY DEF ReadAction
<1>. QED  BY <1>1, Zenon DEF Next, Fail, SetStat, StartMatchAction, MobilityAction, PenaltyAction,
                              RobotDeathAction, NoShowAction, OtherAction, PickupNoteAction,
                              PlaceNoteAction, EndMatchAction

LEMMA CycleStep == TypeOK /\ CycleInv /\ [Next]_vars => CycleInv'
<1> SUFFICES ASSUME TypeOK, CycleInv, [Next]_vars PROVE CycleInv'
    OBVIOUS
<1>0. counted \in Seq(Int) /\ cycles \in Nat /\ lastPlacedTime \in Nat /\ overall_time \in Int
    BY DEF TypeOK
<1>1. /\ cycles' = Len(counted')
      /\ lastPlacedTime' = IF counted' = << >> THEN 0 ELSE counted'[Len(counted')]
      /\ overall_time' = CycleSum(counted')
    <2>1. CASE UNCHANGED <<overall_time, cycles, lastPlacedTime, counted>>
        BY <2>1 DEF CycleInv
    <2>2. CASE \E t \in Timestamps : PlacedInCycle(t)
        <3>1. PICK t \in Timestamps : PlacedInCycle(t)
            BY <2>2
        <3>2. t \in Int
            BY TimestampsAssumption
        <3>3. CycleSum(counted') =
                IF counted = << >> THEN 0
                ELSE CycleSum(counted) + (IF counted[Len(counted)] # 0
                                            THEN t - counted[Len(counted)] ELSE 0)
            BY <1>0, <3>1, <3>2, CycleSumAppend DEF PlacedInCycle
        <3>4. CASE counted = << >>
            BY <1>0, <3>1, <3>3, <3>4, CycleSumEmpty DEF CycleInv, PlacedInCycle
        <3>5. CASE counted # << >>
            BY <1>0, <3>1, <3>3, <3>5 DEF CycleInv, PlacedInCycle
        <3>. QED  BY <3>4, <3>5
    <2>. QED  BY <2>1, <2>2, CycleTotalsStep
<1>2. AvgCycleCorrect'
    <2>1. CASE pc' # "done"
        BY <2>1 DEF AvgCycleCorrect
    <2>2. CASE pc' = "done" /\ Finish
        <3>1. /\ stat'.AvgCycle = IF cycles # 0 THEN GoQuo(overall_time, cycles) ELSE 0
              /\ UNCHANGED counted
            BY <2>2 DEF Finish, TypeOK, StatFields, Accumulators
        <3>2. (counted = << >>) <=> (cycles = 0)
            BY <1>0 DEF CycleInv
        <3>. QED  BY <2>2, <3>1, <3>2 DEF CycleInv, AvgCycleCorrect
    <2>3. CASE pc' = "done" /\ UNCHANGED vars
        BY <2>3 DEF vars, CycleInv, AvgCycleCorrect
    <2>. QED  BY <2>1, <2>2, <2>3, DoneStep
<1>. QED  BY <1>1, <1>2 DEF CycleInv

\* ConvertActionsToStat2024 returns as AvgCycle the total of the gaps
\* between consecutive counted placements (none after a placement at
\* time 0) divided, truncating toward zero, by the number of counted
\* placements: the running overall_time, cycles and lastPlacedTime never
\* drift from the list, for every list of actions.
THEOREM AvgCycleHolds == Spec => []AvgCycleCorrect
<1>1. Init => TypeOK /\ CycleInv
    <2> SUFFICES ASSUME Init PROVE CycleInv
        BY InitTypeOK
    <2>. QED  BY CycleSumEmpty DEF Init, CycleInv, AvgCycleCorrect
<1>2. TypeOK /\ CycleInv /\ [Next]_vars => (TypeOK /\ CycleInv)'
    BY TypeStep, CycleStep
<1>3. CycleInv => AvgCycleCorrect
    BY DEF CycleInv
<1>. QED  BY <1>1, <1>2, <1>3, PTL DEF Spec

=============================================================================
