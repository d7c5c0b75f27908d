------------------------- MODULE MC_MatchAssembler -------------------------
(* Small instance of MatchAssembler for TLC.                              *)
EXTENDS MatchAssembler

\* Two matches and two sets: keys that differ in one, two or all three
\* sort fields.
MCMatchNumbers == {1, 2}
MCSetNumbers == {1, 2}
\* A level outside MATCH_TYPE_ORDERING, for LevelsKnown.
MCCompLevelsBad == {"qm", "quarterfinal"}
\* Two known levels and one unknown: sorts that succeed and sorts that fail.
MCCompLevelsMixed == {"qm", "sf", "quarterfinal"}
MCTeamNumbers == {"971", "254"}
\* One valid alliance and one invalid; two valid positions and one invalid.
MCAlliances == {"R", "G"}
MCPositions == {1, 2, 4}
MCScouted == {<<<<1, 1, "qm">>, "971">>, <<<<2, 2, "qm">>, "254">>}
MCMaxRows == 3
=============================================================================
