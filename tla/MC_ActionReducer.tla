------------------------- MODULE MC_ActionReducer -------------------------
(* Small instance of ActionReducer for TLC.                                *)
EXTENDS ActionReducer

\* A placement at time 0 (the "no placement yet" value) and two later ones,
\* so that gaps of different lengths and the zero sentinel both occur.
MCTimestamps == {0, 2, 5}
MCPositions == {2}
MCPenaltyValues == {1}
MCMaxActions == 5
=============================================================================
