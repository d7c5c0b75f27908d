CONSTANTS
    MatchNumbers <- MCMatchNumbers
    SetNumbers <- MCSetNumbers
    CompLevels <- MCCompLevelsBad
    TeamNumbers <- MCTeamNumbers
    Alliances <- MCAlliances
    Positions <- MCPositions
    Scouted <- MCScouted
    MaxRows <- MCMaxRows
SPECIFICATION Spec
\* The handler returns: "done" and "failed" end the request.
CHECK_DEADLOCK FALSE
INVARIANT LevelsKnown
