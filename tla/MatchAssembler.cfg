CONSTANTS
    MatchNumbers <- MCMatchNumbers
    SetNumbers <- MCSetNumbers
    CompLevels <- MCCompLevelsMixed
    TeamNumbers <- MCTeamNumbers
    Alliances <- MCAlliances
    Positions <- MCPositions
    Scouted <- MCScouted
    MaxRows <- MCMaxRows
SPECIFICATION Spec
INVARIANT TypeOK
INVARIANT SortedResponse
INVARIANT ScoutedFlagsAgree
PROPERTY ImplementsMatchResponse
\* The handler returns: "done" and "failed" end the request.
CHECK_DEADLOCK FALSE
