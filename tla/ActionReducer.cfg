CONSTANTS
    Timestamps <- MCTimestamps
    Positions <- MCPositions
    PenaltyValues <- MCPenaltyValues
    MaxActions <- MCMaxActions
SPECIFICATION Spec
INVARIANT TypeOK
INVARIANT NoUnmatchedPlacement
INVARIANT AvgCycleCorrect
PROPERTY TallyNeverRetracts
\* The reducer returns: a "done" or "failed" state is the end of the call.
CHECK_DEADLOCK FALSE
