CONSTANTS
    Timestamps <- MCTimestamps
    Positions <- MCPositions
    PenaltyValues <- MCPenaltyValues
    MaxActions <- MCMaxActions
SPECIFICATION Spec
INVARIANT OneStageResult
CHECK_DEADLOCK FALSE
