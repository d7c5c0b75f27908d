CONSTANTS
    Timestamps <- MCTimestamps
    Positions <- MCPositions
    PenaltyValues <- MCPenaltyValues
    MaxActions <- MCMaxActions
SPECIFICATION Spec
INVARIANT SpecAvgCycle
CHECK_DEADLOCK FALSE
