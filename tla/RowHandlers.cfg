CONSTANTS
    k1 = k1
    k2 = k2
    p1 = p1
    r1 = r1
    r2 = r2
    Keys <- MCKeys
    Payloads <- MCPayloads
    Requests <- MCRequests
    MaxShifts <- MCMaxShifts
    MaxRequests <- MCMaxRequests
SPECIFICATION Spec
INVARIANT ReadSeesAcknowledged
PROPERTY ImplementsRowTables
CHECK_DEADLOCK FALSE
