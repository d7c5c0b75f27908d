CONSTANTS
    k1 = k1
    k2 = k2
    r1 = r1
    r2 = r2
    Keys <- MCKeys
    Requests <- MCRequests
    MaxActions <- MCMaxActions
    MaxRequests <- MCMaxRequests
SPECIFICATION Spec
INVARIANT NoOrphanActions
SYMMETRY MCSymmetry
CHECK_DEADLOCK FALSE
