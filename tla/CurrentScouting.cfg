CONSTANTS
    t1 = t1
    t2 = t2
    alice = alice
    bob = bob
    r1 = r1
    r2 = r2
    Teams <- MCTeams
    Users <- MCUsers
    Requests <- MCRequests
    TTL <- MCTTL
    MaxTime <- MCMaxTime
    MaxCrashes <- MCMaxCrashes
SPECIFICATION Spec
INVARIANT TypeOK
PROPERTY ResponseSound

SYMMETRY MCSymmetry
