SPECIFICATION FairSpec
CONSTANTS
    n1 = n1
    c1 = c1
    c2 = c2
    w1 = w1
    w2 = w2
    Notes = {n1}
    Callers = {c1, c2}
    Workers = {w1, w2}
    Attempts = 3
    Faults <- OneOfEach
INVARIANTS
    TypeOK
    ClaimIsExclusive
    AtMostOneEmailPerFault
PROPERTIES
    
    SettlesUnlessOrphaned
CHECK_DEADLOCK FALSE
