SPECIFICATION Spec
CONSTANTS
    r1 = r1
    r2 = r2
    shirt = shirt
    c1 = c1
    c2 = c2
    s1 = s1
    s2 = s2
    Returns = {r1, r2}
    Items = {shirt}
    Ordered <- MCOrdered
    Customers = {c1}
    Staff = {s1, s2}
    Requests <- MCRequests
    MaxCrashes = 0
SYMMETRY ReturnsSymmetry
INVARIANTS
    TypeOK
    ClaimsWithinOrdered
    RefundedAtMostOnce
    MailTellsTheTruth
PROPERTIES
    ReturnsMoveAlongLifecycle
CHECK_DEADLOCK FALSE
