SPECIFICATION Spec
CONSTANTS
    u1 = u1
    u2 = u2
    g1 = g1
    s = s
    m = m
    h1 = h1
    h2 = h2
    Users = {u1,u2}
    Guests = {g1}
    Variants = {s,m}
    Handlers = {h1, h2}
    Editors = {h1}
    Returning = {u2}
    Scenes <- MCScenes
    Shelf = 2
    MaxRows = 3
    MaxOrders = 2
    MaxLimit = 1
SYMMETRY CheckoutSymmetry
INVARIANTS
    TypeOK
    OneOrderPerSession
PROPERTIES
    OrderComesFromActiveCart
    CouponKeepsItsLimits
CHECK_DEADLOCK FALSE
