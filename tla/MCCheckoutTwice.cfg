SPECIFICATION Spec
CONSTANTS
    u1 = u1
    u2 = u2
    g1 = g1
    s = s
    m = m
    h1 = h1
    h2 = h2
    Users = {u1}
    Guests = {}
    Variants = {s}
    Handlers = {h1, h2}
    Editors = {h1}
    Returning = {}
    Scenes = {{u1}}
    Shelf = 2
    MaxRows = 3
    MaxOrders = 2
    MaxLimit = 1
INVARIANTS
    EachLineOrderedOnce
CHECK_DEADLOCK FALSE
