SPECIFICATION Spec
CONSTANTS
    o1 = o1
    o2 = o2
    v1 = v1
    v2 = v2
    h1 = h1
    h2 = h2
    Orders = {o1, o2}
    Variants = {v1, v2}
    Handlers = {h1, h2}
    Basket <- MCBasket
    Opening <- MCOpening
    Deltas <- MCDeltas
    StockCap = 3
SYMMETRY HandlerSymmetry
INVARIANTS
    TypeOK
    ReservedIsWhatUnpaidOrdersHold
    AvailableIsWhatWasNotSold
    NeverOversold
    MailTellsTheTruth
PROPERTIES
    MovesAlongLifecycle
    ImplementsLedger
CHECK_DEADLOCK FALSE
