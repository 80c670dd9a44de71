SPECIFICATION FairPaySpec
CONSTANTS
    o1 = o1
    v1 = v1
    h1 = h1
    h2 = h2
    g1 = g1
    g2 = g2
    Orders = {o1}
    Variants = {v1}
    Handlers = {h1, h2}
    GatewayOrders = {g1, g2}
    Basket <- MCBasket
    Opening <- MCOpening
    Deltas = {1}
    StockCap = 1
    MaxCrashes = 1
INVARIANTS
    PayTypeOK
    ConfirmedOnlineIsPaid
    OnlyRecordedOrderIsShown
    PaymentAgreesWithOrder
    AcknowledgedMeansApplied
    RefundIsTrue
PROPERTIES
    PaymentOnlyAdvances
    CaptureIsApplied
CHECK_DEADLOCK FALSE
