SPECIFICATION FairSpec
CONSTANTS
    Session = {c1, w1}
    Clerk = {}
    Client = {c1}
    Hook = {w1}
    Fallible = {c1}
    NoOne = NoOne
    NoRef = NoRef
    NoEvent = NoEvent
    MaxAmount = 4
    Price = {1, 2}
    i1 = i1
    o1 = o1
    p1 = p1
    p2 = p2
    ItemId = {i1, i2}
    StructureItems <- Charge
    DiscountId = {}
    DiscountType = {}
    Receipt = {r1, r2}
    Ref = {p1, p2}
    Order = {o1}
    OrderOf <- TwoAttempts
    EventKind = {"payment.captured", "payment.failed", "order.paid"}
    Offered = {}
PROPERTIES CapturedIsCredited
CHECK_DEADLOCK FALSE
