SPECIFICATION FreshSpec
CONSTANTS
    NoOne = NoOne
    NoRef = NoRef
    MaxAmount = 2
    Price = {1, 2}
    ItemId = {i1, i2}
    FirstItem = i1
    StructureItems <- OneItem
    DiscountId = {d1, d2}
    DiscountType = {SCHOLARSHIP}
    Receipt = {r1, r2}
    Ref = {}
    Offered = {"add_student_fee_item", "add_discount", "remove_discount", "cancel_assignment", "delete_assignment"}
    Session = {s1, s2}
PROPERTIES
    ImplementsLedger
    FreshLedgerKept
CHECK_DEADLOCK FALSE
SYMMETRY Symmetric
