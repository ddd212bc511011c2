SPECIFICATION Spec
CONSTANTS
    Session = {s1}
    None = None
    Person = {p1}
    Limit = 1
    Amounts = {1}
    Mocked = {"SMS"}
    MaxRequests = 1
INVARIANT RolloverAllOrNothing
CHECK_DEADLOCK FALSE
