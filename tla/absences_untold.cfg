SPECIFICATION Spec
CONSTANTS
    Session = {s1}
    None = None
    Person = {p1}
    Limit = 1
    Amounts = {1}
    Mocked = {"SMS"}
    MaxRequests = 2
INVARIANT AbsencesTold
CHECK_DEADLOCK FALSE
