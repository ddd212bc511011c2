SPECIFICATION Spec
CONSTANTS
    Session = {s1, s2}
    None = None
    Person = {p1}
    Limit = 1
    Amounts = {1, 2, 3}
    Mocked = {"SMS"}
    MaxRequests = 4
SYMMETRY Symmetry
INVARIANTS
    HostelFeesShown
    AdmissionsOnRecord
    ShownIsDone
PROPERTIES
    LoansEndOnce
    TokensSpentOnce
    MovedIsRecorded
CHECK_DEADLOCK FALSE
