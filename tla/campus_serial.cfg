SPECIFICATION Spec
CONSTANTS
    Session = {s1}
    None = None
    Person = {p1, p2}
    Limit = 2
    Amounts = {1, 2}
    Mocked = {"SMS"}
    MaxRequests = 4
SYMMETRY Symmetry
INVARIANTS
    CampusTypeOK
    ResetEndsSessions
    AlertsTellTruth
    CalculationFair
    HomeworkKept
    RolesFit
PROPERTIES
    LendingKept
    LimitsKept
    TransportKept
    LeaveKept
    NoTeacherTwice
    RolloverKept
    FinalIsFinal
CHECK_DEADLOCK FALSE
