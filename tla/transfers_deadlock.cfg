SPECIFICATION MCSpec
CONSTANTS
    NoOne = NoOne
    Nowhere = Nowhere
    NoReference = NoReference
    NoMovement = NoMovement
    Item = item
    a = a
    b = b
    n1 = n1
    n2 = n2
    Location = {a, b}
    Reference = {n1, n2}
    Request <- Round
    Session = {s1, s2}
    MovementId = {1, 2, 3, 4}
    MaxAmount = 2
INVARIANTS NoDeadlock
CHECK_DEADLOCK FALSE
