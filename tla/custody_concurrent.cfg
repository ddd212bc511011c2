SPECIFICATION FreshSpec
CONSTANTS
    NoOne = NoOne
    NoAssignment = NoAssignment
    Session = {s1, s2, s3}
    Assignment = {a1, a2, a3}
INVARIANTS CustodyTypeOK
PROPERTIES ImplementsCustody FreshCustodyKept
SYMMETRY Symmetric
CHECK_DEADLOCK FALSE
