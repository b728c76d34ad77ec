CONSTANTS
    Num = 3
    K = 2
    Key <- MCKey
    Report <- MCReport
    Cut <- MCCut
SPECIFICATION Spec
INVARIANTS
    TypeOK
    InBounds
    ComparedFirst
    AssignedByFirstPlace
CHECK_DEADLOCK FALSE
