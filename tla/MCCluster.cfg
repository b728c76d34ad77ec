CONSTANTS
    Num = 3
    Key <- MCKey
    ExceptionLists <- MCLists
    MaxPuts = 4
    MaxRounds = 2
SPECIFICATION Spec
INVARIANTS
    TypeOK
    FreshPutsReachable
    AtMostOneStray
PROPERTY
    CoordinatorExits
CHECK_DEADLOCK FALSE
