CONSTANTS
    Num = 4
    Key <- MCKey
    ExceptionLists <- MCListsFour
    MaxPuts = 2
    MaxRounds = 1
SPECIFICATION Spec
INVARIANT
    DeletesGoHome
CHECK_DEADLOCK FALSE
