CONSTANTS
    a = a  b = b  j1 = j1  j2 = j2
    CF = {a}
    Job = {j1, j2}
    Paranoid = FALSE
    FailureAllowed = TRUE
    RecycleNum = 0
    MaxWrites = 3
    MaxSwitches = 3
    MaxPurges = 0
SPECIFICATION Spec
INVARIANT CommittedInOrder
CHECK_DEADLOCK FALSE
