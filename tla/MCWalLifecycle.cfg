CONSTANTS
    a = a  b = b  j1 = j1  j2 = j2
    CF = {a, b}
    Job = {j1, j2}
    Paranoid = TRUE
    FailureAllowed = TRUE
    RecycleNum = 1
    MaxWrites = 2
    MaxSwitches = 3
    MaxPurges = 1
SPECIFICATION Spec
SYMMETRY MCSymmetry
INVARIANTS TypeOK CommittedInOrder Durable BatchesAtomic CurrentLogAlive 
PROPERTY LogNumbersGrow
CHECK_DEADLOCK FALSE
