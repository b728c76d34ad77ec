SPECIFICATION Spec
CONSTANTS
    r1 = r1
    r2 = r2
    Null = Null
    Reader <- MCReader
    Workloads <- IteratorWorkload
CHECK_DEADLOCK FALSE
INVARIANTS
    IteratorsConsistent
