SPECIFICATION Spec
CONSTANTS
    r1 = r1
    r2 = r2
    Null = Null
    Reader <- MCReader
    Workloads <- MCWorkloads
CHECK_DEADLOCK FALSE
INVARIANTS
    TypeOK
    RefsCountHolders
    LocalNeverLast
    NothingFreedInUse
    ReadsCorrect
