CONSTANTS
    k0 = k0
    k1 = k1
    k2 = k2
    k3 = k3
    M = 3
    Key <- MCKey
    ZeroKey = k0
    ReportSize = {1, 3}
    MaxStream = 6
    MaxReports = 2
SYMMETRY MCSymmetry
SPECIFICATION Spec
INVARIANTS
    TypeOK
    MinIsArgmin
    OneSlotPerKey
    NeverUndercounts
    BoundedOvercount
    FrequentKeysMonitored
    CountsAddUp
PROPERTIES
    ReportIsFresh
    FrequentKeysReported
CHECK_DEADLOCK FALSE
