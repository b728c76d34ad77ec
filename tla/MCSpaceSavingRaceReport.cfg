CONSTANTS
    k0 = k0
    k1 = k1
    k2 = k2
    f1 = f1
    f2 = f2
    r1 = r1
    M = 2
    Key <- MCKey
    ZeroKey = k0
    ReportSize = {2}
    MaxStream = 4
    MaxReports = 2
    Flusher = {f1}
    Reporter = {r1}
    NoThread = NoThread
SPECIFICATION RaceSpec
INVARIANTS
    SummaryAtRest
CHECK_DEADLOCK FALSE
