CONSTANTS
    w1 = w1
    w2 = w2
    w3 = w3
    Writer = {w1, w2, w3}
    Null = Null
    Stall = Stall
    Dummy = Dummy
    Drain = Drain
    Scenarios <- MCSequentialInsertFails
    MaxStalls = 1
SPECIFICATION Spec
PROPERTY
    ImplementsWriteOrder
CHECK_DEADLOCK FALSE
