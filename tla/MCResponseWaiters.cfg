SPECIFICATION Spec
CONSTANTS
    q = q
    m = m
    p = p
    IQs = {q}
    Msgs = {m}
    Pings = {p}
    MaxConns = 2
    MaxFails = 2
    MaxErrors = 1
    MaxCalls = 1
INVARIANTS TypeOK WaiterHasRoom PanicNeedsGivingUp LeakEndsWithConnection NoOrphanConnection
PROPERTIES CallsReturn DeadConnectionIsLeft
CHECK_DEADLOCK FALSE
