CONSTANTS
    s1 = s1
    s2 = s2
    d1 = d1
    d2 = d2
    i1 = i1
    i2 = i2
    Instances = {i1, i2}
    Sessions = {s1, s2}
    Dispatchers = {d1, d2}
    Targets <- MCTarget
    EventTypes <- MCTypes
    Cap = 1
    MaxEvents = 2
    MaxTargets = 1
SPECIFICATION LiveSpec
INVARIANTS
    TypeOK
    NoSendOnClosed
    StreamInOrder
    StreamOfOneInstance
PROPERTIES
    DispatchReturns
    LeavingUnsubscribes
    ImplementsDelivery
CHECK_DEADLOCK FALSE
