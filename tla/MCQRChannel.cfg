SPECIFICATION Spec
CONSTANTS
    Codes = 3
    Capacity = 2
INVARIANTS TypeOK OneFinalItem LateItems
PROPERTIES ListenerEnds PairingRecorded StatusSettles
CHECK_DEADLOCK FALSE
