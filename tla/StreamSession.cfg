CONSTANTS
    Sockets = {s1, s2}
    NoSocket = NoSocket
    Retention = 4
    MaxSequence = 3
    MaxSegments = 1
    MaxFinals = 1
    MaxInbox = 1
    Overlapping = TRUE
    HttpFinalizes = TRUE
SYMMETRY Symmetry
SPECIFICATION Spec
INVARIANTS LogContiguous DeliveredOnce
PROPERTY FinalizedIsLast
CHECK_DEADLOCK FALSE
