CONSTANTS
    Sockets = {s1, s2}
    NoSocket = NoSocket
    Retention = 4
    MaxSequence = 3
    MaxSegments = 1
    MaxFinals = 2
    MaxInbox = 2
    Overlapping = FALSE
    HttpFinalizes = FALSE
SPECIFICATION FairSpec
INVARIANTS NoEventLost SupersededOnce
 
CHECK_DEADLOCK FALSE
