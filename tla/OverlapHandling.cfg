SPECIFICATION FairSpec
CONSTANTS
    MaxCrop = 4
    Stitch = 2
    Context = 1
    Recordings <- SomeRecordings
    MaxCount = 6
INVARIANTS HeardOnce  NeverForced
PROPERTY RegionHandled
CHECK_DEADLOCK FALSE
