CONSTANTS
    w1 = w1
    w2 = w2
    Jobs = {j1, j2}
    NoJob = NoJob
    Workers <- MCWorkers
    Stages <- MCStages
    MaxAttempts = 2
    MaxDepth = 1
    Deletable = {j1}
    Faulty = {}
    MaxFaults = 0
SPECIFICATION FairSpec
INVARIANTS SuccessHasResult CancelledHasNoAudio NoJobStranded
PROPERTY JobsFinish
