CONSTANTS
    w1 = w1
    w2 = w2
    Jobs = {j1, j2}
    NoJob = NoJob
    Workers <- MCWorkers
    Stages <- MCStages
    MaxAttempts = 2
    MaxDepth = 1
    Deletable = {}
    Faulty <- MCFaulty
    MaxFaults = 1
SYMMETRY Symmetry
SPECIFICATION Spec
INVARIANTS TypeOK SingleDelivery FailureExplained
PROPERTIES  LifecycleSpec
