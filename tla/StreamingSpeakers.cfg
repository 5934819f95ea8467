CONSTANTS
    Clusters = {c1, c2}
    Registry = {ann}
    MaxSessionSpeakers = 3
    IsCalibrated = TRUE
    SourceCounts = {2}
SYMMETRY Symmetry
SPECIFICATION Spec
INVARIANTS KeysResolve ClusterStable LabelsPublished
