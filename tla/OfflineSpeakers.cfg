CONSTANTS
    Clusters = {c1, c2, c3, c4}
    Registry = {ann}
    MaxSessionSpeakers = 3
    IsCalibrated = TRUE
    SourceCounts = {2}
SYMMETRY Symmetry
SPECIFICATION Spec
INVARIANTS RosterSound SegmentsValid ResolvedAtEnd
PROPERTY LegalTransitions
