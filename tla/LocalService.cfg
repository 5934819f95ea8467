SPECIFICATION Spec
CONSTANTS
    Identities = {i1, i2}
    Names = {n1, n2}
    Consents = {c1, c2}
    None = None
    Clips <- SomeClips
    Probes <- SomeProbes
    Similarity <- Percent
    Model = "m1"
    Calibrated = TRUE
    AcceptThreshold = 70
    AmbiguousMargin = 10
    MinClip = 3
    MaxClip = 15
    MinimumClips = 3
    MinimumTotalSpeech = 15
    MaxPrototypes = 3
    Keys = {k1, k2}
    Inputs <- TheInput
    SpeakersIn <- WhoSpeaks
    MaxRetained = 1
SYMMETRY Symmetry
INVARIANTS  NamesCurrent ConsentKept PolicyNoStricter AudioAccounted
PROPERTIES RunOnce
CHECK_DEADLOCK FALSE
