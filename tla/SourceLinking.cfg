CONSTANTS
    NumSources = 2
    NumSpeakers = 3
    Temporaries = {3}
    Scores <- SomeScores
    NegInf <- MinusInfinity
    Accept = 2
    AmbiguousMargin = 3
    Bonus = 1
    IsCalibrated = TRUE
    ShortSourcePolicy = TRUE
SPECIFICATION LinkSpec
INVARIANTS LinkedOnce OnlyActive BestMatch
