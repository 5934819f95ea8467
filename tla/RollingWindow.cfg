SPECIFICATION Spec
CONSTANTS
    Speakers <- TwoSpeakers
    MergeGap = 0
    MinDuration = 2
    Sounds <- SomeSounds
    Silence = Silence
    Hop = 2
    Window = 4
    Ring = 5
    CloseAfter = 1
    Sample = 6
    Languages = {en, vi}
    NoLanguage = NoLanguage
    MaxTime = 6
SYMMETRY Symmetry
INVARIANTS  ClosedSpeechSent  ConfirmedReplaced LanguageCommitted
CHECK_DEADLOCK FALSE
