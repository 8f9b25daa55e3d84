SPECIFICATION FairSpec
CONSTANTS
    Threshold = 2
    WriteAttempts = 2
    Word = 8
    Durations = {0, 7}
    ForeignValues = {0, 24}
INVARIANTS
    TypeOK
    EachReadCountsOnce
    SeenIsCurrent
PROPERTIES
    ConfirmedIsShown
    DisplayCatchesUp
