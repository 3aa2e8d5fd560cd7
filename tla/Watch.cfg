SPECIFICATION Spec
CHECK_DEADLOCK FALSE
CONSTANTS
    NumFiles = 2
    MaxClientFiles = 2
    Grade = {"AC", "WA"}
    MaxVersion = 3
    MaxWatchFiles = 2
INVARIANTS
    TypeOK
    RestMeansSubmitted
    RestMeansCurrent
    NoRunWithoutEvent
    ScreenIsExplained
PROPERTIES
    EventIsSubmitted
