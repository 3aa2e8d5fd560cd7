SPECIFICATION Spec
CHECK_DEADLOCK FALSE
CONSTANTS
    File = {f1, f2}
    NoFile = NoFile
    Absent = Absent
    MaxDistFiles = 2
    Window = 2
    MaxBlocks = 2
    MaxEdits = 1
    MaxPulls = 2
INVARIANTS
    SuccessIsComplete
    NothingHalfLeft
PROPERTIES
    PullEnds
