SPECIFICATION Spec
CHECK_DEADLOCK FALSE
CONSTANTS
    File = {f1}
    NoFile = NoFile
    Absent = Absent
    MaxDistFiles = 2
    Window = 2
    MaxBlocks = 2
    MaxEdits = 1
    MaxPulls = 1
INVARIANTS
    CompleteFiles
