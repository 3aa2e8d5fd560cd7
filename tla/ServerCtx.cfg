SPECIFICATION Spec
SYMMETRY Symmetry
CONSTANTS
    Worker = {w1, w2}
    Student = {s1, s2, s3}
    Week = {week_1, week_2}
    FirstWeek = week_1
    OldFiles = {week_2}
    Fault = {"RE"}
    ClassSizes = {2}
    MaxStudents = 2
    CountMax = 3
    ReplyMax = 2
    ListMax = 2
    MaxJobs = 3
    MaxSwitches = 2
    MaxEvents = 3
    NoStudent = NoStudent
    NoWeek = NoWeek
    Header = Header
INVARIANTS
    TypeOK
    CountIsSolvedStudents
    OneRecordPerStudent
    RecordingWeekIsCurrent
    TrackerHoldsCurrentWeek
    ForeignAnswerNeedsTwoSwitches
    OpenCsvIsCurrentWeeks
    HeaderOnlyFirst
PROPERTIES
    SnapshotNotAhead
    BoardSpec
