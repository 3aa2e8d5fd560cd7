SPECIFICATION Spec
CONSTANTS
    Worker = {w1, w2}
    Student = {s1}
    Week = {week_1, week_2}
    FirstWeek = week_1
    OldFiles = {}
    Fault = {}
    ClassSizes = {}
    MaxStudents = 1
    CountMax = 3
    ReplyMax = 2
    ListMax = 2
    MaxJobs = 2
    MaxSwitches = 2
    MaxEvents = 3
    NoStudent = NoStudent
    NoWeek = NoWeek
    Header = Header
INVARIANTS
    CsvRowsOfOwnWeek
