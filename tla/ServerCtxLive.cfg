SPECIFICATION Spec
CONSTANTS
    Worker = {w1, w2}
    Student = {s1}
    Week = {week_1, week_2}
    FirstWeek = week_1
    OldFiles = {week_1, week_2}
    Fault = {"RE"}
    ClassSizes = {}
    MaxStudents = 1
    CountMax = 1
    ReplyMax = 1
    ListMax = 1
    MaxJobs = 2
    MaxSwitches = 1
    MaxEvents = 3
    NoStudent = NoStudent
    NoWeek = NoWeek
    Header = Header
PROPERTIES
    ResultIsSent
    SwitchCompletes
