SPECIFICATION Spec
CHECK_DEADLOCK FALSE
CONSTANTS
    Job = {j1, j2}
    NumThreads = 2
    Output = {"none", "fits", "big"}
    Program = {"ok", "loop", "wait"}
    MaxForkFails = 1
    Monitors = {"none", "loaded"}
INVARIANTS
    RegisteredBeforeStart
    DescriptorsOfJobsInHand
    GradeIsDeserved
    ServerSurvivesPrograms
PROPERTIES
    JobEnds
    GradingSpec
