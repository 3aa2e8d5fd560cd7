SPECIFICATION Spec
CHECK_DEADLOCK FALSE
CONSTANTS
    Job = {j1, j2}
    NumThreads = 2
    Output = {"none", "fits"}
    Program = {"ok", "loop"}
    MaxForkFails = 0
    Monitors = {"loaded"}
INVARIANTS
    LoopIsTLE
