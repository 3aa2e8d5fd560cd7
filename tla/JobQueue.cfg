SPECIFICATION Spec
CONSTANTS
    Worker = {w1, w2, w3}
    Fd = {f1, f2, f3}
    MaxQueue = 3
    MaxClients = 3
    MaxConns = 6
    NoFd = NoFd
INVARIANTS
    TypeOK
    EachConnectionOnce
    WakeupsCoverJobs
PROPERTIES
    ConnQueueSpec
    QueuedIsTaken
