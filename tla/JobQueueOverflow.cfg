SPECIFICATION Spec
CONSTANTS
    Worker = {w1, w2}
    Fd = {f1, f2, f3, f4}
    MaxQueue = 2
    MaxClients = 4
    MaxConns = 5
    NoFd = NoFd
INVARIANTS
    EachConnectionOnce
