SPECIFICATION ManagerSpec
CONSTANTS
    Windows = {w1, w2}
    NoWindow = nobody
    Generations = 4
    Procs = {1, 2}
    MaxQueued = 1
    MaxEvents = 1
INVARIANTS
    LockIsTrue
PROPERTIES
    ObserverRecovers
CHECK_DEADLOCK FALSE
