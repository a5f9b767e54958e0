SPECIFICATION LockSpec
CONSTANTS
    Writers = {w1, w2}
    Repairers = {r1}
    Inodes = {n1, n2}
    MaxMade = 4
    None = None
    Free = Free
    Stale = Stale
PROPERTIES
    ImplementsTaskMutex
