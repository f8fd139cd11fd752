SPECIFICATION MirrorSpec
CONSTANTS
    Jobs = {j1, j2}
    Other = other
    Callers = {j1, j2, other}
    Threads = {1, 2}
    Elements = {"message", "banner"}
    NoItem = NoItem
    NoSnapshot = NoSnapshot
    MaxQueueSize = 1
    MaxRetries = 1
    MaxThreads = 2
    MaxPosts = 3
    MaxVersion = 2
    MaxMoves = 3
INVARIANT OneCopy
PROPERTY EveryCallIsAnswered LatestSnapshotIsTaken
CHECK_DEADLOCK FALSE
