SPECIFICATION Spec
CONSTANTS
    Values = {v1, v2, v3}
    Absent = absent
    Torn = torn
    UnlinkFallback = FALSE
    Ops = {o1, o2, o3}
    Digests = {d1}
    NoDigest = none
    MaxRecords = 2
    Adapters = {a1, a2, a3}
    NoAdapter = noadapter
    MaxAdapters = 2
    Backups = 2
    MaxCommits = 3
    MaxFaults = 1
    MaxThrows = 1
    MaxWaiting = 1
    Tokens = {t1, t2, t3}
    MaxSessions = 2
    MaxAge = 4
    MaxIdle = 3
    PersistInterval = 2
    LastTick = 6
INVARIANTS
    JournalTypeOK
    BegunIsDurable
    WritesKeepTheirPromise
    OneFaultOneChange
    RolledBackStaysOut
    RestartLosesAnInterval
PROPERTIES
    UnresolvedOnlySettles
    ImplementsLedger
CHECK_DEADLOCK FALSE
