SPECIFICATION ScopedSpec
CONSTANTS
    Grants = {g1}
    Issues = {i1}
    Subjects = {s1}
    Workspaces = {w1}
    NoGrant = nogrant
    NoSubject = nosubject
    NoWorkspace = noworkspace
    Limits = {2}
    CheckTtls = {0}
    CallerReasons = {"human_takeover"}
    MaxGrants = 1
    MaxIssuePermits = 2
    RedeemTtl = 1
    TokenTtl = 1
    MaxVersion = 3
    MaxTime = 1
    UnlinkFallback = FALSE
    Ops = {o1, o2}
    MaxRecords = 2
    NoPayload = nopayload
    Modes = {m1}
    Calls = {c1, c2}
    NoIssue = noissue
    MaxFaults = 1
SYMMETRY MCSymmetry
INVARIANTS
    ActsAreCharged
    FailedMeansUntouched
PROPERTIES
    AuthorisedUnderPolicy
    TakeoverIsACut
    UnresolvedBlocksGrant
    NeverTwice
