SPECIFICATION ScopedSpec
CONSTANTS
    Grants = {g1}
    Issues = {}
    Subjects = {s1}
    Workspaces = {w1}
    NoGrant = nogrant
    NoSubject = nosubject
    NoWorkspace = noworkspace
    Limits = {2}
    CheckTtls = {0}
    CallerReasons = {"human_takeover"}
    MaxGrants = 1
    MaxIssuePermits = 2
    RedeemTtl = 1
    TokenTtl = 1
    MaxVersion = 4
    MaxTime = 1
    UnlinkFallback = FALSE
    Ops = {o1}
    MaxRecords = 2
    NoPayload = nopayload
    Modes = {m1, m2}
    Calls = {c1}
    NoIssue = noissue
    MaxFaults = 0
PROPERTIES
    ModeIsCurrent
