SPECIFICATION AuditSpec
CONSTANTS
    Grants = {g1}
    Issues = {i1, i2}
    Subjects = {s1, s2}
    Workspaces = {w1}
    NoGrant = nogrant
    NoSubject = nosubject
    NoWorkspace = noworkspace
    Limits = {1}
    CheckTtls = {1}
    CallerReasons = {"human_takeover"}
    MaxGrants = 1
    MaxIssuePermits = 2
    RedeemTtl = 1
    TokenTtl = 2
    MaxVersion = 4
    MaxTime = 2
    UnlinkFallback = FALSE
SYMMETRY MCSymmetry
INVARIANTS
    SupervisionTypeOK
    ChargesAreDurable
    RevocationIsFinal
    PausedWhileIssuePending
PROPERTIES
    CodeYieldsOneToken
    SpentPermitIsUntouched
