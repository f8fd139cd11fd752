SPECIFICATION Spec
CONSTANTS
    Attempts = {1, 2}
    Card = card
    NoAttempt = noAttempt
    s1 = s1
    s2 = s2
    Sessions = {s1, s2}
    MaxHeight = 3
    MaxSearch = 1
    MaxPolls = 2
    MaxMoves = 2
INVARIANTS
    FoundAsLeft
    ShownPlanIsCurrent
PROPERTIES
    HandsOffAfterInput
CHECK_DEADLOCK FALSE
