SPECIFICATION Spec
CONSTANTS
    Tickets = {1, 2}
    Envelopes = {1, 2}
    Texts = {1}
    MaxRetries = 1
    MaxActions = 2
    MaxGeneration = 2
    MaxMoves = 2
INVARIANTS
    AskedOnceDoneOnce
    ToldOkMeansDone
PROPERTIES
    NeverRunsLate
    ImplementsLane
    EveryoneIsAnswered
CHECK_DEADLOCK FALSE
