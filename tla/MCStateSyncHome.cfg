SPECIFICATION Spec
CONSTANTS
    A = A
    B = B
    c1 = c1
    Windows = {A, B}
    NoWindow = noWindow
    Clients = {c1}
    Cycles = {1, 2}
    thinking = thinking
    running = running
    Labels = {thinking, running}
    NoLabel = noLabel
    LabelAt <- MCLabelAt
    MaxEdits = 1
    MaxEvents = 1
INVARIANTS
    SnapshotsAreOfTheirWindow
