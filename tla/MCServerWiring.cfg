SPECIFICATION Spec
CONSTANTS
    A = A
    A2 = A2
    B = B
    WA = WA
    WB = WB
    Targets = {A, A2, B}
    NoTarget = noTarget
    NoWorkspace = noWorkspace
    WorkspaceOf <- Workspaces
    MaxConnects = 3
    MaxProbes = 3
INVARIANTS
    NoSocketIsLeaked
    NeverStranded
    ExecutorActsOnTheActiveTarget
    WritableIsReverified
CHECK_DEADLOCK FALSE
