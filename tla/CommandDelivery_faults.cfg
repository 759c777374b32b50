SPECIFICATION Spec
CONSTANTS
    a = a
    b = b
    k = k
    Commands <- One
    Keys <- OneKey
    KindOf <- Workspace
    KeyOf <- KeyOne
    RunStatuses = {"completed"}
    ControlCap = 1
    WriterCap = 3
    DispatchCap = 1
    MaxConns = 2
    MaxCoreRestarts = 1
    MaxNodeRestarts = 1
    MaxReadErrors = 1
    MaxSaveErrors = 1
INVARIANTS UnresolvedStaysQueued OncePerConnection

CHECK_DEADLOCK FALSE
