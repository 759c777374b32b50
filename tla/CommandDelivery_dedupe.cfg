SPECIFICATION Spec
CONSTANTS
    a = a
    b = b
    k = k
    Commands <- One
    Keys <- OneKey
    KindOf <- Workspace
    KeyOf <- KeyOne
    RunStatuses = {"completed", "failed"}
    ControlCap = 2
    WriterCap = 6
    DispatchCap = 3
    MaxConns = 2
    MaxCoreRestarts = 0
    MaxNodeRestarts = 0
    MaxReadErrors = 1
    MaxSaveErrors = 0

PROPERTIES NoRerunAfterOutcome
CHECK_DEADLOCK FALSE
