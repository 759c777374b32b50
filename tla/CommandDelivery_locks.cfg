SPECIFICATION Spec
CONSTANTS
    a = a
    b = b
    k = k
    Commands <- Two
    Keys <- OneKey
    KindOf <- Cancelled
    KeyOf <- KeyTwo
    RunStatuses = {"completed"}
    ControlCap = 1
    WriterCap = 2
    DispatchCap = 1
    MaxConns = 1
    MaxCoreRestarts = 0
    MaxNodeRestarts = 0
    MaxReadErrors = 0
    MaxSaveErrors = 0
INVARIANTS NoOverlap

CHECK_DEADLOCK FALSE
