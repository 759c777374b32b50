SPECIFICATION EitherSpec
CONSTANTS
    a = a
    b = b
    k = k
    Commands <- Two
    Keys <- OneKey
    KindOf <- Either
    KeyOf <- KeyTwo
    RunStatuses = {"completed"}
    ControlCap = 2
    WriterCap = 6
    DispatchCap = 3
    MaxConns = 2
    MaxCoreRestarts = 1
    MaxNodeRestarts = 1
    MaxReadErrors = 0
    MaxSaveErrors = 0
INVARIANTS TypeOK NodeAgrees
PROPERTIES NoRerunAfterOutcome ResultNeverReplaced ImplementsService EventuallyResolved
CHECK_DEADLOCK FALSE
