SPECIFICATION Spec
CONSTANTS
    a = a
    b = b
    NoCommand = NoCommand
    Commands <- Two
    MaxOutbox = 1
    BatchSize = 2
    WriterCap = 2
    ControlCap = 1
    MaxDispatches = 3
    MaxPerRun = 1
    MaxEvents = 3
    MaxConns = 2
    MaxTornRuns = 1
    MaxReadErrors = 1
    MaxIngestErrors = 1
INVARIANTS KeptOrStored StoredOnce
PROPERTIES AckedStaysGone
CHECK_DEADLOCK FALSE
