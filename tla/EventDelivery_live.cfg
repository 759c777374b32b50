SPECIFICATION FairSpec
CONSTANTS
    a = a
    b = b
    NoCommand = NoCommand
    Commands <- Two
    MaxOutbox = 3
    BatchSize = 1
    WriterCap = 1
    ControlCap = 1
    MaxDispatches = 2
    MaxPerRun = 2
    MaxEvents = 3
    MaxConns = 2
    MaxTornRuns = 0
    MaxReadErrors = 0
    MaxIngestErrors = 0
INVARIANTS EventsBeforeResult
PROPERTIES EventuallyStored
CHECK_DEADLOCK FALSE
