SPECIFICATION FairSpec
CONSTANTS
    a = a
    b = b
    NoCommand = NoCommand
    Commands <- One
    MaxOutbox = 3
    BatchSize = 2
    WriterCap = 2
    ControlCap = 1
    MaxDispatches = 2
    MaxPerRun = 1
    MaxEvents = 2
    MaxConns = 2
    MaxTornRuns = 1
    MaxReadErrors = 0
    MaxIngestErrors = 0
PROPERTIES EventuallyStored
CHECK_DEADLOCK FALSE
