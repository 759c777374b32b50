\* One task; disturbances in the budgets of MCTaskRuns: two faults of the
\* connection or the Node, or one with an error of the sandbox service, git
\* or the store and a stop of Core, or another command, or a read error; for
\* the admission two lost answers or late approvals, one administrative act.
SPECIFICATION MCSpec
CONSTANTS
    Tasks = {t1}
    MaxWire = 1
    MaxSandboxes = 3
    MaxErrors = 1
    MaxFaults = 2
    MaxReadErrors = 1
    MaxCoreStops = 1
    MaxOthers = 1
    MaxPending = 1
    MaxAdmin = 1
    MaxRequests = 2
INVARIANTS
    SandboxesAccounted
    CancelHonoured
    ClaimedOnce
PROPERTIES
    RowMoves
    TaskEnds
    EventuallyEnrolled
CHECK_DEADLOCK FALSE
