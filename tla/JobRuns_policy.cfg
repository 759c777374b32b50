SPECIFICATION Spec
CONSTANTS
    j1 = j1
    c1 = c1
    c2 = c2
    NoJob = NoJob
    Scheduler = Scheduler
    Jobs <- OneJob
    Clients <- OneClient
    Routes = {"enable", "run", "cancel"}
    RuntimeFaults = {"error"}
    MaxTime = 1
    MaxManual = 1
    MaxErrors = 0
    MaxRestarts = 0
INVARIANTS TypeOK OneActive
PROPERTIES NoStartAfterFailure
CHECK_DEADLOCK FALSE
