SPECIFICATION Spec
CONSTANTS
    j1 = j1
    c1 = c1
    c2 = c2
    NoJob = NoJob
    Scheduler = Scheduler
    Jobs <- OneJob
    Clients <- OneClient
    Routes = {"run"}
    RuntimeFaults = {}
    MaxTime = 0
    MaxManual = 1
    MaxErrors = 0
    MaxRestarts = 0
INVARIANTS OneTurn
CHECK_DEADLOCK FALSE
