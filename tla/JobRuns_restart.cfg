SPECIFICATION FairSpec
CONSTANTS
    j1 = j1
    c1 = c1
    c2 = c2
    NoJob = NoJob
    Scheduler = Scheduler
    Jobs <- OneJob
    Clients <- OneClient
    Routes = {"enable", "update", "disable", "cancel"}
    RuntimeFaults = {"error"}
    MaxTime = 1
    MaxManual = 0
    MaxErrors = 1
    MaxRestarts = 1
INVARIANTS OneTurn
PROPERTIES RunsFinish
CHECK_DEADLOCK FALSE
