SPECIFICATION Spec
CONSTANTS
    j1 = j1
    c1 = c1
    c2 = c2
    NoJob = NoJob
    Scheduler = Scheduler
    Jobs <- OneJob
    Clients <- TwoClients
    Routes = {"run", "cancel"}
    RuntimeFaults = {"error", "expired"}
    MaxTime = 0
    MaxManual = 1
    MaxErrors = 1
    MaxRestarts = 1
INVARIANTS StartsOnce SuccessHasTurn
PROPERTIES TerminalStays
CHECK_DEADLOCK FALSE
