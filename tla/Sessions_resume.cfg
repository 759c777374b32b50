CONSTANTS
    Turns = {t1}
    NoTurn = NoTurn
    MaxRequests = 1
    MaxFaults = 1
    MaxWire = 2
SPECIFICATION FairSpec
PROPERTY ExpiredResumes
CHECK_DEADLOCK FALSE
