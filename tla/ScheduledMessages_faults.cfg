SPECIFICATION FairSpec
CONSTANTS
    a = a
    b = b
    r = r
    s = s
    Dispatcher = Dispatcher
    NoMessage = NoMessage
    Messages <- TwoMessages
    Requests <- TwoRequests
    MaxRedo = 1
    MaxEdits = 1
    MaxErrors = 1
    MaxRestarts = 1
INVARIANTS TypeOK ExclusiveClaim NoHiddenRepeat
PROPERTIES EventuallySettled
CHECK_DEADLOCK FALSE
