\* One turn with its approval, two requests of the client, two faults; one
\* follower of the session's events; a viewer of a terminal that keeps
\* two of three pieces of output; one deduction.
SPECIFICATION MCSpec
CONSTANTS
    Turns = {t1}
    NoTurn = NoTurn
    MaxRequests = 2
    MaxFaults = 2
    MaxWire = 1
    Followers = {f1}
    MaxEvents = 3
    MaxOpens = 3
    Capacity = 2
    Viewers = {v1}
    Retained = 2
    MaxOutput = 3
    MaxBreaks = 1
    MaxFrames = 2
    Deductions = {d1}
    MaxReplies = 2
    MaxVersions = 1
INVARIANTS Settled ViewsAgree StreamComplete AllOrTold
PROPERTY EndedStay
CHECK_DEADLOCK FALSE
