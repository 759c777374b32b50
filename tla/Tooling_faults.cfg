\* Two connects or disconnects and one reconnect; one tool call with one
\* lease, and two of: a reconnect, a restart of Core, a read error, another
\* command (see Budgets).  With its call over and its session stopped the
\* system is at rest.
SPECIFICATION MCSpec
CONSTANTS
    MaxConnects = 2
    MaxHellos = 1
    MaxReports = 1
    Calls = {c1}
    MaxLeases = 1
    MaxStops = 1
    MaxReadErrors = 1
    MaxOthers = 1
INVARIANT AnswerStays
PROPERTIES
    SidesAgree
    EveryCallEnds
CHECK_DEADLOCK FALSE
