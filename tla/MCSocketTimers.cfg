SPECIFICATION TimersSpec
CONSTANTS
    PingEvery = 3
    PingTimeout = 3
    IdleTimeout = 4
    TickEvery = 2
    OutHigh = 2
    MaxInbox = 2
    MaxCalls = 1
INVARIANTS
    NotEarly
    NotLate
    IdleKeepsAnswers
\* The socket ends.
CHECK_DEADLOCK FALSE
