SPECIFICATION ReadingSpec
CONSTANTS
    QueueCap = 2
    WriteBudget = 1
    PipeCap = 1
    MaxLines = 2
    MaxItems = 2
INVARIANTS
    OutInOrder
    OkMeansAnswered
PROPERTY
    EndReturns
\* serve_lines returns.
CHECK_DEADLOCK FALSE
