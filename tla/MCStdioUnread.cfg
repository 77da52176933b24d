SPECIFICATION Spec
CONSTANTS
    QueueCap = 1
    WriteBudget = 1
    PipeCap = 1
    MaxLines = 4
    MaxItems = 0
PROPERTY
    UnreadEndReturns
CHECK_DEADLOCK FALSE
