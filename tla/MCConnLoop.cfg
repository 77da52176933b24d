SPECIFICATION FairSpec
CONSTANTS
    OutHigh = 1
    ReadBudget = 2
    Budget = 2
    QueueCap = 2
    MaxSubs = 1
    MaxMsgs = 2
    Scripts <- MCScripts
INVARIANTS
    AnswerBeforeFrames
    AnsweredOnce
    NoLostWake
    ByTurns
PROPERTY
    OwesNothing
\* The loop ends.
CHECK_DEADLOCK FALSE
