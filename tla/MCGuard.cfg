SPECIFICATION GuardSpec
CONSTANTS
    Cap = 1
    Lens = {0, 1, 2}
    MaxFrames = 3
INVARIANTS
    FramingKept
    WholeOrNothing
    AllAccounted
PROPERTY
    HandedOn
\* The peer may stop sending.
CHECK_DEADLOCK FALSE
