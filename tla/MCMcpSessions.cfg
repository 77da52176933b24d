SPECIFICATION Spec
CONSTANTS
    Ids = {"i"}
    Slots = {"p", "q", "r"}
    MaxStarts = 2
INVARIANTS
    LiveHasRow
    ClosedIsGone
    OrphanHasCause
PROPERTY
    RequestsReturn
\* The process may be down for good.
CHECK_DEADLOCK FALSE
