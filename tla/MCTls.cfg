SPECIFICATION Spec
CONSTANTS
    Conns = {1, 2}
    Peers = {3}
    Pairs = {"a", "b"}
    FirstPair = "a"
    MaxWrites = 3
INVARIANTS
    ServesDisk
    SecureIsOpen
PROPERTY
    HandshakeEnds
\* The listener may be dropped and the operator done.
CHECK_DEADLOCK FALSE
