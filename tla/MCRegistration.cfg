SPECIFICATION Spec
CONSTANTS
    Procs = {1, 2}
    RegisterAttempts = 2
INVARIANTS
    RegisteredIsListed
    DeregisteredIsUnlisted
PROPERTY
    RegistryNeverHolds
\* Every process may be gone and every request taken.
CHECK_DEADLOCK FALSE
