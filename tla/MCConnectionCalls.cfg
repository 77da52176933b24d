SPECIFICATION Spec
CONSTANTS
    Callers = {c1, c2, c3, c4}
    MaxOpen = 2
    Limits <- MCLimits
INVARIANTS
    TypeOK
    OpenIsPlacesHeld
    WithinMax
PROPERTY
    PlacesSpec
