SPECIFICATION Spec
CONSTANTS
    Reporters = {slowrf, console}
    Commanders = {console}
    Devices = {s1, s2, x1}
    Switches = {s1, s2}
    Untyped = {x1}
    NoDevice = NoDevice
    MAX_ENDPOINTS = 2
    SdkEndpoints = 2
    EarlyEvents = TRUE
    MayRestart = TRUE
    MaxEp = 3
SYMMETRY Symmetry
INVARIANT TypeOK
INVARIANT CountBounded
INVARIANT ConsistentUnlessRaced
INVARIANT ReachedUnlessRaced
