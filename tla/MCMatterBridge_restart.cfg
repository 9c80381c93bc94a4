SPECIFICATION Spec
CONSTANTS
    Reporters = {slowrf}
    Commanders = {}
    Devices = {s1, w1}
    Switches = {s1}
    Untyped = {}
    NoDevice = NoDevice
    MAX_ENDPOINTS = 2
    SdkEndpoints = 2
    EarlyEvents = FALSE
    MayRestart = TRUE
    MaxEp = 5
SYMMETRY Symmetry
INVARIANT SameEndpoint
