SPECIFICATION Spec
CONSTANTS
    Reporters = {slowrf, console}
    Commanders = {}
    Devices = {s1, w1}
    Switches = {s1}
    Untyped = {}
    NoDevice = NoDevice
    MAX_ENDPOINTS = 2
    SdkEndpoints = 2
    EarlyEvents = FALSE
    MayRestart = FALSE
    MaxEp = 4
SYMMETRY Symmetry
INVARIANT TableConsistent
