SPECIFICATION PathSpec
CONSTANTS
    Tasks = {parser}
    Consoles = {parser}
    CodeModulus = 8
    MaxSkips = 4
    NoTask = NoTask
    Commands = {"frame", "m", "it_v1", "somfy", "f433", "f868", "TX1", "TX0", "MREG", "e"}
    Marker433 = FALSE
    PollLimit = 2
INVARIANT TypeOK
INVARIANT ObeyedInTurn
INVARIANT FrameOnAir
INVARIANT ConfigConsistent
PROPERTY BackToReceive
PROPERTY ImplementsHalfDuplex
