SPECIFICATION Spec
CONSTANTS
    Tasks = {parser, httpd}
    NoTask = NoTask
    Commands = {"frame"}
    Marker433 = FALSE
    PollLimit = 2
SYMMETRY Symmetry
INVARIANT FrameOnAir
