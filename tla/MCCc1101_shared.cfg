SPECIFICATION FairSpec
CONSTANTS
    Tasks = {parser, httpd}
    NoTask = NoTask
    Commands = {"frame", "m", "it_v1", "somfy", "f433", "f868", "TX0", "MREG", "e"}
    Marker433 = FALSE
    PollLimit = 2
INVARIANT TypeOK
INVARIANT NoSelfReception
INVARIANT QuiescentConsistent
INVARIANT FactoryResetSticks
PROPERTY CommandsEnd
