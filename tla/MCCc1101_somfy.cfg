SPECIFICATION FairSpec
CONSTANTS
    Tasks = {parser}
    NoTask = NoTask
    Commands = {"somfy", "f433", "f868"}
    Marker433 = FALSE
    PollLimit = 2
PROPERTY SomfyKeepsBand
