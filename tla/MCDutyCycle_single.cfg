SPECIFICATION Spec
CONSTANTS
    Tasks = {parser}
    Durations = {1, 2}
    Window = 2
    Limit433 = 3
    Limit868 = 2
    MaxTime = 6
INVARIANT TypeOK
INVARIANT HourWithinTwiceLimit
INVARIANT AccountBounded
INVARIANT AccountComplete
PROPERTY RemainingHonest
