CONSTANTS
  Durations <- MCDurations
  Garbage <- MCGarbage
  Frames <- MCFrames
  Offsets <- MCOffsets
  Noise <- MCNoise
  MaxFaults = 1
SPECIFICATION LoopSpec
INVARIANT DecTypeOK
INVARIANT ArraysInRange
INVARIANT RoundTrip
INVARIANT SwitchAddressed
