CONSTANTS
  Durations <- MCDurations
  Garbage <- MCGarbage
  Frames <- ItV1Frames
  Offsets <- Undistorted
  Noise <- MCNoise
  MaxFaults = 0
SPECIFICATION LoopSpec
INVARIANT CommandHeard
