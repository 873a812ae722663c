CONSTANTS
  SEQ = 8
  HALF = 4
  BUF = 8
  Fits = 8
  MaxRun = 2
  MaxLate = 2
  Redundancy = 2
  Repeats = 3
  Bursts = 2
  Frames = 2
  Chunks = 2
  HalfDuplex = FALSE
SPECIFICATION Spec
INVARIANT FramesWhole
CHECK_DEADLOCK FALSE
