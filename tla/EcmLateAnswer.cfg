SPECIFICATION Spec
CONSTANTS
  Doc <- MCTwoBlocks
  Allowed <- MCV27
  StartFb <- MCV27Start
  Links <- MCLinks
  Racing = TRUE
  POST_RETRIES = 1
  CTC_RETRIES = 1
  PPR_LIMIT = 2
  PPR_LIMIT_V34 = 2
  FRAMES = 2
  OCTET = 2
PROPERTIES
  RepeatMeansMissed
CHECK_DEADLOCK FALSE
