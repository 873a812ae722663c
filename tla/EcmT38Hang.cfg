SPECIFICATION FairSpec
CONSTANTS
  Doc <- MCOne
  Allowed <- MCV27
  StartFb <- MCV27Start
  Links <- MCT38
  Racing = FALSE
  POST_RETRIES = 1
  CTC_RETRIES = 1
  PPR_LIMIT = 2
  PPR_LIMIT_V34 = 2
  FRAMES = 2
  OCTET = 2
PROPERTIES
  AnswererEnds
CHECK_DEADLOCK FALSE
