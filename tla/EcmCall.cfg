SPECIFICATION FairSpec
CONSTANTS
  Doc <- MCDoc
  Allowed <- MCV27
  StartFb <- MCV27Start
  Links <- MCLinks
  Racing = FALSE
  POST_RETRIES = 3
  CTC_RETRIES = 3
  PPR_LIMIT = 4
  PPR_LIMIT_V34 = 16
  FRAMES = 2
  OCTET = 2
  PrimaryModes <- MCModes
INVARIANTS
  TypeOK
  PagesIntact
  PagesConfirmed
  CallerSuccess
  AnswererSuccess
  RateAgreed
  BurstCoversMissing
PROPERTIES
  FramesSurvive
  BurstSurvives
  ControlSurvives
  CallEnds
  DeliversPages
  RepeatMeansMissed
CHECK_DEADLOCK FALSE
