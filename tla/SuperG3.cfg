SPECIFICATION FairSpec
CONSTANTS
  CallerMods <- MCCallerMods
  AnswererMods <- MCAnswererMods
  Srates <- MCSrates
  Srate0 = "S3429"
  rate_mask <- MCRateMask
  MaxRetrains = 1
  DisRetries = 0
  PostRetries = 1
  PprLimit = 1
INVARIANTS
  TypeOK
  V8Agreed
  SamePoint
  SuccessMeansDelivered
PROPERTY
  RateFalls
  BurstRate
  CallSettles
CHECK_DEADLOCK FALSE
