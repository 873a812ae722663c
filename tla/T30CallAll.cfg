SPECIFICATION FairSpec
CONSTANTS
  PAGES = 2
  Allowed <- MCAllowed
  Setups <- MCSetups
  Losses <- MCLosses
  Timings <- MCTimings
  POST_RETRIES = 1
  DIS_RETRIES = 1
  RTN_LIMIT = 2
  Documents <- MCDocuments
  MinRowBits <- MCMinRowBits
INVARIANTS
  TypeOK
  SuccessAgreed
  RateAgreed
  CallInv
PROPERTIES
  RowsSurvive
  DeliversPages
  CallEnds
CHECK_DEADLOCK FALSE
