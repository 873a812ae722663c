SPECIFICATION Spec
CONSTANTS
  PAGES = 2
  Allowed <- MCNoV17
  Setups <- MCSend
  Losses <- MCNone
  Timings <- MCPatient
  POST_RETRIES = 3
  DIS_RETRIES = 10
  RTN_LIMIT = 2
INVARIANTS
  DcsWithinCaps
CHECK_DEADLOCK FALSE
