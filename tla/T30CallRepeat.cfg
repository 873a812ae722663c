SPECIFICATION Spec
CONSTANTS
  PAGES = 2
  Allowed <- MCAllowed
  Setups <- MCSend
  Losses <- MCLoseMcf
  Timings <- MCPatient
  POST_RETRIES = 3
  DIS_RETRIES = 10
  RTN_LIMIT = 2
PROPERTIES
  RepeatAnswered
CHECK_DEADLOCK FALSE
