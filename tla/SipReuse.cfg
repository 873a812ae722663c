CONSTANTS
  Dialers = {d1, d2}
  T38Dialers = {d1, d2}
  Slots = 1
SPECIFICATION Spec
INVARIANT MediaAgree
CHECK_DEADLOCK FALSE
