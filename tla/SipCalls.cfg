CONSTANTS
  Dialers = {d1, d2}
  T38Dialers = {d1}
  Slots = 2
SPECIFICATION FairSpec
INVARIANTS TypeOK OneSlotPerCall NoLostChild StoppedByItsPeer NobodyAbandoned LeavesWithBye
PROPERTY EndedCallsClear
CHECK_DEADLOCK FALSE
