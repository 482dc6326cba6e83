SPECIFICATION FairUpdate
CONSTANTS
  Tcbs = {21, 22, 23}
  OtherLists = 2
  Absent = {2}
  MaxPriorities = 2
  TopKnown = FALSE
  Wrong = {}
  MaxStops = 2
INVARIANTS UpdateTypeOK
PROPERTIES ViewPublished
CHECK_DEADLOCK FALSE
