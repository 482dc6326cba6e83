SPECIFICATION FairUpdate
CONSTANTS
  Tcbs = {21}
  OtherLists = 1
  Absent = {}
  MaxPriorities = 1
  TopKnown = TRUE
  Wrong = {0, 3}
  MaxStops = 2
INVARIANTS MapTracksTasks IdsInRange
PROPERTIES UpdateEnds UpdateProgress
CHECK_DEADLOCK FALSE
