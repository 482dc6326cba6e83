SPECIFICATION UpdateSpec
CONSTANTS
  Tcbs = {21, 22}
  OtherLists = 1
  Absent = {}
  MaxPriorities = 1
  TopKnown = FALSE
  Wrong = {}
  MaxStops = 1
PROPERTIES FreshId
CHECK_DEADLOCK FALSE
