SPECIFICATION Spec
CONSTANTS
  Tcbs = {301, 302}
  OtherLists = 1
  Absent = {}
  MaxPriorities = 1
  TopKnown = FALSE
  Wrong = {}
  MaxStops = 1
  Symbols = 3
  Required = {1, 3}
  StackTops = {65500}
  Mask = 65535
  MaxLookups = 1
INVARIANTS SelectedRegisters
CHECK_DEADLOCK FALSE
