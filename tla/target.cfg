SPECIFICATION FairSpec
CONSTANTS
  Tcbs = {301, 302}
  OtherLists = 1
  Absent = {}
  MaxPriorities = 1
  TopKnown = FALSE
  Wrong = {}
  MaxStops = 2
  Symbols = 3
  Required = {1, 3}
  StackTops = {65500}
  Mask = 65535
  MaxLookups = 2
INVARIANTS TypeOK OneReplyPerHalt SymbolsResolved LookupExact ListedAnswered CurrentListed
PROPERTIES HaltAnnounced RegistersRestored
CHECK_DEADLOCK FALSE
