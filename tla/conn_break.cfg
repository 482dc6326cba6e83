SPECIFICATION FairRtosSpec
CONSTANTS
  MaxReads = 30
  Kinds = {"plain", "local", "stop", "regs"}
  AckKinds = {}
  Window = 1
  MaxSent = 5
  MaxBreaks = 3
  MaxRetransmits = 0
  MaxNaks = 0
  StartAck = FALSE
  SelfStop = FALSE
  StopReplies = {"T"}
  Tcbs = {21, 22}
  OtherLists = 1
  Absent = {}
  MaxPriorities = 1
  TopKnown = FALSE
  Wrong = {}
  Stray = {9}
INVARIANTS Matched BuffersAlive ReadsInStep ReportsUpdate Attended
PROPERTIES DatCleanedByResponse BreakAnswered SessionView
CHECK_DEADLOCK FALSE
