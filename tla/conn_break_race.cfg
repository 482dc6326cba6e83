SPECIFICATION Spec
CONSTANTS
  MaxReads = 2
  Kinds = {"plain", "stop"}
  AckKinds = {}
  Window = 1
  MaxSent = 2
  MaxBreaks = 1
  MaxRetransmits = 0
  MaxNaks = 0
  StartAck = FALSE
  SelfStop = TRUE
  StopReplies = {"T"}
PROPERTIES DatCleanedByResponse
CHECK_DEADLOCK FALSE
