SPECIFICATION Spec
CONSTANTS
  MaxReads = 2
  Kinds = {"plain", "noack", "local", "stop", "regs"}
  AckKinds = {"plain", "noack", "stop", "regs"}
  Window = 1
  MaxSent = 5
  MaxBreaks = 0
  MaxRetransmits = 0
  MaxNaks = 0
  StartAck = TRUE
  SelfStop = TRUE
  StopReplies = {"T"}
INVARIANTS AcksForCommands
CHECK_DEADLOCK FALSE
