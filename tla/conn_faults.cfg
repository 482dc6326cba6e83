SPECIFICATION Spec
CONSTANTS
  MaxReads = 1
  Kinds = {"plain", "noack", "local", "stop", "regs"}
  AckKinds = {"plain", "noack", "stop", "regs"}
  Window = 2
  MaxSent = 3
  MaxBreaks = 2
  MaxRetransmits = 1
  MaxNaks = 1
  StartAck = TRUE
  SelfStop = TRUE
  StopReplies = {"T", "other"}
INVARIANTS ClientOrder FrontExists OnlyBreaksDropped
CHECK_DEADLOCK FALSE
