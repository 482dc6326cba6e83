SPECIFICATION FairSpec
CONSTANTS
  MaxReads = 2
  Kinds = {"plain", "local", "stop", "regs"}
  AckKinds = {}
  Window = 1
  MaxSent = 5
  MaxBreaks = 0
  MaxRetransmits = 0
  MaxNaks = 0
  StartAck = FALSE
  SelfStop = TRUE
  StopReplies = {"T"}
INVARIANTS InFlight WritesDoNotOverlap
PROPERTIES OrderedDialogue Answered
CHECK_DEADLOCK FALSE
