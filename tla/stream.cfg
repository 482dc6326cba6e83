SPECIFICATION FairSpec
CONSTANTS
  Payloads <- MCPayloads
  Signals = {3, 43}
  Stray = {10}
  Alphabet = {58, 125, 255}
  BufSize = 4
  MaxPackets = 2
  MaxText = 3
INVARIANTS TypeOK Framed ChecksumVerified AbortsOnStray WellComposed
PROPERTIES Drained
CHECK_DEADLOCK FALSE
