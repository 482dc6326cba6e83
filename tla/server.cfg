SPECIFICATION FairSpec
CONSTANTS
  MaxConns = 3
  MaxEndpoints = 2
  MaxWrites = 1
INVARIANTS TypeOK WholeSession NothingLeaks
PROPERTIES SessionEnds
CHECK_DEADLOCK FALSE
