SPECIFICATION FairSpec
CONSTANTS
  numdpis = 3
  Filters = {2}
  Downloads = 3
  Backlog = 2
  MaxStrays = 3
  Mishaps = {}
CHECK_DEADLOCK FALSE
INVARIANTS TypeOK  SocketsCounted 
 
