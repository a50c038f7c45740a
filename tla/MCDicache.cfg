SPECIFICATION Spec
CONSTANTS
  Clients = {c1, c2}
  Freed = Freed
  NoImage = NoImage
  Height = 1
  MaxScan = 2
  MaxData = 2
  MaxVersion = 2
  SurvPasses = 1
  Mishaps = {}
SYMMETRY Symmetric
INVARIANTS TypeOK RefCountExact ClientsOnCurrent ShownIsKept 
