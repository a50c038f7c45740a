SPECIFICATION FairSpec
CONSTANTS
  Urls = {a, b, c}
  NoUrl = NoUrl
  MaxStack = 3
  MaxTimeouts = 2
  MaxSheets = 2
  MaxRedirects = 2
  Mishaps = {}
CHECK_DEADLOCK FALSE
INVARIANTS TypeOK StackSound SheetsCounted
PROPERTIES DeliveredIsNamed PastKept ExpectationEnds
