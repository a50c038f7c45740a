SPECIFICATION Spec
CONSTANTS
  Urls = {a, b}
  NoUrl = NoUrl
  MaxStack = 3
  MaxTimeouts = 2
  MaxSheets = 2
  MaxRedirects = 2
  Mishaps = {}
SYMMETRY Symmetric
CHECK_DEADLOCK FALSE
INVARIANT FormsWaitForSheets
