SPECIFICATION Spec
CONSTANTS
  Urls = {u1, u2}
  Windows = {w1, w2}
  Images = {i1}
  NoUrl = NoUrl
  NoEntry = NoEntry
  MaxData = 1
  MaxClients = 2
  MaxRedirects = 1
  Kinds = {"page", "temp_redirect", "attachment", "mismatch"}
  Mishaps = {"read_error", "empty_reply", "shared_stop"}
SYMMETRY Symmetric
CHECK_DEADLOCK FALSE
INVARIANTS TypeOK QueuesSound ConnFeedsItsEntry DataHeld
