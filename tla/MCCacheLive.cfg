SPECIFICATION FairSpec
CONSTANTS
  Urls = {u1, u2}
  Windows = {w1}
  Images = {i1}
  NoUrl = NoUrl
  NoEntry = NoEntry
  MaxData = 1
  MaxClients = 2
  MaxRedirects = 1
  Kinds = {"page", "redirect", "temp_redirect", "mismatch"}
  Mishaps = {}
CHECK_DEADLOCK FALSE
 
PROPERTY EveryClientServed
