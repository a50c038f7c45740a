SPECIFICATION Spec
CONSTANTS
  Hosts = {h1, h2, h3}
  Clients = {c1, c2, c3}
  NoHost = NoHost
  NoAddr = NoAddr
  NumServers = 2
  StoresInOrder = TRUE
CHECK_DEADLOCK FALSE
INVARIANTS TypeOK OneLookupPerHost QueueServable NoIdleChannelWhileWaiting
  NoLostWakeup AnswersSound
PROPERTY ImplementsResolver
