SPECIFICATION FairSpec
CONSTANTS
  Socks = {s1, s2, s3}
  Servers = {plain}
  TlsServers = {}
  Fds = {f1, f2}
  MaxConns = 1
  NumAddrs = 2
  IoErrors = {"read"}
  WebsClose = FALSE
  NoFd = NoFd
  NoServer = NoServer
CHECK_DEADLOCK FALSE
PROPERTY EveryRequestEnds
