SPECIFICATION Spec
CONSTANTS
  Socks = {s1, s2, s3}
  Servers = {plain, secure}
  TlsServers = {secure}
  Fds = {f1, f2}
  MaxConns = 1
  NumAddrs = 2
  IoErrors = {"read", "socket"}
  WebsClose = TRUE
  NoFd = NoFd
  NoServer = NoServer
SYMMETRY Symmetric
CHECK_DEADLOCK FALSE
INVARIANTS TypeOK ActiveConnsExact ServersSound FdsSound
