SPECIFICATION Spec
CONSTANTS
  Socks = {s1, s2, s3}
  Servers = {plain, other}
  TlsServers = {}
  Fds = {f1, f2}
  MaxConns = 1
  NumAddrs = 1
  IoErrors = {"write"}
  WebsClose = FALSE
  NoFd = NoFd
  NoServer = NoServer
SYMMETRY Symmetric
CHECK_DEADLOCK FALSE
INVARIANT FdMapUnique
