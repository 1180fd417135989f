SPECIFICATION ServerFairSpec
CONSTANTS
  a = a
  b = b
  c = c
  Conns = {a, b}
  NoConn = NoConn
  Other = Other
  OtherMax = 1
  Fds = {4, 5}
  ListenFd = 3
  Backlog = 1
  StreamMax = 1
  OutMax = 1
  RespLen = 2
  SendErrors = FALSE
PROPERTY RunReturns
