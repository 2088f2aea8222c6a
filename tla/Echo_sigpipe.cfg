\* A client dies while the server echoes its message.
SPECIFICATION Spec
CONSTANTS
  t1 = t1
  u1 = u1
  u2 = u2
  None = None
  Eof = Eof
  Merged = Merged
  Tcps = {t1}
  Udps = {u1}
  TcpTexts = {"hi"}
  UdpTexts = {"hi"}
  Muxes = {"epoll"}
  Backlog = 2
  SockCap = 2
  MayDie = TRUE
  MayFail = FALSE
PROPERTY
  OnlyMainStops
