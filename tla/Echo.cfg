\* Every server; clients may die or send nothing, calls may fail, threads not be
\* created.  A stopped server leaves UDP clients waiting.
CHECK_DEADLOCK FALSE
SPECIFICATION FairSpec
CONSTANTS
  t1 = t1
  u2 = u2
  u1 = u1
  None = None
  Eof = Eof
  Merged = Merged
  Tcps = {t1}
  Udps = {u1, u2}
  TcpTexts = {"hi", "", "exit"}
  UdpTexts = {"", "exit"}
  Muxes <- AllServers
  Backlog = 2
  SockCap = 2
  MayDie = TRUE
  MayFail = TRUE
INVARIANTS
  EchoMatches
PROPERTIES
  UdpAnswered
  TcpAnswered
  HandlerEnds
