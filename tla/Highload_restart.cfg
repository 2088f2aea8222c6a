\* client.c, calls may fail, the server may be stopped and restarted.
\* The server may exit for good and the clients wait for it forever.
CHECK_DEADLOCK FALSE
SPECIFICATION FairSpec
CONSTANTS
  c1 = c1
  c2 = c2
  c3 = c3
  w1 = w1
  w2 = w2
  None = None
  Clients <- TwoClients
  Socks <- TwoClients
  SockOf <- OwnTwo
  Workers <- TwoWorkers
  Texts = {"date", "exit"}
  QIds = {0, 1}
  QCap = 2
  SockCap = 2
  MaxSend = 3
  MaxRestart = 2
  MayFail = TRUE
INVARIANTS
  TypeOK
  AnswerMatches
  NoSenderBlocks
PROPERTIES
  ImplementsReplyService
  RequestSettles
