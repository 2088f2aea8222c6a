\* One client more than the queue has slots.
SPECIFICATION Spec
CONSTANTS
  c1 = c1
  c2 = c2
  c3 = c3
  w1 = w1
  w2 = w2
  None = None
  Clients <- ThreeClients
  Socks <- Shared
  SockOf <- SharedThree
  Workers <- TwoWorkers
  Texts = {"date"}
  QIds = {1}
  QCap = 2
  SockCap = 3
  MaxSend = 2
  MaxRestart = 0
  MayFail = FALSE
INVARIANT
  NeverWedged
