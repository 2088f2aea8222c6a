\* The time daemon with three clients, kills, SIGHUP
\* and malloc failing; queue_chat with three
\* client processes on two pids and a queue of three; the two programs with pipes;
\* get_cur_dt in two threads; sctp with two clients, of one address or of two.
\* Programs may end or wait for somebody who need not come.
CHECK_DEADLOCK FALSE
SPECIFICATION ProcSpec
CONSTANTS
  a = a
  b = b
  c = c
  Clients = {a, b, c}
  DtExists = {TRUE, FALSE}
  MayDie = TRUE
  MayHup = TRUE
  NoMemory = TRUE
  MaxReq = 2
  Outputs = {0, 1, 2, 3, 4}
  PipeSize = 2
  Servers = {1, 2}
  PipeClients = {1, 2, 3}
  Threads = {1, 2}
  MaxClock = 3
  Users = {1, 2}
  Addrs = {1, 2}
  NChunks = 2
INVARIANTS
  AnswersInStep
  NoSelfSignal
  DateOwn
  FileFaithful
PROPERTIES
  DiesOfKilledClient
  RequestAnswered
  ConnectAnswered
  CutGetsAll
