\* The ioctl driver with one process and every string shorter than the
\* buffer, the empty one too; the DNS cache with two processors; the drivers with global
\* read positions and two readers.  Readers and queries may come to an end.
CHECK_DEADLOCK FALSE
SPECIFICATION KernelSpec
CONSTANTS
  Procs = {p}
  BufLen = 4
  Chars = {1, 2}
  Msgs <- ShortStrings
  Writes <- ShortWrites
  GetLen = 5
  ReadLens = {1, 2}
  Queries = {1, 2, 3, 4}
  Cpus = {1, 2}
  Answers <- SomeAnswers
  DnsMayFail = TRUE
  Name <- NameOf
  Port <- PortOf
  BlockPort = 7777
  Readers = {1, 2}
  Drivers = {"procfs", "procfs_m", "chardev"}
  Lengths = {2, 3}
  Counts = {2, 4}
INVARIANTS
  UnreadGetReturnsMessage
  ReadStaysInMessage
  AnswersGiven
  ReadsWholeMessage
PROPERTY
  QueriesAnswered
