\* The allocator with its real header size and requests that lead to merging,
\* splitting and slack; the sniffer with real bytes: the ends of the range, and
\* one that makes a carry carry again; the raw client among others' datagrams.
\* The programs stop at their bounds.
CHECK_DEADLOCK FALSE
SPECIFICATION ToolSpec
CONSTANTS
  H = 32
  MinRest = 16
  Sizes = {0, 5, 48, 64}
  HeapMax = 352
  MayFail = TRUE
  B = 256
  Bytes = {0, 118, 255}
  MaxData = 3
  MaxPackets = 1
  Searches <- SomeSearches
  Beyond <- SomeBeyond
  MaxForeign = 2
INVARIANTS
  Tiled
  LiveSeparate
  SearchStaysInList
  VerdictRight
  MatchPrinted
PROPERTY
  RawClientEnds
