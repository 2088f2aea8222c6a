\* ping and traceroute to a host two hops away; packets may be lost,
\* reordered, duplicated or answered by errors, and calls may fail.  Both
\* programs end or wait for ever.
CHECK_DEADLOCK FALSE
SPECIFICATION MCSpec
CONSTANTS
  Counts = {0, 2}
  Pids = {7, 65543}
  IdMod = 65536
  Foreign <- Others
  MayLose = TRUE
  MayFail = TRUE
  MayInt = TRUE
  TPid = 9
  TtlWidth = 256
  Hops = 2
  MaxTtl = 3
INVARIANTS
  RepliesStamped
  NoUseAfterFree
  HopsAttributed
PROPERTY
  EndsIfAnswered
