\* A reply is lost.  The program then waits forever, which is what is shown.
CHECK_DEADLOCK FALSE
SPECIFICATION FairSpec
CONSTANTS
  Counts = {2}
  Pids = {7}
  IdMod = 65536
  Foreign <- OtherPing
  MayLose = TRUE
  MayFail = FALSE
  MayInt = FALSE
PROPERTY
  Ends
