\* Two processes open the device at the same time.
SPECIFICATION Spec
CONSTANTS
  Procs = {p, q}
  BufLen = 3
  Chars = {1}
  Msgs <- ShortStrings
  Writes = {}
  GetLen = 4
  ReadLens = {}
INVARIANT
  OneProcessAtATime
