\* Two panels over three directories; a user may quit at any time, and a copy
\* that failed may leave the program in the progress display for ever.
CHECK_DEADLOCK FALSE
SPECIFICATION Spec
CONSTANTS
  Dirs = {"home", "sub", "top"}
  Parent <- MCParent
  Order <- MCOrder
  Executable = {"#run"}
  Unreadable = {"top"}
  Bad = {}
  Deep = {"sub"}
  Long <- MCLong
  Cut <- MCCut
  Field <- MCField
  Disks <- MCDisks
  Typed <- MCTyped
  Bar = 2
  Chunk = 2
  Garbage <- MCGarbage
  MaxParents = 1
  MaxForms = 2
INVARIANTS
  CopyComplete
PROPERTIES
  OnlyMarkedIsLost
  RunsWhatIsMarked
  CopyEnds
