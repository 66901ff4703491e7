SPECIFICATION FairSpec
CONSTANTS
  NoFile = NoFile
  NoInode = NoInode
  Procs = {p1, p2}
  Inodes = {i1, i2, i3}
  Serial = TRUE
  Crashes = TRUE
  Faults = FALSE
PROPERTY StaleReclaimed
