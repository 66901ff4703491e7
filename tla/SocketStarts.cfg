SPECIFICATION Spec
CONSTANTS
  NoFile = NoFile
  NoInode = NoInode
  Procs = {p1, p2, p3}
  Inodes = {i1, i2, i3, i4}
  Serial = TRUE
  Crashes = TRUE
  Faults = TRUE
SYMMETRY Symmetry
INVARIANTS TypeOK ServingReachable
PROPERTIES DropKeepsOthers ImplementsPathOwner
