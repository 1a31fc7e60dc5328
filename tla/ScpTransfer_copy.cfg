SPECIFICATION FairSpec
CONSTANTS
  Size = 7
  WriteLen = 3
  ReadLen = 2
  Windows = {1, 2, 4, 7}
  PeerDies = FALSE
INVARIANTS TypeOK DoneComplete RecvCloses
PROPERTIES IsCopy CopyEnds
CHECK_DEADLOCK FALSE
