SPECIFICATION Spec
CONSTANTS
  Size = 7
  WriteLen = 3
  ReadLen = 2
  Windows = {1, 2, 4, 7}
  PeerDies = FALSE
INVARIANT ContentSent
CHECK_DEADLOCK FALSE
