SPECIFICATION FairSpec
CONSTANTS
  Size = 5
  Buffer = 2
  Piece = 2
  Packet = 3
INVARIANTS TypeOK WholeUnlessFailed LeavesNothing OpensAsPython
PROPERTIES IsCopy CopyEnds
\* The call ends.
CHECK_DEADLOCK FALSE
