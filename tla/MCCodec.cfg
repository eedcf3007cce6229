SPECIFICATION Spec
CONSTANTS
  Base = 4
  Short = 1
  Long = 2
  Wide = 3
  KeyLengths = {1, 2}
  MaxFrame = 17
  Frames <- MCFrames
  Built <- MCBuilt
INVARIANTS
  Reconstructs
  PeerUnderstands
  ReservesWithinFrame
CHECK_DEADLOCK FALSE
