SPECIFICATION Spec
CONSTANTS
  r1 = r1
  r2 = r2
  Rooms = {r1, r2}
  Slots = {s1, s2}
  Streams = {"rooms", "receipts"}
  Writes <- News
  Requests <- Dropped
  Away = FALSE
  NumRoomsThreshold = 0
  MaxPos = 2
  MaxPositions = 3
  None = None
INVARIANTS
  HonestCursor
PROPERTY Implements
SYMMETRY Symmetry
CHECK_DEADLOCK FALSE
