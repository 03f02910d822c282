SPECIFICATION Spec
CONSTANTS
  Rooms = {r1, r2}
  Users = {u}
  APIs = {"sync", "sliding", "events"}
  MaxSerial = 3
  MaxRuns = 2
  MidRow = FALSE
  None = None
SYMMETRY Symmetry
INVARIANTS
  TypingArrives
  NotToldAgain
CHECK_DEADLOCK FALSE
