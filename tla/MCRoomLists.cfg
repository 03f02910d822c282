SPECIFICATION Spec
CONSTANTS
  r1 = r1
  r2 = r2
  Rooms = {r1, r2}
  Writers = {w1}
  Acts = {"join", "leave", "kick", "spam", "message"}
  Lists <- OneAndAll
  Attributes <- Types
  PartialStateRooms = {r2}
  MaxPos = 4
  None = None
INVARIANTS
  ListedAsOfToken
  NewlyJoinedIsFound
  WindowIsNewest
CHECK_DEADLOCK FALSE
