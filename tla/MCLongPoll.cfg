CONSTANTS
  Rooms = {r1, r2}
  Kinds = {"message", "join", "invite", "knock", "leave"}
  Apis = {"sync", "events"}
  Limit = 1
  None = None
  MaxPos = 3
SYMMETRY Symmetry
SPECIFICATION Spec
INVARIANTS
  ParkedHasNoNews
  ResponseComplete
PROPERTY
  TokenNeverFalls
