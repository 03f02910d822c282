SPECIFICATION Spec
CONSTANTS
  Me = me
  Others = {u1}
  Rooms = {r1, r2}
  APIs = {"sync", "sliding"}
  Memberships = {"join", "leave"}
  Updates <- MCUpdates
  MaxPos = 3
  None = None
SYMMETRY Symmetry
INVARIANTS
  KeysCurrent
  LeftIsGone
  PresenceKnown
CHECK_DEADLOCK FALSE
