SPECIFICATION Spec
CONSTANTS
  Slots = {s1, s2}
  APIs = {"sync", "sliding"}
  ToDeviceLimit = 2
  deleteBatch = 2
  MaxId = 3
  None = None
INVARIANTS
  DeletedWasTaken
PROPERTY Implements
SYMMETRY Symmetry
CHECK_DEADLOCK FALSE
