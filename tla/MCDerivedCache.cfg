CONSTANTS
  k1 = k1
  k2 = k2
  Keys = {k1, k2}
  Sets = {"join", "invite join"}
  Readers = {r1}
  Transactions <- MCNamed
  MaxEntries = 1
  MaxPos = 2
  MaxDrops = 1
  MaxLost = 1
SPECIFICATION Spec
INVARIANTS
  OwnTokenCovered
  DownHoldsNothing
PROPERTY
  QuietStreamAnswers
