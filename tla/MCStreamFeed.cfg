CONSTANTS
  e1 = e1
  e2 = e2
  Entities = {e1, e2}
  Transactions <- MCTransactions
  Writers = {w1}
  MaxPos = 4
  MaxSize = 1
  MaxPending = 1
  ScanLimit = 2
  MaxAnnounce = 1
  MaxDrops = 1
SPECIFICATION Spec
INVARIANTS
  ReplicatedWindowSound
  DeliveredNeverDenied
  MembershipSoundSinceConnect
  TokenCoversCommitted
CHECK_DEADLOCK FALSE
