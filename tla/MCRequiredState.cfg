SPECIFICATION Spec
CONSTANTS
  Me = "me"
  Sender = "bob"
  Entries <- Room
  Requests <- Menu
  TimelineLimit = 1
  MaxRememberedStateKeys = 2
  MaxPos = 3
  None = None
INVARIANTS
  TypeOK
  
  
CHECK_DEADLOCK FALSE
