CONSTANTS
  Rooms = {r1, r2}
  Kinds = {"message", "join", "leave"}
  Apis = {"sync"}
  Limit = 1
  None = None
  MaxPos = 2
SPECIFICATION FairSpec
PROPERTIES
  NewsEndsTheWait
  PollEnds
  TokenPassesEvents
