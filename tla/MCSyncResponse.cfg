SPECIFICATION Spec
CONSTANTS
    Users = {me, u1}
    Me = me
    Other = {name}
    Naming = {name}
    Blank = {0}
    Filters <- MCFilters
    Posts <- MCPosts
    Message = Message
    Idle = Idle
    u1 = u1
    name = name
    Forks = TRUE
    MaxLog = 4
INVARIANTS NothingMissed ClientCurrent SendersKnown CacheIsKnown
CHECK_DEADLOCK FALSE
